--------------------------- MODULE McpStdioProofs ---------------------------
(* For input of any length: the types, that answers follow the messages one *)
(* by one, and that they agree with what the host did.                      *)
EXTENDS McpStdio, TLAPS

Answers == [to : Positions, how : Outcomes]

\* What is under way belongs to a message that is being handled, ...
HandledIsUnanswered ==
  loop = "handle" => /\ ~Answered(read)
                     /\ input[read] \in Answerable \cup {"initialized", "invalid"}

\* ... and only calls reach the host.  One that is not over there is being
\* handled, or its client has been told that it failed: the host may yet accept
\* what it has been sent.
ForwardedAreCalls ==
  /\ \A n \in forwarded : input[n] = "call"
  /\ \A n \in Positions : status[n] # "idle" => n \in forwarded
  /\ \A n \in forwarded :
       status[n] # "over" /\ loop # "stopped"
         => \/ n = read /\ loop = "handle"
            \/ \E i \in 1 .. Len(answers) : answers[i] = [to |-> n, how |-> "error"]

LoopInv ==
  /\ TypeOK
  /\ HandledIsUnanswered
  /\ ForwardedAreCalls
  /\ AnswersFollowRequests
  /\ AnswersMatchTheHost

LEMMA Lengths ==
  ASSUME TypeOK
  PROVE  /\ Len(input) \in Nat /\ Len(answers) \in Nat /\ read \in Nat
         /\ MaxMessages \in Nat /\ read <= Len(input) /\ Len(input) <= MaxMessages
  <1>1. Len(input) \in Nat /\ Len(answers) \in Nat
    <2>1. input \in Seq(Kinds) /\ answers \in Seq(Answers)
      BY DEF TypeOK, Answers
    <2> QED BY <2>1
  <1>2. read \in 0 .. Len(input) /\ Len(input) <= MaxMessages
    BY DEF TypeOK
  <1> QED BY <1>1, <1>2, MessagesAssumption

LEMMA ReadPlaces ==
  ASSUME TypeOK
  PROVE  /\ \A n \in 1 .. read : n \in Positions /\ n \in 1 .. Len(input)
         /\ loop = "handle" => read \in 1 .. read
  <1>1. loop = "handle" => read > 0
    BY DEF TypeOK
  <1> QED BY <1>1, Lengths DEF Positions

LEMMA ElementTypes ==
  ASSUME TypeOK
  PROVE  /\ \A n \in 1 .. Len(input) : input[n] \in Kinds
         /\ \A i \in 1 .. Len(answers) :
              answers[i] \in Answers /\ answers[i].to \in Positions /\ answers[i].to \in Nat
  <1>1. input \in Seq(Kinds) /\ answers \in Seq(Answers)
    BY DEF TypeOK, Answers
  <1>2. \A a \in Answers : a.to \in Positions /\ a.to \in Nat
    BY DEF Answers, Positions
  <1> QED BY <1>1, <1>2

LEMMA LengthTypes ==
  ASSUME TypeOK
  PROVE  /\ Len(input) \in Nat /\ Len(answers) \in Nat /\ read \in Nat
         /\ \A n \in 1 .. read : n \in Positions /\ input[n] \in Kinds
         /\ \A i \in 1 .. Len(answers) : answers[i] \in Answers
         /\ loop = "handle" => read \in 1 .. read
  BY Lengths, ReadPlaces, ElementTypes

\* An answer is added behind the others.
LEMMA AnswerAppends ==
  ASSUME TypeOK, loop = "handle", NEW how \in Outcomes, Answer(how)
  PROVE  /\ answers' \in Seq(Answers)
         /\ Len(answers') = Len(answers) + 1
         /\ answers'[Len(answers) + 1] = [to |-> read, how |-> how]
         /\ \A i \in 1 .. Len(answers) : answers'[i] = answers[i]
  <1>1. [to |-> read, how |-> how] \in Answers
    BY LengthTypes DEF Answers
  <1>2. answers \in Seq(Answers) /\ answers' = Append(answers, [to |-> read, how |-> how])
    BY DEF TypeOK, Answers, Answer
  <1> QED BY <1>1, <1>2

\* What holds once the message in hand has been answered.
LEMMA AnswerKeepsInv ==
  ASSUME LoopInv, loop = "handle", NEW how \in Outcomes, Answer(how),
         input[read] \in Answerable,
         how = "anonymous" <=> input[read] = "notification",
         read \in forwarded => how = "error" \/ status[read] = "over",
         input[read] = "call" /\ how = "result" =>
           status[read] = "over" /\ reply[read] \in {"result", "ack", "echo"}
  PROVE  LoopInv'
  <1>0. /\ TypeOK /\ UNCHANGED <<input, read, forwarded, status, verdict, reply>>
        /\ loop' = "receive" /\ read \in 1 .. read
    BY LengthTypes DEF LoopInv, Answer, hostVars
  <1>1. /\ answers' \in Seq(Answers)
        /\ Len(answers') = Len(answers) + 1
        /\ answers'[Len(answers) + 1] = [to |-> read, how |-> how]
        /\ \A i \in 1 .. Len(answers) : answers'[i] = answers[i]
    BY <1>0, AnswerAppends
  <1>2. Len(answers) \in Nat /\ read \in Nat
        /\ \A i \in 1 .. Len(answers) : answers[i].to \in Nat /\ answers[i].to < read
    <2>1. Len(answers) \in Nat /\ read \in Nat /\ read \in Positions /\ ~Answered(read)
      BY <1>0, LengthTypes DEF LoopInv, HandledIsUnanswered
    <2>2. \A i \in 1 .. Len(answers) : answers[i].to \in Nat
      BY <1>0, ElementTypes
    <2>3. \A i \in 1 .. Len(answers) : answers[i].to <= read
      BY DEF LoopInv, AnswersFollowRequests
    <2>4. \A i \in 1 .. Len(answers) : answers[i].to # read
      BY <2>1 DEF Answered
    <2> QED BY <2>1, <2>2, <2>3, <2>4
  <1>3. TypeOK'
    BY <1>0, <1>1 DEF TypeOK, Answers, Positions
  <1>4. HandledIsUnanswered'
    BY <1>0 DEF HandledIsUnanswered
  <1>5. \A n \in Positions : Answered(n)' <=> Answered(n) \/ n = read
    BY <1>1, <1>2 DEF Answered
  <1>6. ForwardedAreCalls'
    <2> SUFFICES ASSUME NEW n \in forwarded, status[n] # "over", n # read
                 PROVE  \E i \in 1 .. Len(answers') :
                          answers'[i] = [to |-> n, how |-> "error"]
      BY <1>0, <1>1, <1>2 DEF LoopInv, ForwardedAreCalls
    <2>1. PICK i \in 1 .. Len(answers) : answers[i] = [to |-> n, how |-> "error"]
      BY DEF LoopInv, ForwardedAreCalls
    <2> QED BY <1>1, <1>2, <2>1
  <1>7. AnswersFollowRequests'
    <2>1. \A i, j \in 1 .. Len(answers') : i < j => answers'[i].to < answers'[j].to
      <3>1. ASSUME NEW i \in 1 .. Len(answers'), NEW j \in 1 .. Len(answers'), i < j
            PROVE  answers'[i].to < answers'[j].to
        <4>0. Len(answers') = Len(answers) + 1 /\ Len(answers) \in Nat
          BY <1>1, <1>2
        <4>1. i \in 1 .. Len(answers) /\ (j \in 1 .. Len(answers) \/ j = Len(answers) + 1)
          BY <3>1, <4>0
        <4>2. answers'[i] = answers[i] /\ answers[i].to < read
          BY <1>1, <1>2, <4>1
        <4>3. CASE j = Len(answers) + 1
          BY <1>1, <4>2, <4>3
        <4>4. CASE j \in 1 .. Len(answers)
          BY <1>1, <3>1, <4>1, <4>2, <4>4 DEF LoopInv, AnswersFollowRequests
        <4> QED BY <4>1, <4>3, <4>4
      <3> QED BY <3>1
    <2>2. \A i \in 1 .. Len(answers') :
            /\ answers'[i].to <= read'
            /\ answers'[i].how = "anonymous" <=> input'[answers'[i].to] = "notification"
      <3> SUFFICES ASSUME NEW i \in 1 .. Len(answers')
                   PROVE  /\ answers'[i].to <= read
                          /\ answers'[i].how = "anonymous"
                               <=> input[answers'[i].to] = "notification"
        BY <1>0
      <3>1. CASE i \in 1 .. Len(answers)
        BY <1>1, <3>1 DEF LoopInv, AnswersFollowRequests
      <3>2. CASE i = Len(answers) + 1
        BY <1>1, <1>2, <3>2
      <3> QED BY <1>1, <1>2, <3>1, <3>2
    <2>3. \A n \in 1 .. read : n \in Positions /\ n \in Nat /\ (n < read \/ n = read)
      BY <1>0, <1>2, LengthTypes
    <2>4. \A n \in 1 .. read' : Answered(n)' => input'[n] \in Answerable
      BY <1>0, <1>5, <2>3 DEF LoopInv, AnswersFollowRequests
    <2>5. \A n \in 1 .. read' : input'[n] \in Answerable => Answered(n)'
      BY <1>0, <1>5, <2>3 DEF LoopInv, AnswersFollowRequests
    <2> QED BY <2>1, <2>2, <2>4, <2>5 DEF AnswersFollowRequests
  <1>8. AnswersMatchTheHost'
    <2>1. ASSUME NEW i \in 1 .. Len(answers'), input'[answers'[i].to] = "call",
                 answers'[i].how = "result"
          PROVE  /\ status'[answers'[i].to] = "over"
                 /\ reply'[answers'[i].to] \in {"result", "ack", "echo"}
      <3>1. CASE i = Len(answers) + 1
        BY <1>0, <1>1, <2>1, <3>1
      <3>2. CASE i \in 1 .. Len(answers)
        BY <1>0, <1>1, <2>1, <3>2 DEF LoopInv, AnswersMatchTheHost
      <3> QED BY <1>1, <1>2, <3>1, <3>2
    <2>2. ASSUME NEW n \in Positions, status'[n] = "open"
          PROVE  \E i \in 1 .. Len(answers') : answers'[i] = [to |-> n, how |-> "error"]
      <3>1. n \in forwarded
        BY <1>0, <2>2 DEF LoopInv, ForwardedAreCalls
      <3> QED BY <1>0, <1>6, <2>2, <3>1 DEF ForwardedAreCalls
    <2> QED BY <1>0, <2>1, <2>2 DEF AnswersMatchTheHost
  <1> QED BY <1>3, <1>4, <1>6, <1>7, <1>8 DEF LoopInv

\* The host works on what it has been sent, and what is over stays so.
LEMMA HostStep ==
  ASSUME TypeOK, HostServes
  PROVE  /\ status' \in [Positions -> {"idle", "open", "over"}]
         /\ verdict' \in [Positions -> Verdicts \cup {"unset"}]
         /\ reply' \in [Positions -> Verdicts \cup {"unset", "echo", "given up"}]
         /\ \A n \in Positions : status[n] = "over" =>
              status'[n] = "over" /\ reply'[n] = reply[n]
         /\ \A n \in Positions : n \notin forwarded => status'[n] = status[n]
  <1>1. forwarded \subseteq Positions
    BY LengthTypes DEF TypeOK
  <1>2. ASSUME NEW n \in forwarded, Host!Accept(n)
        PROVE  /\ status' = [status EXCEPT ![n] = "open"] /\ status[n] = "idle"
               /\ UNCHANGED <<verdict, reply>>
    BY <1>2 DEF Host!Accept
  <1>3. ASSUME NEW n \in forwarded,
               Host!AnswerLocally(n) \/ Host!ReplyVerdict(n) \/ Host!GiveUp(n)
        PROVE  /\ status' = [status EXCEPT ![n] = "over"] /\ status[n] # "over"
               /\ verdict' = [verdict EXCEPT ![n] = "unset"]
               /\ \E r \in Verdicts \cup {"unset", "echo", "given up"} :
                    reply' = [reply EXCEPT ![n] = r]
    BY <1>1, <1>3 DEF Host!AnswerLocally, Host!ReplyVerdict, Host!GiveUp, Host!End, TypeOK
  <1>4. ASSUME NEW S \in SUBSET forwarded, NEW v \in [S -> Verdicts], Host!Settle(S, v)
        PROVE  /\ UNCHANGED <<status, reply>>
               /\ verdict' \in [Positions -> Verdicts \cup {"unset"}]
    BY <1>4 DEF Host!Settle, TypeOK
  <1>5. \/ \E n \in forwarded : Host!Accept(n)
        \/ \E n \in forwarded :
             Host!AnswerLocally(n) \/ Host!ReplyVerdict(n) \/ Host!GiveUp(n)
        \/ \E S \in SUBSET forwarded : \E v \in [S -> Verdicts] : Host!Settle(S, v)
    BY DEF HostServes
  <1>6. CASE \E n \in forwarded : Host!Accept(n)
    BY <1>1, <1>2, <1>6 DEF TypeOK
  <1>7. CASE \E n \in forwarded :
               Host!AnswerLocally(n) \/ Host!ReplyVerdict(n) \/ Host!GiveUp(n)
    <2>1. PICK n \in forwarded :
            Host!AnswerLocally(n) \/ Host!ReplyVerdict(n) \/ Host!GiveUp(n)
      BY <1>7
    <2>2. /\ status' = [status EXCEPT ![n] = "over"] /\ status[n] # "over"
          /\ verdict' = [verdict EXCEPT ![n] = "unset"] /\ n \in Positions
      BY <1>1, <1>3, <2>1
    <2>3. PICK r \in Verdicts \cup {"unset", "echo", "given up"} :
            reply' = [reply EXCEPT ![n] = r]
      BY <1>3, <2>1
    <2> QED BY <2>2, <2>3 DEF TypeOK
  <1>8. CASE \E S \in SUBSET forwarded : \E v \in [S -> Verdicts] : Host!Settle(S, v)
    BY <1>4, <1>8 DEF TypeOK
  <1> QED BY <1>5, <1>6, <1>7, <1>8

LEMMA LoopInvInductive == Spec => []LoopInv
  <1>1. Init => LoopInv
    BY MessagesAssumption
    DEF Init, Host!CallInit, LoopInv, TypeOK, HandledIsUnanswered, ForwardedAreCalls,
        AnswersFollowRequests, AnswersMatchTheHost, Answered, Positions
  <1>2. LoopInv /\ [Next]_vars => LoopInv'
    <2> SUFFICES ASSUME LoopInv, [Next]_vars PROVE LoopInv'
      OBVIOUS
    <2>0. TypeOK
      BY DEF LoopInv
    <2>1. ASSUME NEW kind \in Kinds, ClientWrites(kind) PROVE LoopInv'
      <3>1. /\ UNCHANGED <<read, loop, forwarded, answers, status, verdict, reply>>
            /\ input' = Append(input, kind) /\ Len(input) < MaxMessages
        BY <2>1 DEF ClientWrites, hostVars
      <3>2. /\ input' \in Seq(Kinds) /\ Len(input') = Len(input) + 1
            /\ \A n \in 1 .. Len(input) : input'[n] = input[n]
        <4>1. input \in Seq(Kinds)
          BY <2>0 DEF TypeOK
        <4> QED BY <3>1, <4>1
      <3>3. /\ Len(input') <= MaxMessages /\ read \in 0 .. Len(input')
            /\ \A n \in 1 .. read : input'[n] = input[n]
        BY <2>0, <3>1, <3>2, Lengths, ReadPlaces
      <3>4. TypeOK'
        BY <2>0, <3>1, <3>2, <3>3 DEF TypeOK
      <3>5. HandledIsUnanswered'
        BY <2>0, <3>1, <3>3, ReadPlaces DEF LoopInv, HandledIsUnanswered, Answered
      <3>6. ForwardedAreCalls'
        BY <2>0, <3>1, <3>3 DEF LoopInv, ForwardedAreCalls, TypeOK
      <3>7. AnswersFollowRequests'
        <4>1. \A i \in 1 .. Len(answers) : answers[i].to \in 1 .. read
          <5>1. \A n \in Positions : n <= read => n \in 1 .. read
            BY <2>0, Lengths DEF Positions
          <5> QED BY <2>0, <5>1, ElementTypes DEF LoopInv, AnswersFollowRequests
        <4> QED BY <3>1, <3>3, <4>1 DEF LoopInv, AnswersFollowRequests, Answered
      <3>8. AnswersMatchTheHost'
        <4>1. \A i \in 1 .. Len(answers) : answers[i].to \in 1 .. read
          <5>1. \A n \in Positions : n <= read => n \in 1 .. read
            BY <2>0, Lengths DEF Positions
          <5> QED BY <2>0, <5>1, ElementTypes DEF LoopInv, AnswersFollowRequests
        <4> QED BY <3>1, <3>3, <4>1 DEF LoopInv, AnswersMatchTheHost
      <3> QED BY <3>4, <3>5, <3>6, <3>7, <3>8 DEF LoopInv
    <2>2. CASE HostServes
      <3>1. UNCHANGED <<input, read, loop, forwarded, answers>>
        BY <2>2 DEF HostServes
      <3>2. TypeOK'
        BY <2>0, <2>2, <3>1, HostStep DEF TypeOK
      <3>3. ForwardedAreCalls'
        <4>1. \A n \in forwarded : n \in Positions
          BY <2>0, ReadPlaces DEF TypeOK
        <4>2. /\ \A n \in forwarded : input'[n] = "call"
              /\ \A n \in Positions : status'[n] # "idle" => n \in forwarded'
          BY <2>0, <2>2, <3>1, HostStep DEF LoopInv, ForwardedAreCalls
        <4>3. \A n \in forwarded : status'[n] # "over" => status[n] # "over"
          BY <2>0, <2>2, <4>1, HostStep
        <4> QED BY <3>1, <4>2, <4>3 DEF LoopInv, ForwardedAreCalls
      <3>4. AnswersMatchTheHost'
        <4>1. \A i \in 1 .. Len(answers) : answers[i].to \in Positions
          BY <2>0, LengthTypes DEF Answers
        <4>2. \A n \in Positions : status'[n] = "open" => n \in forwarded
          BY <3>3, <3>1 DEF ForwardedAreCalls
        <4> QED
          BY <2>0, <2>2, <3>1, <3>3, <4>1, <4>2, HostStep
          DEF LoopInv, ForwardedAreCalls, AnswersMatchTheHost
      <3> QED
        BY <3>1, <3>2, <3>3, <3>4
        DEF LoopInv, HandledIsUnanswered, AnswersFollowRequests, Answered
    <2>3. CASE Receive
      <3>1. /\ UNCHANGED <<input, forwarded, answers, status, verdict, reply>>
            /\ loop = "receive" /\ loop' \in {"stopped", "handle"}
            /\ loop' = "handle" => input[read'] \notin {"garbage", "end of file"}
        BY <2>3 DEF Receive, hostVars
      <3>2. read' = read + 1 /\ read < Len(input)
        BY <2>3 DEF Receive
      <3>3. /\ read \in Nat /\ read' \in Nat \ {0} /\ read' > 0
            /\ read' \in 0 .. Len(input) /\ read' \in 1 .. Len(input)
            /\ \A n \in 1 .. read' : n \in 1 .. read \/ (n = read' /\ ~(n < read'))
            /\ \A n \in 1 .. read : n \in 1 .. read' /\ n < read' /\ n # read'
            /\ \A n \in Nat : n <= read => n <= read' /\ n # read'
        BY <2>0, <3>2, Lengths
      <3>4. input[read'] \in Kinds
        BY <2>0, <3>3, ElementTypes
      <3>5. /\ \A i \in 1 .. Len(answers) : answers[i].to # read' /\ answers[i].to <= read'
            /\ ~Answered(read')
        BY <2>0, <3>3, ElementTypes DEF LoopInv, AnswersFollowRequests, Answered
      <3>6. TypeOK'
        <4>1. input' \in Seq(Kinds) /\ Len(input') <= MaxMessages /\ read' \in 0 .. Len(input')
          BY <2>0, <3>1, <3>3 DEF TypeOK
        <4>2. loop' \in {"receive", "handle", "stopped"} /\ read' > 0
          BY <3>1, <3>3
        <4>3. forwarded' \subseteq 1 .. read'
          BY <2>0, <3>1, <3>3 DEF TypeOK
        <4> QED BY <2>0, <3>1, <4>1, <4>2, <4>3 DEF TypeOK
      <3>7. HandledIsUnanswered'
        BY <3>1, <3>4, <3>5 DEF HandledIsUnanswered, Answered, Kinds, Answerable
      <3>8. ForwardedAreCalls'
        BY <3>1 DEF LoopInv, ForwardedAreCalls
      <3>9. AnswersFollowRequests'
        <4>1. \A i, j \in 1 .. Len(answers') : i < j => answers'[i].to < answers'[j].to
          BY <3>1 DEF LoopInv, AnswersFollowRequests
        <4>2. \A i \in 1 .. Len(answers') :
                /\ answers'[i].to <= read'
                /\ answers'[i].how = "anonymous"
                     <=> input'[answers'[i].to] = "notification"
          BY <3>1, <3>5 DEF LoopInv, AnswersFollowRequests
        <4>3. \A n \in 1 .. read' : Answered(n)' => input'[n] \in Answerable
          BY <3>1, <3>3, <3>5 DEF LoopInv, AnswersFollowRequests, Answered
        <4>4. \A n \in 1 .. read :
                input[n] \in Answerable => Answered(n)'
          BY <3>1 DEF LoopInv, AnswersFollowRequests, Answered
        <4>5. \A n \in 1 .. read' :
                input'[n] \in Answerable /\ (n < read' \/ loop' = "receive")
                  => Answered(n)'
          <5> SUFFICES ASSUME NEW n \in 1 .. read', input[n] \in Answerable,
                              n < read' \/ loop' = "receive"
                       PROVE  Answered(n)'
            BY <3>1
          <5>1. n \in 1 .. read
            BY <3>1, <3>3
          <5> QED BY <4>4, <5>1
        <4> QED BY <4>1, <4>2, <4>3, <4>5 DEF AnswersFollowRequests
      <3>10. AnswersMatchTheHost'
        BY <3>1 DEF LoopInv, AnswersMatchTheHost
      <3> QED BY <3>6, <3>7, <3>8, <3>9, <3>10 DEF LoopInv
    <2>4. CASE AnswerLocally \/ AnswerNotification
      <3>1. loop = "handle" /\ input[read] \in {"local", "notification"}
        BY <2>4 DEF AnswerLocally, AnswerNotification, Handling
      <3>2. PICK how \in Outcomes :
              Answer(how) /\ (how = "anonymous" <=> input[read] = "notification")
        BY <2>4 DEF AnswerLocally, AnswerNotification, Handling, Outcomes
      <3>3. read \notin forwarded
        BY <3>1 DEF LoopInv, ForwardedAreCalls
      <3> QED BY <3>1, <3>2, <3>3, AnswerKeepsInv DEF Answerable
    <2>5. CASE RejectCall \/ LoseLink
      <3>1. loop = "handle" /\ input[read] = "call" /\ Answer("error")
        BY <2>5 DEF RejectCall, LoseLink, Handling
      <3> QED BY <3>1, AnswerKeepsInv DEF Answerable, Outcomes
    <2>6. CASE ReceiveAnswer
      <3>1. /\ loop = "handle" /\ input[read] = "call" /\ status[read] = "over"
            /\ Answer(AnswerFor(reply[read]))
        BY <2>6 DEF ReceiveAnswer, Handling
      <3>2. /\ AnswerFor(reply[read]) \in {"result", "error"}
            /\ AnswerFor(reply[read]) = "result" => reply[read] \in {"result", "ack", "echo"}
        BY DEF AnswerFor
      <3> QED BY <3>1, <3>2, AnswerKeepsInv DEF Answerable, Outcomes
    <2>7. CASE ForwardCall
      <3>1. /\ UNCHANGED <<input, read, loop, answers, status, verdict, reply>>
            /\ loop = "handle" /\ input[read] = "call"
            /\ forwarded' = forwarded \cup {read}
        BY <2>7 DEF ForwardCall, Handling, hostVars
      <3>2. TypeOK'
        BY <2>0, <3>1, LengthTypes DEF TypeOK
      <3> QED
        BY <3>1, <3>2
        DEF LoopInv, HandledIsUnanswered, ForwardedAreCalls, AnswersFollowRequests,
            AnswersMatchTheHost, Answered
    <2>8. CASE TakeInitialized
      <3>1. /\ UNCHANGED <<input, read, forwarded, answers, status, verdict, reply>>
            /\ loop = "handle" /\ input[read] = "initialized" /\ loop' = "receive"
        BY <2>8 DEF TakeInitialized, Handling, hostVars
      <3>2. read \notin forwarded /\ read \in Positions /\ status[read] # "open"
        BY <2>0, <3>1, LengthTypes DEF LoopInv, ForwardedAreCalls
      <3>3. TypeOK' /\ HandledIsUnanswered'
        BY <2>0, <3>1 DEF TypeOK, HandledIsUnanswered
      <3>4. ForwardedAreCalls' /\ AnswersMatchTheHost'
        BY <3>1, <3>2 DEF LoopInv, ForwardedAreCalls, AnswersMatchTheHost
      <3>5. AnswersFollowRequests'
        <4>1. \A n \in 1 .. read : n < read \/ n = read
          BY <2>0, LengthTypes
        <4> QED BY <3>1, <4>1 DEF LoopInv, AnswersFollowRequests, Answered, Answerable
      <3> QED BY <3>3, <3>4, <3>5 DEF LoopInv
    <2>9. CASE HandlerRaises \/ SendFails \/ RequestTimeout
      <3>1. /\ UNCHANGED <<input, read, forwarded, answers, status, verdict, reply>>
            /\ loop = "handle" /\ loop' = "stopped"
        BY <2>9 DEF HandlerRaises, SendFails, RequestTimeout, Handling, Raise, hostVars
      <3>2. TypeOK'
        BY <2>0, <3>1 DEF TypeOK
      <3> QED
        BY <3>1, <3>2
        DEF LoopInv, HandledIsUnanswered, ForwardedAreCalls, AnswersFollowRequests,
            AnswersMatchTheHost, Answered
    <2>10. CASE UNCHANGED vars
      <3>1. UNCHANGED <<input, read, loop, forwarded, answers, status, verdict, reply>>
        BY <2>10 DEF vars, hostVars
      <3>2. TypeOK' /\ HandledIsUnanswered' /\ ForwardedAreCalls'
        BY <3>1 DEF LoopInv, TypeOK, HandledIsUnanswered, ForwardedAreCalls, Answered
      <3>3. AnswersFollowRequests' /\ AnswersMatchTheHost'
        BY <3>1 DEF LoopInv, AnswersFollowRequests, AnswersMatchTheHost, Answered
      <3> QED BY <3>2, <3>3 DEF LoopInv
    <2> QED
      BY <2>1, <2>2, <2>3, <2>4, <2>5, <2>6, <2>7, <2>8, <2>9, <2>10 DEF Next
  <1> QED BY <1>1, <1>2, PTL DEF Spec

\* The loop's variables and the host's keep their types (TypeOK).
THEOREM TypeCorrect == Spec => []TypeOK
  <1>1. LoopInv => TypeOK
    BY DEF LoopInv
  <1> QED BY <1>1, LoopInvInductive, PTL

\* Answers come in the order of the messages, one for each request and for each
\* notification but notifications/initialized, with the id of the one and null for
\* the other (AnswersFollowRequests).
THEOREM AnswersComeInOrder == Spec => []AnswersFollowRequests
  <1>1. LoopInv => AnswersFollowRequests
    BY DEF LoopInv
  <1> QED BY <1>1, LoopInvInductive, PTL

\* A result is the host's, and what the host is still at has been refused or is
\* in hand (AnswersMatchTheHost).
THEOREM ResultsAreTheHosts == Spec => []AnswersMatchTheHost
  <1>1. LoopInv => AnswersMatchTheHost
    BY DEF LoopInv
  <1> QED BY <1>1, LoopInvInductive, PTL
=============================================================================
