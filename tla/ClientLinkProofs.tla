--------------------------- MODULE ClientLinkProofs ---------------------------
(* For any tools, calls, number of hosts and retries: the types, that a     *)
(* mirror in service belongs to the session the client is bound to, and     *)
(* that calls are forwarded only under a bind that stands.                  *)
EXTENDS ClientLink, TLAPS

\* The snapshot under way comes from the session the client asked for: the host
\* has compared the two.
ReplyIsUpstreams == bind = "answered" => reply.session = upstream

\* Without a bind that stands, the mirror is stale, or empty as on the first day.
UnboundServesNothing == bind # "bound" => mirror.stale \/ mirror.tools = {}

LinkInv ==
  /\ TypeOK
  /\ MirrorIsUpstreams
  /\ ReplyIsUpstreams
  /\ UnboundServesNothing

LEMMA InitEstablishesTypes == Init => TypeOK
  BY ConstantsAssumption DEF Init, TypeOK, Sessions, Shots, Results

\* What a call does leaves the link and the host alone.
CallStep(c) ==
  \/ RejectStale(c) \/ RejectUnknown(c) \/ ForwardCall(c)
  \/ ServeCall(c) \/ ReturnAnswer(c) \/ LoseLink(c) \/ RequestTimeout(c)

LEMMA CallsTouchCallsOnly ==
  ASSUME NEW c \in Calls, CallStep(c)
  PROVE  UNCHANGED <<host, linkVars>>
  BY DEF CallStep, RejectStale, RejectUnknown, ForwardCall, ServeCall, ReturnAnswer,
         LoseLink, RequestTimeout

LEMMA CallsKeepTypes ==
  ASSUME TypeOK, NEW c \in Calls, CallStep(c)
  PROVE  TypeOK'
  <1>1. UNCHANGED <<host, linkVars>>
    BY CallsTouchCallsOnly
  <1>2. CASE RejectStale(c)
    BY <1>1, <1>2 DEF TypeOK, RejectStale, Finish, Results, linkVars
  <1>3. CASE RejectUnknown(c)
    BY <1>1, <1>3 DEF TypeOK, RejectUnknown, Finish, Results, linkVars
  <1>4. CASE ForwardCall(c)
    BY <1>1, <1>4 DEF TypeOK, ForwardCall, linkVars
  <1>5. CASE ServeCall(c)
    BY <1>1, <1>5 DEF TypeOK, ServeCall, linkVars
  <1>6. CASE ReturnAnswer(c)
    BY <1>1, <1>6 DEF TypeOK, ReturnAnswer, Finish, Results, linkVars
  <1>7. CASE LoseLink(c)
    BY <1>1, <1>7 DEF TypeOK, LoseLink, Finish, Results, linkVars
  <1>8. CASE RequestTimeout(c)
    BY <1>1, <1>8 DEF TypeOK, RequestTimeout, Finish, Results, linkVars
  <1> QED BY <1>2, <1>3, <1>4, <1>5, <1>6, <1>7, <1>8 DEF CallStep

LEMMA InitEstablishesInv == Init => LinkInv
  BY InitEstablishesTypes
  DEF Init, LinkInv, MirrorIsUpstreams, ReplyIsUpstreams, UnboundServesNothing

LEMMA StepKeepsInv == LinkInv /\ [Next]_vars => LinkInv'
  <1> SUFFICES ASSUME LinkInv, [Next]_vars PROVE LinkInv'
    OBVIOUS
  <1> USE DEF MirrorIsUpstreams, ReplyIsUpstreams, UnboundServesNothing
  <1>1. TypeOK /\ MirrorIsUpstreams /\ ReplyIsUpstreams /\ UnboundServesNothing
    BY DEF LinkInv
  <1>2. ASSUME NEW t \in Tools, HostChanges(t) PROVE LinkInv'
    <2>1. TypeOK'
      BY <1>1, <1>2 DEF HostChanges, TypeOK, linkVars, callVars
    <2> QED BY <1>1, <1>2, <2>1 DEF LinkInv, HostChanges, linkVars
  <1>3. CASE HostRestarts
    <2>1. TypeOK'
      BY <1>1, <1>3, ConstantsAssumption DEF HostRestarts, TypeOK, Sessions, linkVars, callVars
    <2> QED BY <1>1, <1>3, <2>1 DEF LinkInv, HostRestarts, linkVars
  <1>4. CASE AskHello \/ AnswerHello \/ HelloFails
    <2>1. TypeOK'
      BY <1>1, <1>4 DEF AskHello, AnswerHello, HelloFails, TypeOK, callVars
    <2> QED BY <1>1, <1>4, <2>1 DEF LinkInv, AskHello, AnswerHello, HelloFails
  <1>5. CASE StartBind
    <2>1. mirror \in [session : Sessions \cup {0}, tools : SUBSET Tools, stale : BOOLEAN]
      BY <1>1 DEF TypeOK
    <2>2. /\ mirror' \in [session : Sessions \cup {0}, tools : SUBSET Tools, stale : BOOLEAN]
          /\ mirror'.stale
      BY <1>5, <2>1 DEF StartBind
    <2>3. attempt' \in 0 .. ReconnectAttempts
      BY <1>5, ConstantsAssumption DEF StartBind
    <2>4. TypeOK'
      BY <1>1, <1>5, <2>2, <2>3 DEF StartBind, TypeOK, callVars
    <2> QED BY <1>1, <1>5, <2>2, <2>4 DEF LinkInv, StartBind
  <1>6. CASE AnswerBind
    <2>1. TypeOK'
      BY <1>1, <1>6 DEF AnswerBind, TypeOK, Shots, callVars
    <2> QED BY <1>1, <1>6, <2>1 DEF LinkInv, AnswerBind, SessionKnown
  <1>7. ASSUME RetryOrRaise, bind \in {"asking", "answered"},
               mirror' = mirror \/ mirror' = [mirror EXCEPT !.stale = TRUE]
        PROVE  LinkInv'
    <2>1. mirror \in [session : Sessions \cup {0}, tools : SUBSET Tools, stale : BOOLEAN]
      BY <1>1 DEF TypeOK
    <2>2. /\ mirror' \in [session : Sessions \cup {0}, tools : SUBSET Tools, stale : BOOLEAN]
          /\ mirror'.session = mirror.session /\ mirror'.tools = mirror.tools
          /\ mirror.stale => mirror'.stale
          /\ ~mirror'.stale => ~mirror.stale
      BY <1>7, <2>1
    <2>3. attempt' \in 0 .. ReconnectAttempts
      BY <1>1, <1>7, ConstantsAssumption DEF RetryOrRaise, TypeOK
    <2>4. TypeOK'
      BY <1>1, <1>7, <2>2, <2>3 DEF RetryOrRaise, TypeOK, callVars
    <2> QED BY <1>1, <1>7, <2>2, <2>4 DEF LinkInv, RetryOrRaise
  <1>8. CASE RefuseBind
    BY <1>7, <1>8 DEF RefuseBind
  <1>9. CASE BindAttemptFails
    BY <1>7, <1>9 DEF BindAttemptFails
  <1>10. CASE ApplySnapshot
    <2>1. TypeOK'
      BY <1>1, <1>10, ConstantsAssumption DEF ApplySnapshot, TypeOK, Shots, callVars
    <2> QED BY <1>1, <1>10, <2>1 DEF LinkInv, ApplySnapshot
  <1>11. ASSUME NEW c \in Calls, CallStep(c) PROVE LinkInv'
    <2>1. TypeOK'
      BY <1>1, <1>11, CallsKeepTypes
    <2>2. UNCHANGED <<host, linkVars>>
      BY <1>11, CallsTouchCallsOnly
    <2> QED BY <1>1, <2>1, <2>2 DEF LinkInv, linkVars
  <1>12. CASE UNCHANGED vars
    BY <1>1, <1>12 DEF LinkInv, TypeOK, vars, linkVars, callVars
  <1> QED BY <1>2, <1>3, <1>4, <1>5, <1>6, <1>8, <1>9, <1>10, <1>11, <1>12
          DEF Next, CallStep

LEMMA LinkInvInductive == Spec => []LinkInv
  BY InitEstablishesInv, StepKeepsInv, PTL DEF Spec

\* Every variable of the client link keeps its type; in particular a bind makes
\* no more attempts than relay.reconnect_attempts allows.
THEOREM TypeCorrect == Spec => []TypeOK
  <1>1. LinkInv => TypeOK
    BY DEF LinkInv
  <1> QED BY <1>1, LinkInvInductive, PTL

\* A mirror in service is a snapshot of the session that the client is bound to.
THEOREM MirrorOfTheBoundSession == Spec => []MirrorIsUpstreams
  <1>1. LinkInv => MirrorIsUpstreams
    BY DEF LinkInv
  <1> QED BY <1>1, LinkInvInductive, PTL

\* A call leaves the client only while a bind stands.
THEOREM CallsNeedABind == Spec => ForwardedOnlyWhenBound
  <1>1. LinkInv /\ [Next]_vars
          => [\A c \in Calls : call[c] = "idle" /\ call'[c] = "asked" => bind = "bound"]_vars
    <2> SUFFICES ASSUME LinkInv, [Next]_vars, NEW c \in Calls,
                        call[c] = "idle", call'[c] = "asked"
                 PROVE  bind = "bound"
      OBVIOUS
    <2>1. PICK d \in Calls : CallStep(d)
      BY DEF Next, vars, callVars, HostChanges, HostRestarts, AskHello, AnswerHello,
             HelloFails, StartBind, AnswerBind, RefuseBind, BindAttemptFails,
             RetryOrRaise, ApplySnapshot, CallStep
    <2>2. call \in [Calls -> {"idle", "asked", "served", "done"}]
      BY DEF LinkInv, TypeOK
    <2>3. ForwardCall(d)
      BY <2>1, <2>2 DEF CallStep, RejectStale, RejectUnknown, ServeCall, ReturnAnswer,
                        LoseLink, RequestTimeout, Finish
    <2> QED BY <2>3 DEF LinkInv, UnboundServesNothing, ForwardCall
  <1> QED BY <1>1, LinkInvInductive, PTL DEF Spec, ForwardedOnlyWhenBound
=============================================================================
