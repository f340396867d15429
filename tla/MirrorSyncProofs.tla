--------------------------- MODULE MirrorSyncProofs ---------------------------
(* For any keys, definitions and bounds: the types, that the mirror holds a *)
(* past state of the host until it applies an in-place update, what an      *)
(* event may do to it, and that it implements a reader of a register of     *)
(* versions.                                                                *)
EXTENDS MirrorSync, Sequences, TLAPS

\* Each revision of the host adds, removes or replaces one key.
OneChange(n) ==
  \E k \in Keys :
    /\ history[n][k] # history[n - 1][k]
    /\ history[n] = [history[n - 1] EXCEPT ![k] = history[n][k]]

\* The answer under way is a past state of the host, too.
ReplyIsAPastHost == reply.rev <= host.rev /\ reply.defs = history[reply.rev]

MirrorInv ==
  /\ TypeOK
  /\ host.defs = history[host.rev]
  /\ \A n \in 1 .. host.rev : OneChange(n)
  /\ ReplyIsAPastHost
  /\ MirrorIsAPastHost

\* What the operations of the store return.
LEMMA ChangeType ==
  ASSUME NEW reg \in Registries, NEW k \in Keys, NEW d \in Defs \cup {Absent},
         NEW new, new = Bump([reg EXCEPT !.defs[k] = d])
  PROVE  /\ new \in Registries
         /\ new.rev = reg.rev + 1
         /\ new.defs = [reg.defs EXCEPT ![k] = d]
         /\ new.defs[k] = d
  <1>1. /\ reg.rev \in Nat /\ reg.defs \in Contents
        /\ reg = [rev |-> reg.rev, stale |-> reg.stale, defs |-> reg.defs]
    BY DEF Registries
  <1> DEFINE content == [reg.defs EXCEPT ![k] = d]
  <1>2. content \in Contents /\ content[k] = d
    BY <1>1 DEF Contents
  <1>3. [reg EXCEPT !.defs[k] = d] = [rev |-> reg.rev, stale |-> reg.stale, defs |-> content]
    BY <1>1
  <1> HIDE DEF content
  <1>4. new = [rev |-> reg.rev + 1, stale |-> FALSE, defs |-> content]
    BY <1>3 DEF Bump
  <1>5. new.rev = reg.rev + 1 /\ new.defs = content
    BY <1>4
  <1>6. \A n \in Nat, c \in Contents :
          [rev |-> n, stale |-> FALSE, defs |-> c] \in Registries
    BY DEF Registries
  <1>7. new \in Registries
    <2>1. reg.rev + 1 \in Nat
      BY <1>1
    <2> QED BY <1>2, <1>4, <1>6, <2>1
  <1> QED BY <1>2, <1>5, <1>7 DEF content

LEMMA RegisterType ==
  ASSUME NEW reg \in Registries, NEW k \in Keys, NEW d \in Defs
  PROVE  /\ Register(reg, k, d) \in Registries
         /\ Register(reg, k, d).rev = reg.rev + 1
         /\ Register(reg, k, d).defs = [reg.defs EXCEPT ![k] = d]
         /\ Register(reg, k, d).defs[k] = d
  <1>1. d \in Defs \cup {Absent}
    OBVIOUS
  <1>2. Register(reg, k, d) = Bump([reg EXCEPT !.defs[k] = d])
    BY DEF Register
  <1> QED BY <1>1, <1>2, ChangeType

LEMMA DeregisterType ==
  ASSUME NEW reg \in Registries, NEW k \in Keys
  PROVE  /\ Deregister(reg, k) \in Registries
         /\ Deregister(reg, k).rev = reg.rev + 1
         /\ Deregister(reg, k).defs = [reg.defs EXCEPT ![k] = Absent]
         /\ Deregister(reg, k).defs[k] = Absent
  BY ChangeType DEF Deregister

LEMMA MarkType ==
  ASSUME NEW reg \in Registries
  PROVE  /\ MarkStale(reg) \in Registries /\ MarkFresh(reg) \in Registries
         /\ MarkStale(reg).rev = reg.rev /\ MarkStale(reg).defs = reg.defs
         /\ MarkFresh(reg).rev = reg.rev /\ MarkFresh(reg).defs = reg.defs
  BY DEF Registries, MarkStale, MarkFresh

LEMMA EmptyType ==
  /\ EmptyRegistry \in Registries
  /\ Snapshot(EmptyRegistry) \in [rev : Nat, defs : Contents]
  BY DEF EmptyRegistry, Registries, Contents, Snapshot

\* A change of the host appends one revision to its history.
LEMMA ChangeKeepsInv ==
  ASSUME MirrorInv, NEW new \in Registries, ChangeHost(new), new.rev = host.rev + 1,
         NEW k \in Keys, new.defs = [host.defs EXCEPT ![k] = new.defs[k]],
         new.defs[k] # host.defs[k]
  PROVE  MirrorInv'
  <1>0. TypeOK /\ UNCHANGED <<mirror, bind, attempt, reply, inStep>>
    BY DEF MirrorInv, ChangeHost, bindVars
  <1>1. /\ host' = new /\ host'.rev = host.rev + 1 /\ host.rev \in Nat
        /\ host'.rev \in 0 .. MaxRevision /\ host.rev \in 0 .. MaxRevision
    BY BoundsAssumption DEF MirrorInv, TypeOK, ChangeHost, Registries
  <1>2. history' \in [0 .. MaxRevision -> Contents]
    BY <1>0 DEF TypeOK, ChangeHost, Registries
  <1>3. history'[host'.rev] = new.defs
    BY <1>0, <1>1 DEF TypeOK, ChangeHost
  <1>4. \A n \in 0 .. host.rev : history'[n] = history[n]
    BY <1>0, <1>1 DEF TypeOK, ChangeHost
  <1>5. TypeOK'
    BY <1>0, <1>1, <1>2 DEF TypeOK
  <1>6. \A n \in 1 .. host'.rev : OneChange(n)'
    <2> SUFFICES ASSUME NEW n \in 1 .. host'.rev PROVE OneChange(n)'
      OBVIOUS
    <2>1. CASE n \in 1 .. host.rev
      <3>1. n - 1 \in 0 .. host.rev /\ n \in 0 .. host.rev
        BY <1>1, <2>1
      <3>2. history'[n] = history[n] /\ history'[n - 1] = history[n - 1]
        BY <1>4, <3>1
      <3>3. OneChange(n)
        BY <2>1 DEF MirrorInv
      <3> QED BY <3>2, <3>3 DEF OneChange
    <2>2. CASE n = host'.rev
      <3>1. n - 1 = host.rev /\ host.rev \in 0 .. host.rev
        BY <1>1, <2>2
      <3>2. history'[n - 1] = host.defs /\ history'[n] = new.defs
        BY <1>3, <1>4, <2>2, <3>1 DEF MirrorInv
      <3> QED BY <3>2 DEF OneChange
    <2> QED BY <1>1, <2>1, <2>2
  <1>7. ReplyIsAPastHost'
    BY <1>0, <1>1, <1>4 DEF MirrorInv, TypeOK, ReplyIsAPastHost
  <1>8. MirrorIsAPastHost'
    BY <1>0, <1>1, <1>4 DEF MirrorInv, TypeOK, Registries, MirrorIsAPastHost
  <1> QED BY <1>1, <1>3, <1>5, <1>6, <1>7, <1>8 DEF MirrorInv

\* What an event makes of a registry is one, after at most two changes.
LEMMA UpsertType ==
  ASSUME NEW reg \in Registries, NEW k \in Keys, NEW d \in Defs
  PROVE  Upsert(reg, k, d) \in Registries /\ Upsert(reg, k, d).rev <= reg.rev + 2
  <1>1. reg.rev \in Nat
    BY DEF Registries
  <1>2. CASE Has(reg, k)
    <2> DEFINE without == Deregister(reg, k)
    <2>1. without \in Registries /\ without.rev = reg.rev + 1
      BY DeregisterType
    <2>2. Upsert(reg, k, d) = Register(without, k, d)
      BY <1>2 DEF Upsert
    <2> HIDE DEF without
    <2>3. /\ Upsert(reg, k, d) \in Registries
          /\ Upsert(reg, k, d).rev = without.rev + 1
          /\ Upsert(reg, k, d).defs = [without.defs EXCEPT ![k] = d]
      BY <2>1, <2>2, RegisterType
    <2> QED BY <1>1, <2>1, <2>3
  <1>3. CASE ~Has(reg, k)
    <2>1. Upsert(reg, k, d) = Register(reg, k, d)
      BY <1>3 DEF Upsert
    <2>2. /\ Upsert(reg, k, d) \in Registries
          /\ Upsert(reg, k, d).rev = reg.rev + 1
          /\ Upsert(reg, k, d).defs = [reg.defs EXCEPT ![k] = d]
      BY <2>1, RegisterType
    <2> QED BY <1>1, <2>2
  <1> QED BY <1>2, <1>3

LEMMA RemoveType ==
  ASSUME NEW reg \in Registries, NEW k \in Keys
  PROVE  Remove(reg, k) \in Registries /\ Remove(reg, k).rev <= reg.rev + 2
  <1>1. Deregister(reg, k) \in Registries /\ Deregister(reg, k).rev = reg.rev + 1
    BY DeregisterType
  <1>2. reg.rev \in Nat /\ (Remove(reg, k) = reg \/ Remove(reg, k) = Deregister(reg, k))
    BY DEF Registries, Remove
  <1> QED BY <1>1, <1>2

LEMMA EventType ==
  ASSUME MirrorInv, NEW n \in 1 .. host.rev, InSequence(n), ApplyEvent(n)
  PROVE  mirror' \in Registries /\ mirror'.rev <= n + 1
  <1>1. mirror \in Registries /\ n = mirror.rev + 1 /\ mirror.rev \in Nat
    BY DEF MirrorInv, TypeOK, Registries, InSequence
  <1>2. history[n] \in Contents
    BY BoundsAssumption DEF MirrorInv, TypeOK, Registries
  <1>3. PICK k \in Keys :
          mirror' = IF history[n][k] = Absent
                    THEN Remove(MarkFresh(mirror), k)
                    ELSE Upsert(MarkFresh(mirror), k, history[n][k])
    BY DEF ApplyEvent
  <1>4. MarkFresh(mirror) \in Registries /\ MarkFresh(mirror).rev = mirror.rev
    BY <1>1, MarkType
  <1>5. history[n][k] # Absent => history[n][k] \in Defs
    BY <1>2 DEF Contents
  <1>6. mirror' \in Registries /\ mirror'.rev <= MarkFresh(mirror).rev + 2
    BY <1>3, <1>4, <1>5, RemoveType, UpsertType
  <1>7. mirror'.rev \in Nat
    BY <1>6 DEF Registries
  <1> QED BY <1>1, <1>4, <1>6, <1>7

\* An event in sequence carries a mirror in step to the host's next version, and
\* counts two revisions where that version replaces a definition.
LEMMA EventApplies ==
  ASSUME MirrorInv, inStep, NEW n \in 1 .. host.rev, InSequence(n), ApplyEvent(n)
  PROVE  /\ mirror'.rev = n + (IF InPlace(n) THEN 1 ELSE 0)
         /\ mirror'.defs = history[n]
         /\ mirror'.stale = FALSE
  <1>1. /\ mirror \in Registries /\ n - 1 = mirror.rev /\ mirror.rev \in Nat
        /\ mirror.defs = history[n - 1]
    BY DEF MirrorInv, TypeOK, Registries, MirrorIsAPastHost, InSequence
  <1>2. history[n] \in Contents /\ history[n - 1] \in Contents
    BY <1>1, BoundsAssumption DEF MirrorInv, TypeOK, Registries
  <1>3. PICK k \in Keys :
          /\ Changed(n, k)
          /\ mirror' = IF history[n][k] = Absent
                       THEN Remove(MarkFresh(mirror), k)
                       ELSE Upsert(MarkFresh(mirror), k, history[n][k])
    BY DEF ApplyEvent
  <1>4. PICK j \in Keys : history[n] = [history[n - 1] EXCEPT ![j] = history[n][j]]
    BY DEF MirrorInv, OneChange
  <1>5. \A i \in Keys : Changed(n, i) => i = k
    BY <1>2, <1>3, <1>4 DEF Changed, Contents
  <1>6. history[n] = [history[n - 1] EXCEPT ![k] = history[n][k]]
    BY <1>2, <1>3, <1>4 DEF Changed, Contents
  <1>7. InPlace(n) <=> history[n][k] # Absent /\ history[n - 1][k] # Absent
    BY <1>3, <1>5 DEF InPlace
  <1> DEFINE fresh == MarkFresh(mirror)
  <1>8. fresh \in Registries /\ fresh.rev = n - 1 /\ fresh.defs = history[n - 1]
    BY <1>1, MarkType
  <1>9. Has(fresh, k) <=> history[n - 1][k] # Absent
    BY <1>8 DEF Has
  <1> HIDE DEF fresh
  <1>10. CASE history[n][k] = Absent
    <2>1. mirror' = Deregister(fresh, k) /\ ~InPlace(n)
      BY <1>3, <1>7, <1>9, <1>10 DEF Changed, Remove, fresh
    <2>2. mirror'.rev = n /\ mirror'.defs = history[n]
      BY <1>1, <1>6, <1>8, <1>10, <2>1, DeregisterType
    <2>3. mirror'.stale = FALSE
      BY <1>8, <2>1 DEF Deregister, Bump, Registries
    <2> QED BY <2>1, <2>2, <2>3
  <1>11. CASE history[n][k] # Absent /\ history[n - 1][k] = Absent
    <2>1. mirror' = Register(fresh, k, history[n][k]) /\ ~InPlace(n)
      BY <1>3, <1>7, <1>9, <1>11 DEF Upsert, fresh
    <2>2. history[n][k] \in Defs
      BY <1>2, <1>11 DEF Contents
    <2>3. mirror'.rev = n /\ mirror'.defs = history[n]
      BY <1>1, <1>6, <1>8, <2>1, <2>2, RegisterType
    <2>4. mirror'.stale = FALSE
      BY <1>8, <2>1 DEF Register, Bump, Registries
    <2> QED BY <2>1, <2>3, <2>4
  <1>12. CASE history[n][k] # Absent /\ history[n - 1][k] # Absent
    <2> DEFINE without == Deregister(fresh, k)
    <2>1. mirror' = Register(without, k, history[n][k]) /\ InPlace(n)
      BY <1>3, <1>7, <1>9, <1>12 DEF Upsert, fresh
    <2>2. history[n][k] \in Defs
      BY <1>2, <1>12 DEF Contents
    <2>3. without \in Registries /\ without.rev = n
          /\ without.defs = [history[n - 1] EXCEPT ![k] = Absent]
      BY <1>1, <1>8, DeregisterType
    <2> HIDE DEF without
    <2>4. mirror'.rev = n + 1 /\ mirror'.defs = [without.defs EXCEPT ![k] = history[n][k]]
      BY <2>1, <2>2, <2>3, RegisterType
    <2>5. mirror'.defs = history[n]
      BY <1>2, <1>6, <2>3, <2>4 DEF Contents
    <2>6. mirror'.stale = FALSE
      BY <2>1, <2>3 DEF Register, Bump, Registries
    <2> QED BY <2>1, <2>4, <2>5, <2>6
  <1> QED BY <1>10, <1>11, <1>12

LEMMA MirrorInvInductive == Spec => []MirrorInv
  <1>1. Init => MirrorInv
    <2> SUFFICES ASSUME Init PROVE MirrorInv
      OBVIOUS
    <2>1. host.rev = 0 /\ mirror.rev = 0 /\ reply.rev = 0
      BY DEF Init, EmptyRegistry, Snapshot
    <2>2. history \in [0 .. MaxRevision -> Contents] /\ history[0] = EmptyRegistry.defs
      BY BoundsAssumption, EmptyType DEF Init, Registries
    <2>3. TypeOK
      BY <2>1, <2>2, BoundsAssumption, EmptyType DEF Init, TypeOK
    <2>4. reply.defs = EmptyRegistry.defs
      BY DEF Init, Snapshot
    <2> QED
      BY <2>1, <2>2, <2>3, <2>4
      DEF Init, MirrorInv, ReplyIsAPastHost, MirrorIsAPastHost
  <1>2. MirrorInv /\ [Next]_vars => MirrorInv'
    <2> SUFFICES ASSUME MirrorInv, [Next]_vars PROVE MirrorInv'
      OBVIOUS
    <2>0. /\ TypeOK /\ host \in Registries /\ mirror \in Registries
          /\ reply \in [rev : Nat, defs : Contents]
      BY DEF MirrorInv, TypeOK
    <2>1. ASSUME NEW k \in Keys, HostDeregister(k) PROVE MirrorInv'
      <3>1. host.defs[k] # Absent
        BY <2>1 DEF HostDeregister, Has
      <3> DEFINE new == Deregister(host, k)
      <3>2. /\ new \in Registries /\ new.rev = host.rev + 1 /\ new.defs[k] = Absent
            /\ new.defs = [host.defs EXCEPT ![k] = new.defs[k]]
        BY <2>0, DeregisterType
      <3>3. ChangeHost(new)
        BY <2>1 DEF HostDeregister
      <3> HIDE DEF new
      <3> QED BY <3>1, <3>2, <3>3, ChangeKeepsInv
    <2>2. ASSUME NEW k \in Keys, NEW d \in Defs, HostRegister(k, d) \/ HostUpdate(k, d)
          PROVE  MirrorInv'
      <3>1. host.defs[k] # d
        BY <2>2, AbsentAssumption DEF HostRegister, HostUpdate, Has
      <3> DEFINE new == Register(host, k, d)
      <3>2. /\ new \in Registries /\ new.rev = host.rev + 1 /\ new.defs[k] = d
            /\ new.defs = [host.defs EXCEPT ![k] = new.defs[k]]
        <4>1. /\ new \in Registries /\ new.rev = host.rev + 1 /\ new.defs[k] = d
              /\ new.defs = [host.defs EXCEPT ![k] = d]
          BY <2>0, RegisterType
        <4> HIDE DEF new
        <4> QED BY <4>1
      <3>3. ChangeHost(new)
        BY <2>2 DEF HostRegister, HostUpdate
      <3> HIDE DEF new
      <3> QED BY <3>1, <3>2, <3>3, ChangeKeepsInv
    <2>3. ASSUME UNCHANGED <<hostVars, reply>>, TypeOK', MirrorIsAPastHost'
          PROVE  MirrorInv'
      BY <2>3 DEF MirrorInv, OneChange, ReplyIsAPastHost, hostVars
    <2>4. ASSUME UNCHANGED <<hostVars, reply>>, inStep' = inStep,
                 bind' \in {"idle", "asking", "answered"},
                 attempt' \in 0 .. ReconnectAttempts,
                 mirror' \in {mirror, MarkStale(mirror)}
          PROVE  MirrorInv'
      <3>1. mirror' \in Registries /\ mirror'.rev = mirror.rev /\ mirror'.defs = mirror.defs
        BY <2>0, <2>4, MarkType
      <3>2. TypeOK'
        BY <2>0, <2>4, <3>1 DEF TypeOK, hostVars
      <3>3. MirrorIsAPastHost'
        BY <2>4, <3>1 DEF MirrorInv, MirrorIsAPastHost, hostVars
      <3> QED BY <2>3, <2>4, <3>2, <3>3
    <2>5. ASSUME NEW n \in 1 .. MaxRevision, ReceiveEvent(n) PROVE MirrorInv'
      <3>0. /\ UNCHANGED <<hostVars, host, history, bind, attempt, reply>>
            /\ n \in 1 .. host.rev /\ n <= host.rev /\ n \in Nat /\ host.rev \in Nat
            /\ inStep' = (inStep /\ ~(InSequence(n) /\ InPlace(n)))
        BY <2>0, <2>5 DEF ReceiveEvent, hostVars, bindVars, Registries
      <3>1. CASE InSequence(n)
        <4>1. ApplyEvent(n)
          BY <2>5, <3>1 DEF ReceiveEvent
        <4>2. mirror' \in Registries /\ mirror'.rev <= n + 1
          BY <3>0, <3>1, <4>1, EventType
        <4>3. TypeOK'
          <5>1. inStep' \in BOOLEAN
            BY <3>0
          <5> QED BY <2>0, <3>0, <4>2, <5>1 DEF TypeOK
        <4>4. MirrorIsAPastHost'
          <5>1. mirror'.rev <= host'.rev + 1
            BY <3>0, <4>2 DEF Registries
          <5>2. ASSUME inStep' PROVE mirror'.rev = n /\ mirror'.defs = history[n]
            <6>1. inStep /\ ~InPlace(n)
              BY <3>0, <3>1, <5>2
            <6>2. mirror'.rev = n + (IF InPlace(n) THEN 1 ELSE 0) /\ mirror'.defs = history[n]
              BY <3>0, <3>1, <4>1, <6>1, EventApplies
            <6> QED BY <3>0, <6>1, <6>2
          <5> QED BY <3>0, <5>1, <5>2 DEF MirrorIsAPastHost
        <4> QED BY <2>3, <3>0, <4>3, <4>4
      <3>2. CASE ~InSequence(n)
        <4>1. inStep' = inStep
          BY <2>0, <3>0, <3>2 DEF TypeOK
        <4> QED BY <2>0, <2>4, <2>5, <3>0, <3>2, <4>1 DEF ReceiveEvent, TypeOK
      <3> QED BY <3>1, <3>2
    <2>6. CASE StartBind
      BY <2>4, <2>6, BoundsAssumption DEF StartBind
    <2>7. CASE HostAnswersBind
      <3>1. reply' \in [rev : Nat, defs : Contents] /\ reply'.rev = host.rev
            /\ reply'.defs = host.defs
        BY <2>0, <2>7 DEF HostAnswersBind, Snapshot, Registries
      <3> QED
        BY <2>0, <2>7, <3>1
        DEF HostAnswersBind, MirrorInv, TypeOK, OneChange, ReplyIsAPastHost,
            MirrorIsAPastHost, Registries, hostVars
    <2>8. CASE BindAttemptFails \/ BindRefused
      <3>1. bind' \in {"asking", "idle"} /\ UNCHANGED <<hostVars, reply>>
        BY <2>8 DEF BindAttemptFails, BindRefused, RetryOrRaise
      <3>2. attempt' \in 0 .. ReconnectAttempts
        BY <2>0, <2>8, BoundsAssumption
        DEF BindAttemptFails, BindRefused, RetryOrRaise, TypeOK
      <3>3. inStep' = inStep
        BY <2>8 DEF BindAttemptFails, BindRefused
      <3> QED BY <2>4, <2>8, <3>1, <3>2, <3>3 DEF BindAttemptFails, BindRefused
    <2>9. CASE ApplySnapshot
      <3>1. mirror' \in Registries /\ mirror'.rev = reply.rev /\ mirror'.defs = reply.defs
        BY <2>0, <2>9 DEF ApplySnapshot, ReplaceFromSnapshot, Registries
      <3>2. TypeOK'
        <4>1. inStep' = TRUE /\ bind' \in {"idle", "asking", "answered"}
              /\ UNCHANGED <<host, history, reply>>
          BY <2>9 DEF ApplySnapshot, hostVars
        <4>2. attempt' \in 0 .. ReconnectAttempts
          BY <2>9, BoundsAssumption DEF ApplySnapshot
        <4> QED BY <2>0, <3>1, <4>1, <4>2 DEF TypeOK
      <3>3. MirrorIsAPastHost'
        <4>1. reply.rev <= host.rev /\ reply.defs = history[reply.rev] /\ reply.rev \in Nat
              /\ host.rev \in Nat
          BY <2>0 DEF MirrorInv, ReplyIsAPastHost, Registries
        <4>2. UNCHANGED <<host, history>>
          BY <2>9 DEF ApplySnapshot, hostVars
        <4> QED BY <3>1, <4>1, <4>2 DEF MirrorIsAPastHost
      <3> QED BY <2>3, <2>9, <3>2, <3>3 DEF ApplySnapshot
    <2>10. CASE OnRlpDisconnect \/ UNCHANGED vars
      BY <2>0, <2>4, <2>10 DEF OnRlpDisconnect, vars, hostVars, bindVars, TypeOK
    <2>11. ASSUME NEW n \in 0 .. MaxRevision, ReceiveSnapshot(n) PROVE MirrorInv'
      <3>0. /\ UNCHANGED <<hostVars, host, history, bind, attempt, reply>>
            /\ n \in 0 .. host.rev /\ inStep' = TRUE
        BY <2>11 DEF ReceiveSnapshot, hostVars, bindVars
      <3>4. n \in Nat /\ history[n] \in Contents
        BY <2>0, <2>11 DEF TypeOK
      <3>1. mirror' \in Registries /\ mirror'.rev = n /\ mirror'.defs = history[n]
        BY <2>11, <3>4 DEF ReceiveSnapshot, ReplaceFromSnapshot, Registries
      <3>2. TypeOK'
        BY <2>0, <3>0, <3>1 DEF TypeOK
      <3>3. MirrorIsAPastHost'
        BY <2>0, <3>0, <3>1 DEF MirrorIsAPastHost, Registries
      <3> QED BY <2>3, <3>0, <3>2, <3>3
    <2> QED
      BY <2>1, <2>2, <2>5, <2>6, <2>7, <2>8, <2>9, <2>10, <2>11 DEF Next
  <1> QED BY <1>1, <1>2, PTL DEF Spec

\* The state always has its type (TypeOK).
THEOREM TypeCorrect == Spec => []TypeOK
  <1>1. MirrorInv => TypeOK
    BY DEF MirrorInv
  <1> QED BY <1>1, MirrorInvInductive, PTL

\* Whatever is lost, repeated, delayed or reordered, a mirror that has applied no
\* in-place update since its last snapshot holds what the host held at the
\* revision the mirror claims; no mirror is ahead by more than one
\* (MirrorIsAPastHost).
THEOREM MirrorIsExact == Spec => []MirrorIsAPastHost
  <1>1. MirrorInv => MirrorIsAPastHost
    BY DEF MirrorInv
  <1> QED BY <1>1, MirrorInvInductive, PTL

\* An event carries a mirror in step to the host's next version, counted twice if
\* it replaces a definition, or sets the mark only (EventsCarryOneVersion).
THEOREM EventsCarryVersions == Spec => EventsCarryOneVersion
  <1> DEFINE Carried(n) ==
        \/ mirror' = MarkStale(mirror)
        \/ /\ n = mirror.rev + 1
           /\ mirror'.rev = n + (IF InPlace(n) THEN 1 ELSE 0)
           /\ mirror'.defs = history[n]
           /\ ~mirror'.stale
  <1>1. MirrorInv => \A n \in 1 .. MaxRevision : ReceiveEvent(n) /\ inStep => Carried(n)
    <2> SUFFICES ASSUME MirrorInv, NEW n \in 1 .. MaxRevision, ReceiveEvent(n), inStep
                 PROVE  Carried(n)
      OBVIOUS
    <2>1. CASE InSequence(n)
      <3>1. n \in 1 .. host.rev /\ ApplyEvent(n) /\ n = mirror.rev + 1
        BY <2>1 DEF ReceiveEvent, InSequence
      <3> QED BY <2>1, <3>1, EventApplies
    <2>2. CASE ~InSequence(n)
      BY <2>2 DEF ReceiveEvent
    <2> QED BY <2>1, <2>2
  <1> QED BY <1>1, MirrorInvInductive, PTL DEF EventsCarryOneVersion

-----------------------------------------------------------------------------
(* The refinement.                                                         *)

Log == [n \in 1 .. host.rev + 1 |-> history[n - 1]]

\* A change of the host appends what it then holds, and nothing else does.
LEMMA ChangeAppends ==
  ASSUME MirrorInv, NEW new \in Registries, ChangeHost(new), new.rev = host.rev + 1
  PROVE  Log' = Append(Log, new.defs)
  <1>1. /\ host' = new /\ host.rev \in Nat /\ host'.rev = host.rev + 1
        /\ host'.rev \in 0 .. MaxRevision
        /\ history \in [0 .. MaxRevision -> Contents]
        /\ history' = [history EXCEPT ![new.rev] = new.defs]
    BY BoundsAssumption DEF MirrorInv, TypeOK, ChangeHost, Registries
  <1>2. new.defs \in Contents
    BY DEF Registries
  <1>3. Log \in Seq(Contents) /\ Len(Log) = host.rev + 1
    <2>1. \A n \in 1 .. host.rev + 1 : history[n - 1] \in Contents
      <3> SUFFICES ASSUME NEW n \in 1 .. host.rev + 1 PROVE history[n - 1] \in Contents
        OBVIOUS
      <3>1. n - 1 \in 0 .. MaxRevision
        BY <1>1, BoundsAssumption
      <3> QED BY <1>1, <3>1
    <2>2. host.rev + 1 \in Nat
      BY <1>1
    <2> QED BY <2>1, <2>2 DEF Log
  <1>4. Log' = [n \in 1 .. host.rev + 2 |-> IF n = host.rev + 2 THEN new.defs ELSE history[n - 1]]
    BY <1>1 DEF Log
  <1>5. Append(Log, new.defs) =
          [n \in 1 .. host.rev + 2 |-> IF n = host.rev + 2 THEN new.defs ELSE Log[n]]
    BY <1>1, <1>2, <1>3
  <1>6. \A n \in 1 .. host.rev + 1 : Log[n] = history[n - 1]
    BY DEF Log
  <1>7. \A n \in 1 .. host.rev + 2 : n # host.rev + 2 => n \in 1 .. host.rev + 1
    BY <1>1
  <1> QED BY <1>4, <1>5, <1>6, <1>7

LEMMA HostStep ==
  ASSUME MirrorInv,
         \/ \E k \in Keys : HostDeregister(k)
         \/ \E k \in Keys, d \in Defs : HostRegister(k, d) \/ HostUpdate(k, d)
  PROVE  \E new \in Registries : ChangeHost(new) /\ new.rev = host.rev + 1
  <1>0. host \in Registries
    BY DEF MirrorInv, TypeOK
  <1>1. ASSUME NEW k \in Keys, HostDeregister(k)
        PROVE  \E new \in Registries : ChangeHost(new) /\ new.rev = host.rev + 1
    BY <1>0, <1>1, DeregisterType DEF HostDeregister
  <1>2. ASSUME NEW k \in Keys, NEW d \in Defs, HostRegister(k, d) \/ HostUpdate(k, d)
        PROVE  \E new \in Registries : ChangeHost(new) /\ new.rev = host.rev + 1
    <2> DEFINE new == Register(host, k, d)
    <2>1. /\ new \in Registries /\ new.rev = host.rev + 1 /\ new.defs[k] = d
          /\ new.defs = [host.defs EXCEPT ![k] = d]
      BY <1>0, RegisterType
    <2>2. ChangeHost(new)
      BY <1>2 DEF HostRegister, HostUpdate
    <2> HIDE DEF new
    <2> QED BY <2>1, <2>2
  <1> QED BY <1>1, <1>2

\* The mirror implements a reader of versions that are appended and never
\* rewritten, which loses its place only where a version replaces a definition of
\* the one it holds (ImplementsVersionedRegister).
THEOREM MirrorIsAReader == Spec => ImplementsVersionedRegister
  <1>1. Init => Versions!Init
    <2> SUFFICES ASSUME Init PROVE Versions!Init
      OBVIOUS
    <2>1. /\ host.rev = 0 /\ mirror.rev = 0 /\ mirror.defs = EmptyRegistry.defs
          /\ history[0] = EmptyRegistry.defs
      BY BoundsAssumption DEF Init, EmptyRegistry
    <2>2. [n \in 1 .. host.rev + 1 |-> history[n - 1]] = <<EmptyRegistry.defs>>
      BY <2>1
    <2>3. mirror.stale = FALSE /\ inStep
      BY DEF Init, EmptyRegistry
    <2> QED BY <2>1, <2>2, <2>3 DEF Versions!Init
  <1>2. MirrorInv /\ MirrorInv' /\ [Next]_vars => [Versions!Next]_(Versions!vars)
    <2> SUFFICES ASSUME MirrorInv, MirrorInv', [Next]_vars
                 PROVE  [Versions!Next]_(Versions!vars)
      OBVIOUS
    <2>0. /\ host.rev \in Nat /\ Len(Log) = host.rev + 1
          /\ \A n \in 1 .. host.rev + 1 : Log[n] = history[n - 1]
          /\ host \in Registries /\ mirror \in Registries /\ mirror.rev \in Nat
          /\ inStep \in BOOLEAN
      BY DEF MirrorInv, TypeOK, Registries, Log
    <2> DEFINE Claimed == IF inStep THEN mirror.rev + 1 ELSE 0
               Held == IF inStep THEN mirror.defs ELSE EmptyRegistry.defs
    <2>1. ASSUME NEW n \in 0 .. host.rev, UNCHANGED <<host, history>>, inStep',
                 mirror'.rev = n, mirror'.defs = history[n], mirror'.stale = FALSE
          PROVE  Versions!Read
      <3>1. n + 1 \in 1 .. Len(Log) /\ history[n] = Log[n + 1] /\ Log' = Log
        BY <2>0, <2>1 DEF Log
      <3> QED BY <2>1, <3>1 DEF Versions!Read, Log
    <2>3. ASSUME UNCHANGED <<host, history, inStep>>, mirror' \in {mirror, MarkStale(mirror)}
          PROVE  [Versions!Next]_(Versions!vars)
      <3>1. Log' = Log /\ Claimed' = Claimed /\ Held' = Held
        BY <2>0, <2>3, MarkType DEF Log
      <3>2. mirror' = mirror \/ mirror'.stale = TRUE
        BY <2>0, <2>3 DEF MarkStale, Registries
      <3> QED BY <3>1, <3>2 DEF Versions!Next, Versions!Mark, Versions!vars, Log
    <2>4. ASSUME NEW n \in 1 .. MaxRevision, ReceiveEvent(n)
          PROVE  [Versions!Next]_(Versions!vars)
      <3>0. /\ UNCHANGED <<host, history>> /\ n \in 1 .. host.rev /\ n \in 0 .. host.rev
            /\ inStep' = (inStep /\ ~(InSequence(n) /\ InPlace(n)))
            /\ Log' = Log
        BY <2>0, <2>4 DEF ReceiveEvent, hostVars, Log
      <3>1. CASE ~InSequence(n)
        BY <2>0, <2>3, <2>4, <3>0, <3>1 DEF ReceiveEvent
      <3>2. CASE InSequence(n) /\ inStep
        <4>1. /\ mirror'.rev = n + (IF InPlace(n) THEN 1 ELSE 0)
              /\ mirror'.defs = history[n] /\ mirror'.stale = FALSE
          BY <2>4, <3>0, <3>2, EventApplies DEF ReceiveEvent
        <4>2. CASE ~InPlace(n)
          <5>1. inStep'
            BY <3>0, <3>2, <4>2
          <5>2. n + (IF InPlace(n) THEN 1 ELSE 0) = n
            BY <3>0, <4>2
          <5>3. Versions!Read
            BY <2>1, <3>0, <4>1, <5>1, <5>2
          <5> QED BY <5>3 DEF Versions!Next
        <4>3. CASE InPlace(n)
          <5>1. n = mirror.rev + 1 /\ ~inStep'
            BY <3>0, <3>2, <4>3 DEF InSequence
          <5>2. Claimed = n /\ Claimed' = 0 /\ Held' = EmptyRegistry.defs
            BY <3>2, <5>1
          <5>3. n # 0 /\ n < Len(Log) /\ Log[n] = history[n - 1] /\ Log[n + 1] = history[n]
            BY <2>0, <3>0
          <5>4. DOMAIN history[n - 1] = Keys
            BY <2>0, <3>0, BoundsAssumption DEF MirrorInv, TypeOK, Contents, Registries
          <5>5. Versions!Replaces(history[n], history[n - 1])
            BY <4>3, <5>4 DEF InPlace, Changed, Versions!Replaces
          <5>6. Versions!Lose
            BY <3>0, <4>1, <5>2, <5>3, <5>5 DEF Versions!Lose, Versions!Lost, Log
          <5> QED BY <5>6 DEF Versions!Next
        <4> QED BY <4>2, <4>3
      <3>3. CASE InSequence(n) /\ ~inStep
        <4>1. Claimed = 0 /\ Claimed' = 0 /\ Held' = Held /\ mirror'.stale \in BOOLEAN
          BY <3>0, <3>3 DEF MirrorInv, TypeOK, Registries
        <4>2. Versions!Wander
          BY <3>0, <4>1 DEF Versions!Wander, Versions!Lost, Log
        <4> QED BY <4>2 DEF Versions!Next
      <3> QED BY <2>0, <3>1, <3>2, <3>3
    <2>5. ASSUME NEW n \in 0 .. MaxRevision, ReceiveSnapshot(n)
          PROVE  Versions!Read
      BY <2>1, <2>5 DEF ReceiveSnapshot, ReplaceFromSnapshot, hostVars
    <2>6. CASE ApplySnapshot
      <3>1. /\ mirror'.rev = reply.rev /\ mirror'.defs = reply.defs /\ mirror'.stale = FALSE
            /\ UNCHANGED <<host, history>> /\ inStep'
        BY <2>6 DEF ApplySnapshot, ReplaceFromSnapshot, hostVars
      <3>2. reply.rev \in 0 .. host.rev /\ reply.defs = history[reply.rev]
        BY <2>0 DEF MirrorInv, TypeOK, ReplyIsAPastHost
      <3>3. Versions!Read
        BY <2>1, <3>1, <3>2
      <3> QED BY <3>3 DEF Versions!Next
    <2>7. CASE \/ StartBind \/ HostAnswersBind \/ BindAttemptFails \/ BindRefused
               \/ OnRlpDisconnect \/ UNCHANGED vars
      <3>1. UNCHANGED <<host, history, inStep>> /\ mirror' \in {mirror, MarkStale(mirror)}
        BY <2>7
        DEF StartBind, HostAnswersBind, BindAttemptFails, BindRefused, RetryOrRaise,
            OnRlpDisconnect, vars, hostVars
      <3> QED BY <2>3, <3>1
    <2>2. ASSUME NEW new \in Registries, ChangeHost(new), new.rev = host.rev + 1
          PROVE  Versions!Write
      <3>1. Log' = Append(Log, new.defs)
        BY <2>2, ChangeAppends
      <3>2. new.defs \in Contents /\ mirror' = mirror /\ inStep' = inStep
        BY <2>2 DEF Registries, ChangeHost
      <3> QED BY <3>1, <3>2 DEF Versions!Write, Log
    <2>8. CASE \/ \E k \in Keys : HostDeregister(k)
               \/ \E k \in Keys, d \in Defs : HostRegister(k, d) \/ HostUpdate(k, d)
      BY <2>2, <2>8, HostStep DEF Versions!Next
    <2> QED BY <2>4, <2>5, <2>6, <2>7, <2>8 DEF Next, Versions!Next
  <1> QED BY <1>1, <1>2, MirrorInvInductive, PTL DEF Spec, ImplementsVersionedRegister, Versions!Spec
=============================================================================
