------------------------ MODULE ExecutorSessionProofs ------------------------
(* For any names, executors and batches: the types, that the revision      *)
(* counts the definitions that change, that ok means the whole batch, and  *)
(* that a registration holds until it is taken back.                       *)
EXTENDS ExecutorSession, FiniteSetTheorems, TLAPS

ChangedKeys == {k \in Keys : registry'.defs[k] # registry.defs[k]}

Prefix(batch, n) == {batch[i] : i \in 1 .. n}

LEMMA BatchType ==
  ASSUME NEW batch \in Batches
  PROVE  /\ batch \in Seq(Keys)
         /\ Len(batch) \in Nat
         /\ \A n \in 0 .. Len(batch) : \A i \in 1 .. n : batch[i] \in Keys
  BY BatchesAssumption

\* A prefix without repetitions names as many keys as it has entries.
LEMMA DistinctPrefixCounts ==
  ASSUME NEW batch \in Batches, NEW n \in 0 .. Len(batch), Distinct(batch, n)
  PROVE  Cardinality(Prefix(batch, n)) = n
  <1> DEFINE f == [i \in 1 .. n |-> batch[i]]
  <1>1. f \in [1 .. n -> Prefix(batch, n)]
    BY DEF Prefix
  <1>2. \A i, j \in 1 .. n : f[i] = f[j] => i = j
    BY DEF Distinct
  <1>3. \A k \in Prefix(batch, n) : \E i \in 1 .. n : f[i] = k
    BY DEF Prefix
  <1>4. f \in Bijection(1 .. n, Prefix(batch, n))
    BY <1>1, <1>2, <1>3 DEF Bijection, Injection, Surjection, IsInjective
  <1>5. n \in Nat
    BY BatchType
  <1>6. IsFiniteSet(1 .. n) /\ Cardinality(1 .. n) = n
    BY <1>5, FS_Interval
  <1> QED BY <1>4, <1>6, FS_Bijection DEF ExistsBijection

-----------------------------------------------------------------------------
(* What the closed form of a batch does to the registry.                   *)

LEMMA AfterType ==
  ASSUME registry \in Registries, NEW batch \in Batches, NEW n \in 0 .. Len(batch),
         NEW d \in Defs \cup {Absent}
  PROVE  After(batch, n, d) \in Registries
  BY BatchType DEF After, Registries, Contents

LEMMA AfterChanges ==
  ASSUME registry \in Registries, NEW batch \in Batches, NEW n \in 0 .. Len(batch),
         NEW d, registry' = After(batch, n, d),
         \A i \in 1 .. n : registry.defs[batch[i]] # d
  PROVE  /\ ChangedKeys = Prefix(batch, n)
         /\ registry'.rev - registry.rev = n
  <1>1. \A k \in Keys : registry'.defs[k] =
          IF \E i \in 1 .. n : batch[i] = k THEN d ELSE registry.defs[k]
    BY DEF After
  <1>2. ChangedKeys = Prefix(batch, n)
    BY <1>1, BatchType DEF ChangedKeys, Prefix
  <1>3. registry'.rev = registry.rev + n /\ registry.rev \in Nat /\ n \in Nat
    BY BatchType DEF After, Registries
  <1> QED BY <1>2, <1>3

\* The registry moves by one of the two loops, or not at all.
LEMMA RegistryMoves ==
  ASSUME [Next]_vars
  PROVE  \/ \E batch \in Batches : \E n \in 0 .. Len(batch) : \E s \in Defs :
              CanRegister(batch, n) /\ registry' = After(batch, n, s)
         \/ \E batch \in Batches : \E n \in 0 .. Len(batch) :
              CanDeregister(batch, n) /\ registry' = After(batch, n, Absent)
         \/ registry' = registry
  <1>1. ASSUME NEW s \in Defs, NEW batch \in Batches, RegisterTools(s, batch)
        PROVE  \E n \in 0 .. Len(batch) :
                 CanRegister(batch, n) /\ registry' = After(batch, n, s)
    BY <1>1 DEF RegisterTools, Registers
  <1>2. ASSUME NEW s \in Defs, NEW batch \in Batches,
               DeregisterTools(s, batch) \/ DeregisterRaises(s, batch)
        PROVE  \E n \in 0 .. Len(batch) :
                 CanDeregister(batch, n) /\ registry' = After(batch, n, Absent)
    <2>1. Len(batch) \in 0 .. Len(batch)
      BY BatchType
    <2> QED BY <1>2, <2>1 DEF DeregisterTools, DeregisterRaises, Deregisters
  <1>3. ASSUME NEW s \in Defs, ConnectExecutor(s) \/ HandleOther(s) \/ LeaveExecutor(s)
        PROVE  registry' = registry
    BY <1>3 DEF ConnectExecutor, HandleOther, LeaveExecutor
  <1> QED BY <1>1, <1>2, <1>3 DEF Next, vars

-----------------------------------------------------------------------------
(* Types.                                                                  *)

\* The registry's revision, the links and the answers keep their types.
THEOREM TypeCorrect == Spec => []TypeOK
  <1>1. Init => TypeOK
    BY BatchesAssumption DEF Init, TypeOK, Registries, Contents, EmptyRegistry
  <1>2. TypeOK /\ [Next]_vars => TypeOK'
    <2> SUFFICES ASSUME TypeOK, [Next]_vars PROVE TypeOK'
      OBVIOUS
    <2>1. ASSUME NEW s \in Defs, ConnectExecutor(s) PROVE TypeOK'
      BY <2>1 DEF TypeOK, ConnectExecutor
    <2>2. ASSUME NEW s \in Defs, NEW batch \in Batches, RegisterTools(s, batch)
          PROVE  TypeOK'
      <3>1. PICK n \in 0 .. Len(batch) :
              /\ registry' = After(batch, n, s)
              /\ answer' = [answer EXCEPT ![s] = Verdict(batch, n)]
        BY <2>2 DEF RegisterTools
      <3>2. registry' \in Registries /\ registry'.rev <= MaxRevision
        <4>1. registry' \in Registries
          BY <3>1, AfterType DEF TypeOK
        <4>2. registry'.rev = registry.rev + n /\ registry.rev \in Nat
          BY <3>1 DEF After, TypeOK, Registries
        <4> QED BY <2>2, <4>1, <4>2, BatchType, BatchesAssumption
              DEF RegisterTools, WithinBound
      <3>3. answer' \in [Defs -> {"none", "ok", "error"}]
        BY <3>1 DEF TypeOK, Verdict
      <3> QED BY <2>2, <3>2, <3>3 DEF TypeOK, RegisterTools
    <2>3. ASSUME NEW s \in Defs, NEW batch \in Batches,
                 DeregisterTools(s, batch) \/ DeregisterRaises(s, batch)
          PROVE  TypeOK'
      <3>1. Len(batch) \in 0 .. Len(batch)
        BY BatchType
      <3>2. PICK n \in 0 .. Len(batch) : registry' = After(batch, n, Absent)
        BY <2>3, <3>1 DEF DeregisterTools, DeregisterRaises
      <3>3. registry' \in Registries /\ registry'.rev <= MaxRevision
        <4>1. registry' \in Registries
          BY <3>2, AfterType DEF TypeOK
        <4>2. registry'.rev = registry.rev + n /\ registry.rev \in Nat
          BY <3>2 DEF After, TypeOK, Registries
        <4> QED BY <2>3, <4>1, <4>2, BatchType, BatchesAssumption
              DEF DeregisterTools, DeregisterRaises, WithinBound
      <3> QED BY <2>3, <3>3 DEF TypeOK, DeregisterTools, DeregisterRaises, EndLoop
    <2>4. ASSUME NEW s \in Defs, HandleOther(s) PROVE TypeOK'
      BY <2>4 DEF TypeOK, HandleOther
    <2>5. ASSUME NEW s \in Defs, LeaveExecutor(s) PROVE TypeOK'
      BY <2>5 DEF TypeOK, LeaveExecutor, EndLoop
    <2>6. CASE UNCHANGED vars
      BY <2>6 DEF TypeOK, vars
    <2> QED BY <2>1, <2>2, <2>3, <2>4, <2>5, <2>6 DEF Next
  <1> QED BY <1>1, <1>2, PTL DEF Spec

-----------------------------------------------------------------------------
(* What a step may never do.                                               *)

\* The revision counts the definitions that change, for batches of any length.
THEOREM RevisionsAreExact == Spec => EachRevisionIsOneChange
  <1>1. TypeOK /\ [Next]_vars =>
          registry'.rev - registry.rev = Cardinality(ChangedKeys)
    <2> SUFFICES ASSUME TypeOK, [Next]_vars
                 PROVE  registry'.rev - registry.rev = Cardinality(ChangedKeys)
      OBVIOUS
    <2>1. registry \in Registries
      BY DEF TypeOK
    <2>2. ASSUME NEW batch \in Batches, NEW n \in 0 .. Len(batch), NEW s \in Defs,
                 CanRegister(batch, n), registry' = After(batch, n, s)
          PROVE  registry'.rev - registry.rev = Cardinality(ChangedKeys)
      <3>1. \A i \in 1 .. n : registry.defs[batch[i]] # s
        BY <2>2, AbsentAssumption DEF CanRegister, Has
      <3> QED BY <2>1, <2>2, <3>1, AfterChanges, DistinctPrefixCounts DEF CanRegister
    <2>3. ASSUME NEW batch \in Batches, NEW n \in 0 .. Len(batch),
                 CanDeregister(batch, n), registry' = After(batch, n, Absent)
          PROVE  registry'.rev - registry.rev = Cardinality(ChangedKeys)
      BY <2>1, <2>3, AfterChanges, DistinctPrefixCounts DEF CanDeregister, Has
    <2>4. CASE registry' = registry
      <3>1. ChangedKeys = {}
        BY <2>4 DEF ChangedKeys
      <3> QED BY <2>1, <2>4, <3>1, FS_EmptySet DEF Registries
    <2> QED BY <2>2, <2>3, <2>4, RegistryMoves
  <1> QED BY <1>1, TypeCorrect, PTL DEF Spec, EachRevisionIsOneChange, ChangedKeys

\* A batch answered with ok belongs to its sender to the last name.
THEOREM OkMeansWhole == Spec => OkIsWhole
  <1> DEFINE Whole == \A s \in Defs, batch \in Batches :
                        RegisterTools(s, batch) /\ answer'[s] = "ok"
                          => \A i \in 1 .. Len(batch) : registry'.defs[batch[i]] = s
  <1>1. TypeOK /\ [Next]_vars => Whole
    <2> SUFFICES ASSUME TypeOK, NEW s \in Defs, NEW batch \in Batches,
                        RegisterTools(s, batch), answer'[s] = "ok",
                        NEW i \in 1 .. Len(batch)
                 PROVE  registry'.defs[batch[i]] = s
      OBVIOUS
    <2>1. PICK n \in 0 .. Len(batch) :
            /\ registry' = After(batch, n, s)
            /\ answer' = [answer EXCEPT ![s] = Verdict(batch, n)]
      BY DEF RegisterTools
    <2>2. Verdict(batch, n) = "ok"
      BY <2>1 DEF TypeOK
    <2>3. n = Len(batch)
      BY <2>2 DEF Verdict
    <2> QED BY <2>1, <2>3, BatchType DEF After
  <1> QED BY <1>1, TypeCorrect, PTL DEF Spec, OkIsWhole

\* What is registered stays as it is or goes; it never changes hands.
THEOREM FirstComeFirstKept == Spec => FirstRegistrationHolds
  <1> DEFINE Kept == \A k \in Keys : Has(registry, k) =>
                       registry'.defs[k] \in {registry.defs[k], Absent}
  <1>1. [Next]_vars => Kept
    <2> SUFFICES ASSUME [Next]_vars, NEW k \in Keys, Has(registry, k)
                 PROVE  registry'.defs[k] \in {registry.defs[k], Absent}
      OBVIOUS
    <2>1. ASSUME NEW batch \in Batches, NEW n \in 0 .. Len(batch), NEW s \in Defs,
                 CanRegister(batch, n), registry' = After(batch, n, s)
          PROVE  registry'.defs[k] = registry.defs[k]
      BY <2>1 DEF CanRegister, After
    <2>2. ASSUME NEW batch \in Batches, NEW n \in 0 .. Len(batch),
                 registry' = After(batch, n, Absent)
          PROVE  registry'.defs[k] \in {registry.defs[k], Absent}
      BY <2>2 DEF After
    <2> QED BY <2>1, <2>2, RegistryMoves
  <1> QED BY <1>1, PTL DEF Spec, FirstRegistrationHolds
=============================================================================
