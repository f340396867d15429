------------------------- MODULE RelayLifecycleProofs -------------------------
(* For any finite set of requests, any limits and any executors: the types, *)
(* that the counts and the drained event are exact, and what stop() may     *)
(* rely on once it has drained.                                             *)
EXTENDS RelayLifecycle, FiniteSetTheorems, TLAPS

\* The requests that stop() owes a drain were admitted before it was called.
OwedWereAdmitted == \A r \in owed : req[r] # "idle"

LifeInv ==
  /\ TypeOK
  /\ CountsAreExact
  /\ DrainedMeansIdle
  /\ SlowConsumerNeedsLowerLimit
  /\ OwedWereAdmitted
  /\ StopHonoursDrain

LEMMA PredType == ASSUME NEW n \in Nat PROVE Pred(n) \in Nat /\ Pred(n) <= n
  BY DEF Pred

\* How the set of running requests follows the state of one of them.
LEMMA RunningGrows ==
  ASSUME TypeOK, NEW r \in Reqs, req[r] = "idle", req' = [req EXCEPT ![r] = "running"]
  PROVE  /\ Running' = Running \cup {r}
         /\ IsFiniteSet(Running)
         /\ Cardinality(Running') = Cardinality(Running) + 1
  <1>1. Running' = Running \cup {r} /\ r \notin Running
    BY DEF TypeOK, Running
  <1>2. IsFiniteSet(Running)
    BY ConstantsAssumption, FS_Subset DEF Running
  <1> QED BY <1>1, <1>2, FS_AddElement

LEMMA RunningShrinks ==
  ASSUME TypeOK, NEW r \in Reqs, req[r] = "running", req' = [req EXCEPT ![r] = "finished"]
  PROVE  /\ Running' = Running \ {r}
         /\ r \in Running
         /\ Cardinality(Running) \in Nat \ {0}
         /\ Cardinality(Running') = Cardinality(Running) - 1
         /\ (Running' = {} <=> Cardinality(Running') = 0)
  <1>1. Running' = Running \ {r} /\ r \in Running
    BY DEF TypeOK, Running
  <1>2. IsFiniteSet(Running)
    BY ConstantsAssumption, FS_Subset DEF Running
  <1>3. IsFiniteSet(Running') /\ Cardinality(Running') = Cardinality(Running) - 1
    BY <1>1, <1>2, FS_RemoveElement
  <1>4. Cardinality(Running) \in Nat /\ Cardinality(Running') \in Nat
    BY <1>2, <1>3, FS_CardinalityType
  <1>5. Running' = {} <=> Cardinality(Running') = 0
    BY <1>3, FS_EmptySet
  <1> QED BY <1>1, <1>3, <1>4, <1>5

LEMMA RunningSame ==
  ASSUME TypeOK, NEW r \in Reqs, req[r] = "idle", req' = [req EXCEPT ![r] = "rejected"]
  PROVE  Running' = Running
  BY DEF TypeOK, Running

LEMMA NoneRunning ==
  ASSUME LifeInv PROVE active = 0 <=> Running = {}
  <1>1. IsFiniteSet(Running)
    BY ConstantsAssumption, FS_Subset DEF Running
  <1> QED BY <1>1, FS_EmptySet DEF LifeInv, CountsAreExact

LEMMA LifeInvInductive == Spec => []LifeInv
  <1>1. Init => LifeInv
    <2> SUFFICES ASSUME Init PROVE LifeInv
      OBVIOUS
    <2>1. Running = {}
      BY DEF Init, Running
    <2>2. Cardinality(Running) = 0
      BY <2>1, FS_EmptySet
    <2>3. TypeOK
      <3>1. /\ req \in [Reqs -> {"idle", "running", "finished", "rejected"}]
            /\ executor \in [Executors -> {"away", "attached", "gone"}]
        BY DEF Init
      <3> QED
        BY <3>1 DEF Init, TypeOK, Stages
    <2>4. CountsAreExact
      BY <2>2, ConstantsAssumption DEF Init, CountsAreExact
    <2>5. DrainedMeansIdle /\ SlowConsumerNeedsLowerLimit
      BY <2>1 DEF Init, DrainedMeansIdle, SlowConsumerNeedsLowerLimit
    <2>6. OwedWereAdmitted /\ StopHonoursDrain
      BY <2>1 DEF Init, OwedWereAdmitted, StopHonoursDrain
    <2> QED BY <2>3, <2>4, <2>5, <2>6 DEF LifeInv
  <1>2. LifeInv /\ [Next]_vars => LifeInv'
    <2> SUFFICES ASSUME LifeInv, [Next]_vars PROVE LifeInv'
      OBVIOUS
    <2>0. /\ TypeOK /\ CountsAreExact /\ DrainedMeansIdle
          /\ SlowConsumerNeedsLowerLimit /\ OwedWereAdmitted /\ StopHonoursDrain
      BY DEF LifeInv
    <2> USE DEF limits, counters
    <2>1. CASE Start
      <3>1. Running' = Running
        BY <2>1 DEF Start, Running
      <3> QED
        BY <2>0, <2>1, <3>1
        DEF Start, LifeInv, TypeOK, CountsAreExact, DrainedMeansIdle,
            SlowConsumerNeedsLowerLimit, OwedWereAdmitted, StopHonoursDrain
    <2>2. ASSUME NEW r \in Reqs, Admit(r) PROVE LifeInv'
      <3>1. /\ Running' = Running \cup {r}
            /\ Cardinality(Running') = Cardinality(Running) + 1
        BY <2>0, <2>2, RunningGrows DEF Admit
      <3>2. TypeOK'
        <4>1. req' \in [Reqs -> {"idle", "running", "finished", "rejected"}]
          BY <2>0, <2>2 DEF Admit, TypeOK
        <4>2. active' \in Nat /\ queueDepth' \in Nat
          BY <2>0, <2>2 DEF Admit, TypeOK
        <4> QED
          BY <2>0, <2>2, <4>1, <4>2 DEF Admit, TypeOK
      <3>3. CountsAreExact'
        BY <2>0, <2>2, <3>1 DEF Admit, TypeOK, CountsAreExact
      <3>4. DrainedMeansIdle'
        BY <2>2, <3>1 DEF Admit, DrainedMeansIdle
      <3>5. SlowConsumerNeedsLowerLimit'
        BY <2>0, <2>2 DEF Admit, SlowConsumerNeedsLowerLimit
      <3>6. r \notin owed /\ OwedWereAdmitted'
        BY <2>0, <2>2 DEF Admit, TypeOK, OwedWereAdmitted
      <3>7. StopHonoursDrain'
        BY <2>0, <2>2, <3>1, <3>6 DEF Admit, StopHonoursDrain
      <3> QED BY <3>2, <3>3, <3>4, <3>5, <3>6, <3>7 DEF LifeInv
    <2>3. ASSUME NEW r \in Reqs, RejectBackpressure(r) \/ RejectSlowConsumer(r)
          PROVE LifeInv'
      <3>1. Running' = Running
        BY <2>0, <2>3, RunningSame DEF RejectBackpressure, RejectSlowConsumer
      <3>2. TypeOK' /\ OwedWereAdmitted'
        BY <2>0, <2>3
        DEF RejectBackpressure, RejectSlowConsumer, TypeOK, OwedWereAdmitted
      <3>3. CountsAreExact' /\ DrainedMeansIdle' /\ StopHonoursDrain'
        BY <2>0, <2>3, <3>1
        DEF RejectBackpressure, RejectSlowConsumer, CountsAreExact, DrainedMeansIdle,
            StopHonoursDrain
      <3>4. SlowConsumerNeedsLowerLimit'
        BY <2>0, <2>3
        DEF RejectBackpressure, RejectSlowConsumer, SlowConsumerNeedsLowerLimit,
            CountsAreExact, TypeOK
      <3> QED BY <3>2, <3>3, <3>4 DEF LifeInv
    <2>4. ASSUME NEW r \in Reqs, FinishRequest(r) PROVE LifeInv'
      <3>1. /\ Running' = Running \ {r} /\ r \in Running
            /\ Cardinality(Running) \in Nat \ {0}
            /\ Cardinality(Running') = Cardinality(Running) - 1
            /\ (Running' = {} <=> Cardinality(Running') = 0)
        BY <2>0, <2>4, RunningShrinks DEF FinishRequest, Finish
      <3>2. /\ active' = Cardinality(Running')
            /\ queueDepth' = active'
            /\ Pred(active) = active'
        BY <2>0, <2>4, <3>1 DEF FinishRequest, Finish, Pred, CountsAreExact, TypeOK
      <3>3. CountsAreExact'
        BY <2>0, <2>4, <3>1, <3>2
        DEF FinishRequest, Finish, CountsAreExact, TypeOK
      <3>4. drained = FALSE
        BY <2>0, <3>1 DEF DrainedMeansIdle, TypeOK
      <3>5. drained' = (Running' = {})
        BY <2>4, <3>1, <3>2, <3>4 DEF FinishRequest, Finish
      <3>6. TypeOK'
        BY <2>0, <2>4, <3>1, <3>2, <3>5 DEF FinishRequest, Finish, TypeOK, Stages
      <3>7. DrainedMeansIdle'
        BY <3>5 DEF DrainedMeansIdle
      <3>8. SlowConsumerNeedsLowerLimit' /\ OwedWereAdmitted'
        BY <2>0, <2>4
        DEF FinishRequest, Finish, SlowConsumerNeedsLowerLimit, OwedWereAdmitted, TypeOK
      <3>9. StopHonoursDrain'
        <4>1. CASE drained'
          BY <3>5, <4>1 DEF StopHonoursDrain
        <4>2. CASE ~drained'
          BY <2>0, <2>4, <3>1, <4>2 DEF FinishRequest, Finish, StopHonoursDrain
        <4> QED BY <4>1, <4>2
      <3> QED BY <3>3, <3>6, <3>7, <3>8, <3>9 DEF LifeInv
    <2>5. ASSUME NEW e \in Executors, ConnectExecutor(e) \/ LeaveExecutor(e)
          PROVE LifeInv'
      <3>1. Running' = Running
        BY <2>5 DEF ConnectExecutor, LeaveExecutor, Running
      <3> QED
        BY <2>0, <2>5, <3>1
        DEF ConnectExecutor, LeaveExecutor, LifeInv, TypeOK, CountsAreExact,
            DrainedMeansIdle, SlowConsumerNeedsLowerLimit, OwedWereAdmitted,
            StopHonoursDrain
    <2>6. CASE Stop
      <3>1. Running' = Running
        BY <2>6 DEF Stop, Running
      <3>2. AfterDrain \in Stages
        BY DEF AfterDrain, Stages
      <3>3. TypeOK' /\ OwedWereAdmitted'
        BY <2>0, <2>6, <3>2
        DEF Stop, TypeOK, OwedWereAdmitted, Running, Stages
      <3>4. CountsAreExact' /\ DrainedMeansIdle' /\ SlowConsumerNeedsLowerLimit'
        BY <2>0, <2>6, <3>1
        DEF Stop, CountsAreExact, DrainedMeansIdle, SlowConsumerNeedsLowerLimit
      <3>5. StopHonoursDrain'
        <4>1. CASE active > 0
          BY <2>6, <4>1 DEF Stop, StopHonoursDrain
        <4>2. CASE ~(active > 0)
          <5>1. Running = {}
            BY <2>0, <4>2, NoneRunning DEF TypeOK
          <5> QED BY <3>1, <5>1 DEF StopHonoursDrain
        <4> QED BY <4>1, <4>2
      <3> QED BY <3>3, <3>4, <3>5 DEF LifeInv
    <2>7. CASE StopProceeds \/ StopGivesUpDraining \/ TepServerClosed \/ StopEnds
      <3>1. Running' = Running
        BY <2>7 DEF StopProceeds, StopGivesUpDraining, TepServerClosed, StopEnds, Running
      <3>2. AfterDrain \in Stages
        BY DEF AfterDrain, Stages
      <3>3. TypeOK' /\ OwedWereAdmitted'
        BY <2>0, <2>7, <3>2
        DEF StopProceeds, StopGivesUpDraining, TepServerClosed, StopEnds, TypeOK, Stages,
            OwedWereAdmitted
      <3>4. CountsAreExact' /\ DrainedMeansIdle' /\ SlowConsumerNeedsLowerLimit'
        BY <2>0, <2>7, <3>1
        DEF StopProceeds, StopGivesUpDraining, TepServerClosed, StopEnds,
            CountsAreExact, DrainedMeansIdle, SlowConsumerNeedsLowerLimit
      <3>5. StopHonoursDrain'
        BY <2>0, <2>7, <3>1
        DEF StopProceeds, StopGivesUpDraining, TepServerClosed, StopEnds, StopHonoursDrain
      <3> QED BY <3>3, <3>4, <3>5 DEF LifeInv
    <2>8. CASE UNCHANGED vars
      <3>1. Running' = Running
        BY <2>8 DEF vars, Running
      <3> QED
        BY <2>0, <2>8, <3>1
        DEF vars, LifeInv, TypeOK, CountsAreExact, DrainedMeansIdle,
            SlowConsumerNeedsLowerLimit, OwedWereAdmitted, StopHonoursDrain
    <2> QED
      BY <2>1, <2>2, <2>3, <2>4, <2>5, <2>6, <2>7, <2>8 DEF Next
  <1> QED BY <1>1, <1>2, PTL DEF Spec

\* The state always has its type (TypeOK).
THEOREM TypeCorrect == Spec => []TypeOK
  <1>1. LifeInv => TypeOK
    BY DEF LifeInv
  <1> QED BY <1>1, LifeInvInductive, PTL

\* Both gauges count exactly the requests in flight, within both limits.
THEOREM ExactCounts == Spec => []CountsAreExact
  <1>1. LifeInv => CountsAreExact
    BY DEF LifeInv
  <1> QED BY <1>1, LifeInvInductive, PTL

\* The drained event, which stop() waits for, is set exactly when no request is
\* in flight.
THEOREM EventIsExact == Spec => []DrainedMeansIdle
  <1>1. LifeInv => DrainedMeansIdle
    BY DEF LifeInv
  <1> QED BY <1>1, LifeInvInductive, PTL

\* The slow-consumer protection never fires under the default limits.
THEOREM SlowConsumerIsASecondLimit == Spec => []SlowConsumerNeedsLowerLimit
  <1>1. LifeInv => SlowConsumerNeedsLowerLimit
    BY DEF LifeInv
  <1> QED BY <1>1, LifeInvInductive, PTL

\* A stop() that passes the drain without giving up leaves no request behind
\* that was in flight when it was called.
THEOREM DrainIsHonoured == Spec => []StopHonoursDrain
  <1>1. LifeInv => StopHonoursDrain
    BY DEF LifeInv
  <1> QED BY <1>1, LifeInvInductive, PTL
=============================================================================
