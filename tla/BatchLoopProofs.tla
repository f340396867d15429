-------------------------- MODULE BatchLoopProofs --------------------------
(* For any names, executors and batches: the loops over the keys of a batch *)
(* do what the closed forms of ExecutorSession say, whether they end or     *)
(* raise half way.                                                          *)
EXTENDS BatchLoop, ExecutorSessionProofs, WellFoundedInduction

LEMMA LeastNumber ==
  ASSUME NEW T, T \subseteq Nat, T # {}
  PROVE  \E x \in T : \A y \in T : x <= y
  <1> DEFINE R == OpToRel(<, Nat)
  <1>1. \A x, y \in Nat : <<y, x>> \in R <=> y < x
    BY DEF OpToRel
  <1>2. IsWellFoundedOn(R, Nat)
    BY NatLessThanWellFounded
  <1> HIDE DEF R
  <1>3. \E x \in T : \A y \in T : ~(<<y, x>> \in R)
    BY <1>2, WFMin
  <1>4. PICK x \in T : \A y \in T : ~(<<y, x>> \in R)
    BY <1>3
  <1>5. ASSUME NEW y \in T PROVE x <= y
    <2>1. ~(y < x) /\ x \in Nat /\ y \in Nat
      BY <1>1, <1>4
    <2> QED BY <2>1
  <1> QED BY <1>5

\* The longest prefix a loop can take.
LEMMA GreatestNumber ==
  ASSUME NEW m \in Nat, NEW T, T \subseteq 0 .. m, T # {}
  PROVE  \E x \in T : x < m => x + 1 \notin T
  <1> DEFINE U == {m - x : x \in T}
  <1>1. U \subseteq Nat /\ U # {}
    <2>1. \A x \in T : m - x \in Nat
      OBVIOUS
    <2> QED BY <2>1
  <1>2. PICK u \in U : \A y \in U : u <= y
    BY <1>1, LeastNumber
  <1>3. PICK x \in T : u = m - x
    BY <1>2
  <1>4. x + 1 \notin T
    <2>1. SUFFICES ASSUME x + 1 \in T PROVE FALSE
      OBVIOUS
    <2>2. m - (x + 1) \in U
      BY <2>1
    <2>3. m - x <= m - (x + 1) /\ x \in Nat
      BY <1>2, <1>3, <2>2
    <2> QED BY <2>3
  <1> QED BY <1>3, <1>4

-----------------------------------------------------------------------------
(* One key more.                                                           *)

\* The mark of a registry that is not a mirror.
FreshRegistry == registry \in Registries /\ registry.stale = FALSE

LEMMA BumpChanged ==
  ASSUME NEW reg \in Registries, NEW k, NEW d
  PROVE  Bump([reg EXCEPT !.defs[k] = d])
           = [rev |-> reg.rev + 1, stale |-> FALSE, defs |-> [reg.defs EXCEPT ![k] = d]]
  <1> DEFINE changed == [reg EXCEPT !.defs[k] = d]
             bumped == [changed EXCEPT !.rev = changed.rev + 1]
             fresh == [bumped EXCEPT !.stale = FALSE]
  <1>1. changed = [rev |-> reg.rev, stale |-> reg.stale, defs |-> [reg.defs EXCEPT ![k] = d]]
    BY DEF Registries
  <1>2. bumped = [rev |-> reg.rev + 1, stale |-> reg.stale, defs |-> [reg.defs EXCEPT ![k] = d]]
    <2> HIDE DEF changed
    <2> QED BY <1>1
  <1>3. fresh = [rev |-> reg.rev + 1, stale |-> FALSE, defs |-> [reg.defs EXCEPT ![k] = d]]
    <2>1. \A x : [bumped EXCEPT !.stale = x]
                 = [rev |-> reg.rev + 1, stale |-> x, defs |-> [reg.defs EXCEPT ![k] = d]]
      <3> HIDE DEF bumped
      <3> QED BY <1>2
    <2> HIDE DEF bumped
    <2> QED BY <2>1, Zenon
  <1> QED BY <1>3 DEF Bump

LEMMA OneKeyMore ==
  ASSUME FreshRegistry, NEW batch \in Batches, NEW n \in 1 .. Len(batch),
         NEW d \in Defs \cup {Absent}
  PROVE  Bump([After(batch, n - 1, d) EXCEPT !.defs[batch[n]] = d]) = After(batch, n, d)
  <1>1. n \in Nat /\ n - 1 \in 0 .. Len(batch) /\ batch[n] \in Keys
    BY BatchType
  <1>2. 1 .. n = (1 .. n - 1) \cup {n}
    BY <1>1
  <1>3. [After(batch, n - 1, d).defs EXCEPT ![batch[n]] = d] = After(batch, n, d).defs
    BY <1>1, <1>2 DEF After
  <1>4. registry.rev + (n - 1) + 1 = registry.rev + n
    BY <1>1 DEF FreshRegistry, Registries
  <1>5. /\ After(batch, n - 1, d).rev = registry.rev + (n - 1)
        /\ After(batch, n, d)
             = [rev |-> registry.rev + n, stale |-> FALSE, defs |-> After(batch, n, d).defs]
    BY DEF After, FreshRegistry
  <1>6. Bump([After(batch, n - 1, d) EXCEPT !.defs[batch[n]] = d])
          = [rev |-> After(batch, n - 1, d).rev + 1, stale |-> FALSE,
             defs |-> [After(batch, n - 1, d).defs EXCEPT ![batch[n]] = d]]
    <2>1. After(batch, n - 1, d) \in Registries
      BY <1>1, AfterType DEF FreshRegistry
    <2> QED BY <2>1, BumpChanged, Zenon
  <1>7. After(batch, n - 1, d).rev + 1 = registry.rev + n
    BY <1>4, <1>5
  <1> QED BY <1>3, <1>5, <1>6, <1>7, Zenon

\* A loop that has handled n - 1 keys can handle the next one just when the closed
\* form says so.
LEMMA NextRegisters ==
  ASSUME FreshRegistry, NEW batch \in Batches, NEW n \in 1 .. Len(batch), NEW s \in Defs,
         CanRegister(batch, n - 1)
  PROVE  CanRegister(batch, n) <=> ~Has(After(batch, n - 1, s), batch[n])
  <1>1. n \in Nat /\ batch[n] \in Keys /\ s # Absent
    BY BatchType, AbsentAssumption
  <1>2. 1 .. n = (1 .. n - 1) \cup {n}
    BY <1>1
  <1>3. Has(After(batch, n - 1, s), batch[n])
          <=> (\E i \in 1 .. n - 1 : batch[i] = batch[n]) \/ Has(registry, batch[n])
    BY <1>1 DEF Has, After
  <1>4. CanRegister(batch, n) <=> ~Has(registry, batch[n]) /\ Distinct(batch, n)
    BY <1>2 DEF CanRegister
  <1>5. Distinct(batch, n) <=> \A i \in 1 .. n - 1 : batch[i] # batch[n]
    BY <1>1, <1>2 DEF CanRegister, Distinct
  <1> QED BY <1>3, <1>4, <1>5

LEMMA NextDeregisters ==
  ASSUME FreshRegistry, NEW batch \in Batches, NEW n \in 1 .. Len(batch),
         CanDeregister(batch, n - 1)
  PROVE  CanDeregister(batch, n) <=> Has(After(batch, n - 1, Absent), batch[n])
  <1>1. n \in Nat /\ batch[n] \in Keys
    BY BatchType
  <1>2. 1 .. n = (1 .. n - 1) \cup {n}
    BY <1>1
  <1>3. Has(After(batch, n - 1, Absent), batch[n])
          <=> (\A i \in 1 .. n - 1 : batch[i] # batch[n]) /\ Has(registry, batch[n])
    BY <1>1 DEF Has, After
  <1>4. CanDeregister(batch, n) <=> Has(registry, batch[n]) /\ Distinct(batch, n)
    BY <1>2 DEF CanDeregister
  <1>5. Distinct(batch, n) <=> \A i \in 1 .. n - 1 : batch[i] # batch[n]
    BY <1>1, <1>2 DEF CanDeregister, Distinct
  <1> QED BY <1>3, <1>4, <1>5

-----------------------------------------------------------------------------
(* The loops.                                                              *)

\* Functions that start alike and go on alike are alike.
LEMMA SameLoop ==
  ASSUME NEW m \in Nat, NEW f, NEW g, f[0] = g[0],
         \A n \in 1 .. m : f[n - 1] = g[n - 1] => f[n] = g[n]
  PROVE  \A n \in 0 .. m : f[n] = g[n]
  <1> DEFINE Differ == {n \in 0 .. m : f[n] # g[n]}
  <1>1. SUFFICES ASSUME Differ # {} PROVE FALSE
    OBVIOUS
  <1>2. PICK n \in Differ : \A i \in Differ : n <= i
    <2>1. Differ \subseteq Nat
      OBVIOUS
    <2> HIDE DEF Differ
    <2> QED BY <1>1, <2>1, LeastNumber
  <1>3. n \in 1 .. m /\ n - 1 \in 0 .. m /\ ~(n <= n - 1)
    OBVIOUS
  <1>4. f[n - 1] = g[n - 1]
    BY <1>2, <1>3
  <1> QED BY <1>3, <1>4

\* What a loop has made of the registry after n keys when it raises, if at all, on
\* the key after the first m.
Reached(batch, m, d, n) ==
  [reg |-> After(batch, IF n <= m THEN n ELSE m, d), raised |-> n > m]

LEMMA ReachedBegins ==
  ASSUME FreshRegistry, NEW batch \in Batches, NEW m \in 0 .. Len(batch), NEW d
  PROVE  Reached(batch, m, d, 0) = Entering
  <1>1. m \in Nat /\ 0 <= m
    BY BatchType
  <1>2. 1 .. 0 = {} /\ registry.rev + 0 = registry.rev
    BY DEF FreshRegistry, Registries
  <1>3. [k \in Keys |-> registry.defs[k]] = registry.defs
    BY DEF FreshRegistry, Registries, Contents
  <1>4. After(batch, 0, d) = [rev |-> registry.rev, stale |-> registry.stale, defs |-> registry.defs]
    BY <1>2, <1>3 DEF After
  <1>5. registry = [rev |-> registry.rev, stale |-> registry.stale, defs |-> registry.defs]
    BY DEF FreshRegistry, Registries
  <1>6. (IF 0 <= m THEN 0 ELSE m) = 0 /\ (0 > m) = FALSE
    BY <1>1
  <1> QED BY <1>4, <1>5, <1>6, Zenon DEF Reached, Entering

LEMMA Accumulated ==
  ASSUME NEW r
  PROVE  \A b : /\ [reg |-> r, raised |-> b].reg = r
                /\ [reg |-> r, raised |-> b].raised = b
                /\ \A q : [[reg |-> r, raised |-> b] EXCEPT !.reg = q] = [reg |-> q, raised |-> b]
                /\ \A q : [[reg |-> r, raised |-> b] EXCEPT !.raised = q] = [reg |-> r, raised |-> q]
  OBVIOUS

\* A key that is handled, one that raises, and one after that.
LEMMA RegisterNextCases ==
  ASSUME NEW r, NEW k, NEW s
  PROVE  /\ ~Has(r, k) => RegisterNext(s, [reg |-> r, raised |-> FALSE], k)
                            = [reg |-> Register(r, k, s), raised |-> FALSE]
         /\ Has(r, k) => RegisterNext(s, [reg |-> r, raised |-> FALSE], k)
                           = [reg |-> r, raised |-> TRUE]
         /\ RegisterNext(s, [reg |-> r, raised |-> TRUE], k) = [reg |-> r, raised |-> TRUE]
  BY Accumulated, Zenon DEF RegisterNext

LEMMA DeregisterNextCases ==
  ASSUME NEW r, NEW k
  PROVE  /\ Has(r, k) => DeregisterNext([reg |-> r, raised |-> FALSE], k)
                           = [reg |-> Deregister(r, k), raised |-> FALSE]
         /\ ~Has(r, k) => DeregisterNext([reg |-> r, raised |-> FALSE], k)
                            = [reg |-> r, raised |-> TRUE]
         /\ DeregisterNext([reg |-> r, raised |-> TRUE], k) = [reg |-> r, raised |-> TRUE]
  BY Accumulated, Zenon DEF DeregisterNext

LEMMA ReachedParts ==
  ASSUME NEW batch \in Batches, NEW m \in 0 .. Len(batch), NEW d, NEW n \in 0 .. Len(batch)
  PROVE  /\ n <= m => Reached(batch, m, d, n) = [reg |-> After(batch, n, d), raised |-> FALSE]
         /\ n > m => Reached(batch, m, d, n) = [reg |-> After(batch, m, d), raised |-> TRUE]
  <1>1. CASE n <= m
    <2>1. (n > m) = FALSE /\ (IF n <= m THEN n ELSE m) = n
      BY <1>1, BatchType
    <2>2. ~(n > m)
      BY <2>1
    <2> QED BY <1>1, <2>1, <2>2, Zenon DEF Reached
  <1>2. CASE n > m
    <2>1. (n > m) = TRUE /\ (IF n <= m THEN n ELSE m) = m
      BY <1>2, BatchType
    <2>2. ~(n <= m)
      BY <1>2, BatchType
    <2> QED BY <1>2, <2>1, <2>2, Zenon DEF Reached
  <1>3. n <= m \/ n > m
    BY BatchType
  <1> QED BY <1>1, <1>2, <1>3

LEMMA ShorterPrefix ==
  ASSUME NEW m \in Nat, NEW n \in 0 .. m, NEW batch
  PROVE  /\ CanRegister(batch, m) => CanRegister(batch, n)
         /\ CanDeregister(batch, m) => CanDeregister(batch, n)
  <1>1. 1 .. n \subseteq 1 .. m
    OBVIOUS
  <1> QED BY <1>1 DEF CanRegister, CanDeregister, Distinct

\* One round of register_tools.
LEMMA RegisterRound ==
  ASSUME FreshRegistry, NEW batch \in Batches, NEW m \in 0 .. Len(batch),
         Registers(batch, m), NEW s \in Defs, NEW n \in 1 .. Len(batch)
  PROVE  RegisterNext(s, Reached(batch, m, s, n - 1), batch[n]) = Reached(batch, m, s, n)
  <1>0. /\ n - 1 \in 0 .. Len(batch) /\ n \in 0 .. Len(batch) /\ n \in Nat /\ m \in Nat
        /\ Len(batch) \in Nat
    BY BatchType
  <1>1. CASE n <= m
    <2>1. n - 1 <= m
      BY <1>0, <1>1
    <2>2. CanRegister(batch, n - 1) /\ CanRegister(batch, n)
      BY <1>0, <1>1, ShorterPrefix DEF Registers
    <2>3. ~Has(After(batch, n - 1, s), batch[n])
      BY <2>2, NextRegisters
    <2>4. Register(After(batch, n - 1, s), batch[n], s) = After(batch, n, s)
      BY OneKeyMore DEF Register
    <2>5. Reached(batch, m, s, n - 1) = [reg |-> After(batch, n - 1, s), raised |-> FALSE]
      BY <1>0, <2>1, ReachedParts, Zenon
    <2>6. Reached(batch, m, s, n) = [reg |-> After(batch, n, s), raised |-> FALSE]
      BY <1>0, <1>1, ReachedParts, Zenon
    <2>7. RegisterNext(s, [reg |-> After(batch, n - 1, s), raised |-> FALSE], batch[n])
            = [reg |-> Register(After(batch, n - 1, s), batch[n], s), raised |-> FALSE]
      BY <2>3, RegisterNextCases, Zenon
    <2> QED BY <2>4, <2>5, <2>6, <2>7
  <1>2. CASE n = m + 1
    <2>1. n - 1 = m /\ n - 1 <= m /\ n > m
      BY <1>0, <1>2
    <2>2. CanRegister(batch, n - 1) /\ ~CanRegister(batch, n)
      BY <1>0, <1>2 DEF Registers
    <2>3. Has(After(batch, m, s), batch[n])
      BY <2>1, <2>2, NextRegisters
    <2>4. Reached(batch, m, s, n - 1) = [reg |-> After(batch, m, s), raised |-> FALSE]
      BY <1>0, <2>1, ReachedParts, Zenon
    <2>5. Reached(batch, m, s, n) = [reg |-> After(batch, m, s), raised |-> TRUE]
      BY <1>0, <2>1, ReachedParts, Zenon
    <2>6. RegisterNext(s, [reg |-> After(batch, m, s), raised |-> FALSE], batch[n])
            = [reg |-> After(batch, m, s), raised |-> TRUE]
      BY <2>3, RegisterNextCases, Zenon
    <2> QED BY <2>4, <2>5, <2>6
  <1>3. CASE n > m + 1
    <2>1. n - 1 > m /\ n > m
      BY <1>0, <1>3
    <2>2. /\ Reached(batch, m, s, n - 1) = [reg |-> After(batch, m, s), raised |-> TRUE]
          /\ Reached(batch, m, s, n) = [reg |-> After(batch, m, s), raised |-> TRUE]
      BY <1>0, <2>1, ReachedParts, Zenon
    <2>3. RegisterNext(s, [reg |-> After(batch, m, s), raised |-> TRUE], batch[n])
            = [reg |-> After(batch, m, s), raised |-> TRUE]
      BY RegisterNextCases, Zenon
    <2> QED BY <2>2, <2>3
  <1> QED BY <1>0, <1>1, <1>2, <1>3

\* One round of deregister_tools.
LEMMA DeregisterRound ==
  ASSUME FreshRegistry, NEW batch \in Batches, NEW m \in 0 .. Len(batch),
         Deregisters(batch, m), NEW n \in 1 .. Len(batch)
  PROVE  DeregisterNext(Reached(batch, m, Absent, n - 1), batch[n])
           = Reached(batch, m, Absent, n)
  <1>0. /\ n - 1 \in 0 .. Len(batch) /\ n \in 0 .. Len(batch) /\ n \in Nat /\ m \in Nat
        /\ Len(batch) \in Nat
    BY BatchType
  <1>1. CASE n <= m
    <2>1. n - 1 <= m
      BY <1>0, <1>1
    <2>2. CanDeregister(batch, n - 1) /\ CanDeregister(batch, n)
      BY <1>0, <1>1, ShorterPrefix DEF Deregisters
    <2>3. Has(After(batch, n - 1, Absent), batch[n])
      BY <2>2, NextDeregisters
    <2>4. Deregister(After(batch, n - 1, Absent), batch[n]) = After(batch, n, Absent)
      BY OneKeyMore DEF Deregister
    <2>5. Reached(batch, m, Absent, n - 1) = [reg |-> After(batch, n - 1, Absent), raised |-> FALSE]
      BY <1>0, <2>1, ReachedParts, Zenon
    <2>6. Reached(batch, m, Absent, n) = [reg |-> After(batch, n, Absent), raised |-> FALSE]
      BY <1>0, <1>1, ReachedParts, Zenon
    <2>7. DeregisterNext([reg |-> After(batch, n - 1, Absent), raised |-> FALSE], batch[n])
            = [reg |-> Deregister(After(batch, n - 1, Absent), batch[n]), raised |-> FALSE]
      BY <2>3, DeregisterNextCases, Zenon
    <2> QED BY <2>4, <2>5, <2>6, <2>7
  <1>2. CASE n = m + 1
    <2>1. n - 1 = m /\ n - 1 <= m /\ n > m
      BY <1>0, <1>2
    <2>2. CanDeregister(batch, n - 1) /\ ~CanDeregister(batch, n)
      BY <1>0, <1>2 DEF Deregisters
    <2>3. ~Has(After(batch, m, Absent), batch[n])
      BY <2>1, <2>2, NextDeregisters
    <2>4. Reached(batch, m, Absent, n - 1) = [reg |-> After(batch, m, Absent), raised |-> FALSE]
      BY <1>0, <2>1, ReachedParts, Zenon
    <2>5. Reached(batch, m, Absent, n) = [reg |-> After(batch, m, Absent), raised |-> TRUE]
      BY <1>0, <2>1, ReachedParts, Zenon
    <2>6. DeregisterNext([reg |-> After(batch, m, Absent), raised |-> FALSE], batch[n])
            = [reg |-> After(batch, m, Absent), raised |-> TRUE]
      BY <2>3, DeregisterNextCases, Zenon
    <2> QED BY <2>4, <2>5, <2>6
  <1>3. CASE n > m + 1
    <2>1. n - 1 > m /\ n > m
      BY <1>0, <1>3
    <2>2. /\ Reached(batch, m, Absent, n - 1) = [reg |-> After(batch, m, Absent), raised |-> TRUE]
          /\ Reached(batch, m, Absent, n) = [reg |-> After(batch, m, Absent), raised |-> TRUE]
      BY <1>0, <2>1, ReachedParts, Zenon
    <2>3. DeregisterNext([reg |-> After(batch, m, Absent), raised |-> TRUE], batch[n])
            = [reg |-> After(batch, m, Absent), raised |-> TRUE]
      BY DeregisterNextCases, Zenon
    <2> QED BY <2>2, <2>3
  <1> QED BY <1>0, <1>1, <1>2, <1>3

\* The loop over the keys of register_tools, up to any of them.
LEMMA RegisterLoopReaches ==
  ASSUME FreshRegistry, NEW batch \in Batches, NEW m \in 0 .. Len(batch),
         Registers(batch, m), NEW s \in Defs
  PROVE  \A n \in 0 .. Len(batch) : RegisterLoop(s, batch)[n] = Reached(batch, m, s, n)
  <1> DEFINE D == 0 .. Len(batch)
             Round(f, n) == IF n = 0 THEN Entering ELSE RegisterNext(s, f[n - 1], batch[n])
             g == [n \in D |-> Reached(batch, m, s, n)]
             loop == RegisterLoop(s, batch)
  <1>0. /\ Len(batch) \in Nat /\ 0 \in D
        /\ \A n \in D : n = 0 \/ (n \in 1 .. Len(batch) /\ n # 0 /\ n - 1 \in D)
        /\ \A n \in 1 .. Len(batch) : n # 0 /\ n \in D
    BY BatchType
  <1>1. \A n \in D : g[n] = Round(g, n)
    BY <1>0, ReachedBegins, RegisterRound
  <1>2. g = [n \in D |-> Round(g, n)]
    BY <1>1
  <1>3. loop = [n \in D |-> Round(loop, n)]
    <2>1. \E f : f = [n \in D |-> Round(f, n)]
      BY <1>2
    <2> QED BY <2>1 DEF RegisterLoop
  <1> HIDE DEF loop
  <1>4. /\ loop[0] = Entering
        /\ \A n \in 1 .. Len(batch) : loop[n] = RegisterNext(s, loop[n - 1], batch[n])
    BY <1>0, <1>3
  <1>5. loop[0] = g[0] /\ \A n \in 1 .. Len(batch) : loop[n - 1] = g[n - 1] => loop[n] = g[n]
    BY <1>0, <1>1, <1>4
  <1>6. \A n \in 0 .. Len(batch) : loop[n] = g[n]
    <2>1. Len(batch) \in Nat /\ loop[0] = g[0]
      BY <1>0, <1>5
    <2>2. \A n \in 1 .. Len(batch) : loop[n - 1] = g[n - 1] => loop[n] = g[n]
      BY <1>5
    <2> HIDE DEF g, D
    <2> QED BY <2>1, <2>2, SameLoop, ZenonT(30)
  <1> QED BY <1>6 DEF loop

\* The loop over the keys of deregister_tools, up to any of them.
LEMMA DeregisterLoopReaches ==
  ASSUME FreshRegistry, NEW batch \in Batches, NEW m \in 0 .. Len(batch),
         Deregisters(batch, m)
  PROVE  \A n \in 0 .. Len(batch) : DeregisterLoop(batch)[n] = Reached(batch, m, Absent, n)
  <1> DEFINE D == 0 .. Len(batch)
             Round(f, n) == IF n = 0 THEN Entering ELSE DeregisterNext(f[n - 1], batch[n])
             g == [n \in D |-> Reached(batch, m, Absent, n)]
             loop == DeregisterLoop(batch)
  <1>0. /\ Len(batch) \in Nat /\ 0 \in D
        /\ \A n \in D : n = 0 \/ (n \in 1 .. Len(batch) /\ n # 0 /\ n - 1 \in D)
        /\ \A n \in 1 .. Len(batch) : n # 0 /\ n \in D
    BY BatchType
  <1>1. \A n \in D : g[n] = Round(g, n)
    BY <1>0, ReachedBegins, DeregisterRound
  <1>2. g = [n \in D |-> Round(g, n)]
    BY <1>1
  <1>3. loop = [n \in D |-> Round(loop, n)]
    <2>1. \E f : f = [n \in D |-> Round(f, n)]
      BY <1>2
    <2> QED BY <2>1 DEF DeregisterLoop
  <1> HIDE DEF loop
  <1>4. /\ loop[0] = Entering
        /\ \A n \in 1 .. Len(batch) : loop[n] = DeregisterNext(loop[n - 1], batch[n])
    BY <1>0, <1>3
  <1>5. loop[0] = g[0] /\ \A n \in 1 .. Len(batch) : loop[n - 1] = g[n - 1] => loop[n] = g[n]
    BY <1>0, <1>1, <1>4
  <1>6. \A n \in 0 .. Len(batch) : loop[n] = g[n]
    <2>1. Len(batch) \in Nat /\ loop[0] = g[0]
      BY <1>0, <1>5
    <2>2. \A n \in 1 .. Len(batch) : loop[n - 1] = g[n - 1] => loop[n] = g[n]
      BY <1>5
    <2> HIDE DEF g, D
    <2> QED BY <2>1, <2>2, SameLoop, ZenonT(30)
  <1> QED BY <1>6 DEF loop

-----------------------------------------------------------------------------
(* The theorem.                                                            *)

\* Some prefix is the longest one a loop can take.
LEMMA LongestPrefix ==
  ASSUME NEW batch \in Batches
  PROVE  /\ \E n \in 0 .. Len(batch) : Registers(batch, n)
         /\ \E n \in 0 .. Len(batch) : Deregisters(batch, n)
  <1> DEFINE R == {n \in 0 .. Len(batch) : CanRegister(batch, n)}
             T == {n \in 0 .. Len(batch) : CanDeregister(batch, n)}
  <1>1. Len(batch) \in Nat /\ 0 \in 0 .. Len(batch) /\ 1 .. 0 = {}
    BY BatchType
  <1>2. 0 \in R /\ 0 \in T
    BY <1>1 DEF CanRegister, CanDeregister, Distinct
  <1>3. \A n \in 0 .. Len(batch) : n < Len(batch) => n + 1 \in 0 .. Len(batch)
    BY <1>1
  <1>4. PICK n \in R : n < Len(batch) => n + 1 \notin R
    <2>1. R \subseteq 0 .. Len(batch) /\ R # {}
      BY <1>2
    <2> HIDE DEF R
    <2> QED BY <1>1, <2>1, GreatestNumber
  <1>5. PICK n2 \in T : n2 < Len(batch) => n2 + 1 \notin T
    <2>1. T \subseteq 0 .. Len(batch) /\ T # {}
      BY <1>2
    <2> HIDE DEF T
    <2> QED BY <1>1, <2>1, GreatestNumber
  <1> QED BY <1>3, <1>4, <1>5 DEF Registers, Deregisters

\* The registry of a host or direct relay is never stale.
LEMMA FreshRegistryAlways == Spec => []FreshRegistry
  <1> DEFINE NotStale == registry.stale = FALSE
  <1>1. Init => NotStale
    BY DEF Init, EmptyRegistry
  <1>2. NotStale /\ [Next]_vars => NotStale'
    BY RegistryMoves DEF After
  <1>3. TypeOK /\ NotStale => FreshRegistry
    BY DEF TypeOK, FreshRegistry
  <1> HIDE DEF NotStale
  <1> QED BY <1>1, <1>2, <1>3, TypeCorrect, PTL DEF Spec

\* The closed form of a batch is what the loops over its keys do
\* (ClosedFormIsTheLoop): how many keys are handled, what the registry holds then,
\* and whether the loop has raised.
THEOREM LoopsHaveClosedForms == Spec => []ClosedFormIsTheLoop
  <1>1. FreshRegistry => ClosedFormIsTheLoop
    <2> SUFFICES ASSUME FreshRegistry, NEW batch \in Batches
                 PROVE
                   /\ \E n \in 0 .. Len(batch) : Registers(batch, n)
                   /\ \E n \in 0 .. Len(batch) : Deregisters(batch, n)
                   /\ \A n \in 0 .. Len(batch) :
                       /\ Registers(batch, n) =>
                            \A s \in Defs : RegisterAll(s, batch)
                              = [reg |-> After(batch, n, s), raised |-> n < Len(batch)]
                       /\ Deregisters(batch, n) =>
                            DeregisterAll(batch)
                              = [reg |-> After(batch, n, Absent), raised |-> n < Len(batch)]
      BY Zenon DEF ClosedFormIsTheLoop
    <2>1. ASSUME NEW n \in 0 .. Len(batch), NEW d
          PROVE  Reached(batch, n, d, Len(batch))
                   = [reg |-> After(batch, n, d), raised |-> n < Len(batch)]
      <3>1. Len(batch) \in 0 .. Len(batch)
        BY BatchType
      <3>2. CASE n < Len(batch)
        <4>1. Len(batch) > n /\ (n < Len(batch)) = TRUE
          BY <3>2
        <4> QED BY <3>1, <4>1, ReachedParts, Zenon
      <3>3. CASE n = Len(batch)
        <4>1. Len(batch) <= n /\ (n < Len(batch)) = FALSE
          BY <3>1, <3>3, BatchType
        <4> QED BY <3>1, <3>3, <4>1, ReachedParts, Zenon
      <3> QED BY <3>2, <3>3, BatchType
    <2>2. ASSUME NEW n \in 0 .. Len(batch), Registers(batch, n), NEW s \in Defs
          PROVE  RegisterAll(s, batch) = Reached(batch, n, s, Len(batch))
      BY <2>2, BatchType, RegisterLoopReaches DEF RegisterAll
    <2>3. ASSUME NEW n \in 0 .. Len(batch), Deregisters(batch, n)
          PROVE  DeregisterAll(batch) = Reached(batch, n, Absent, Len(batch))
      BY <2>3, BatchType, DeregisterLoopReaches DEF DeregisterAll
    <2> QED BY <2>1, <2>2, <2>3, LongestPrefix, Zenon
  <1> QED BY <1>1, FreshRegistryAlways, PTL
=============================================================================
