----------------------- MODULE TruthEnumerationProofs -----------------------
(***************************************************************************)
(* For every number of boolean sub-expressions: the loops of test_file try *)
(* each assignment at most once, have tried all of them when they end, and *)
(* implement AssignmentSweep.                                              *)
(***************************************************************************)
EXTENDS TruthEnumeration, FiniteSetTheorems, TLAPS

\* The number of TRUEs of an assignment is at most N.
LEMMA WeightType ==
    ASSUME NEW f \in Assignment
    PROVE  /\ Weight(f) \in 0..N
           /\ IsFiniteSet(Trues(f))
  <1>1. IsFiniteSet(1..N) /\ Cardinality(1..N) = N
    BY FS_Interval, NAssumption, SMT
  <1>2. Trues(f) \in SUBSET (1..N)
    BY DEF Trues
  <1>3. IsFiniteSet(Trues(f)) /\ Cardinality(Trues(f)) <= N
    BY <1>1, <1>2, FS_Subset
  <1>4. Cardinality(Trues(f)) \in Nat
    BY <1>3, FS_CardinalityType
  <1>. QED  BY <1>3, <1>4, NAssumption DEF Weight

\* A permutation of 1..N reaches every position.
LEMMA PermutationOnto ==
    ASSUME NEW p \in Permutation, NEW j \in 1..N
    PROVE  \E i \in 1..N : p[i] = j
  <1>1. IsFiniteSet(1..N)
    BY FS_Interval, NAssumption, SMT
  <1>2. p \in Injection(1..N, 1..N)
    BY DEF Permutation, Injection, IsInjective
  <1>3. p \in Surjection(1..N, 1..N)
    BY <1>1, <1>2, FS_Injection
  <1>. QED  BY <1>3 DEF Surjection

\* Permuting the vector of t TRUEs yields a vector of t TRUEs.
LEMMA PermutedWeight ==
    ASSUME NEW t \in 0..N, NEW p \in Permutation
    PROVE  /\ Permuted(t, p) \in Assignment
           /\ Weight(Permuted(t, p)) = t
  <1> DEFINE f == Permuted(t, p)
             g == [i \in Trues(f) |-> p[i]]
  <1>1. p \in [1..N -> 1..N] /\ \A i, j \in 1..N : p[i] = p[j] => i = j
    BY DEF Permutation
  <1>2. \A i \in 1..N : f[i] = (p[i] <= t)
    BY <1>1 DEF Permuted, Unordered
  <1>3. f \in Assignment
    <2>1. Unordered(t) \in [1..N -> BOOLEAN]
      <3>1. \A i \in 1..N : (i <= t) \in BOOLEAN
        OBVIOUS
      <3>. QED  BY <3>1, Zenon DEF Unordered
    <2>2. \A i \in 1..N : Unordered(t)[p[i]] \in BOOLEAN
      BY <1>1, <2>1
    <2>. QED  BY <2>2 DEF Permuted, Assignment
  <1>4. Trues(f) = {i \in 1..N : p[i] <= t}
    BY <1>2 DEF Trues
  <1> HIDE DEF f
  <1>5. g \in [Trues(f) -> 1..t]
    BY <1>1, <1>4, NAssumption
  <1>6. \A i, j \in Trues(f) : g[i] = g[j] => i = j
    BY <1>1, <1>4
  <1>7. \A k \in 1..t : \E i \in Trues(f) : g[i] = k
    <2> TAKE k \in 1..t
    <2>1. k \in 1..N
      BY NAssumption
    <2>2. PICK i \in 1..N : p[i] = k
      BY <2>1, PermutationOnto
    <2>3. i \in Trues(f)
      BY <2>2, <1>4, NAssumption
    <2>. QED  BY <2>2, <2>3
  <1>8. g \in Bijection(Trues(f), 1..t)
    BY <1>5, <1>6, <1>7 DEF Bijection, Injection, Surjection, IsInjective
  <1>9. Cardinality(1..t) = Cardinality(Trues(f))
    BY <1>3, <1>8, WeightType, FS_Bijection DEF ExistsBijection
  <1>10. Cardinality(1..t) = t
    BY FS_Interval, NAssumption, SMT
  <1>. QED  BY <1>3, <1>9, <1>10 DEF Weight, f

\* Every vector with t TRUEs is a permutation of the ordered one.
LEMMA EveryVectorReached ==
    ASSUME NEW t \in 0..N, NEW f \in Assignment, Weight(f) = t
    PROVE  \E p \in Permutation : Permuted(t, p) = f
  <1> DEFINE T == Trues(f)
             F == (1..N) \ T
  <1>1. IsFiniteSet(1..N) /\ Cardinality(1..N) = N
    BY FS_Interval, NAssumption, SMT
  <1>2. IsFiniteSet(T) /\ Cardinality(T) = t /\ T \subseteq 1..N
    BY WeightType DEF Weight, Trues
  <1>3. IsFiniteSet(F) /\ Cardinality(F) = N - t
    <2>1. (1..N) \cap T = T
      BY <1>2
    <2>2. /\ IsFiniteSet((1..N) \ T)
          /\ Cardinality((1..N) \ T) = Cardinality(1..N) - Cardinality((1..N) \cap T)
      BY <1>1, FS_Difference
    <2>. QED  BY <1>1, <1>2, <2>1, <2>2
  <1>4. IsFiniteSet(1..t) /\ Cardinality(1..t) = t
    BY FS_Interval, NAssumption, SMT
  <1>5. IsFiniteSet((t + 1)..N) /\ Cardinality((t + 1)..N) = N - t
    <2>1. t + 1 \in Int /\ N \in Int
      BY NAssumption
    <2>2. /\ IsFiniteSet((t + 1)..N)
          /\ Cardinality((t + 1)..N) = IF t + 1 > N THEN 0 ELSE N - (t + 1) + 1
      BY <2>1, FS_Interval
    <2>. QED  BY <2>2, NAssumption
  <1>6. PICK g : g \in Bijection(T, 1..t)
    BY <1>2, <1>4, FS_SameCardinalityBij DEF ExistsBijection
  <1>7. PICK h : h \in Bijection(F, (t + 1)..N)
    BY <1>3, <1>5, FS_SameCardinalityBij DEF ExistsBijection
  <1>8. /\ g \in [T -> 1..t]
        /\ \A i, j \in T : g[i] = g[j] => i = j
    BY <1>6 DEF Bijection, Injection, IsInjective
  <1>9. /\ h \in [F -> (t + 1)..N]
        /\ \A i, j \in F : h[i] = h[j] => i = j
    BY <1>7 DEF Bijection, Injection, IsInjective
  <1> DEFINE p == [i \in 1..N |-> IF i \in T THEN g[i] ELSE h[i]]
  <1>10. \A i \in 1..N : \/ i \in T /\ p[i] = g[i] /\ p[i] \in 1..t
                         \/ i \in F /\ p[i] = h[i] /\ p[i] \in (t + 1)..N
    BY <1>2, <1>8, <1>9
  <1>11. p \in [1..N -> 1..N]
    <2>1. \A i \in 1..N : p[i] \in 1..N
      BY <1>10, NAssumption
    <2>. QED  BY <2>1
  <1> HIDE DEF p, F
  <1>12. \A i, j \in 1..N : p[i] = p[j] => i = j
    BY <1>8, <1>9, <1>10, NAssumption
  <1>13. p \in Permutation
    BY <1>11, <1>12 DEF Permutation
  <1>14. \A i \in 1..N : p[i] <= t <=> i \in T
    BY <1>10, NAssumption DEF F
  <1>15. \A i \in 1..N : Permuted(t, p)[i] = f[i]
    <2> TAKE i \in 1..N
    <2>1. Permuted(t, p)[i] = (p[i] <= t)
      BY <1>11 DEF Permuted, Unordered
    <2>2. f[i] \in BOOLEAN /\ (i \in T <=> f[i])
      BY DEF Assignment, Trues
    <2>. QED  BY <2>1, <2>2, <1>14
  <1>16. Permuted(t, p) = f
    BY <1>15 DEF Permuted, Assignment
  <1>. QED  BY <1>13, <1>16

-----------------------------------------------------------------------------
\* Only the assignments of the list change the set of those tried.
LEMMA TriedAppend ==
    ASSUME TypeOK, NEW f \in Assignment, tried' = Append(tried, f)
    PROVE  /\ Tried' = Tried \cup {f}
           /\ tried' \in Seq(Assignment)
           /\ \A k \in DOMAIN tried : tried'[k] = tried[k]
           /\ tried'[Len(tried) + 1] = f
           /\ DOMAIN tried' = DOMAIN tried \cup {Len(tried) + 1}
  BY DEF Tried, TypeOK

\* Before the loops nothing has been tried and every permutation is to come.
LEMMA InitIInv == Init => IInv
  <1> SUFFICES ASSUME Init PROVE IInv
    OBVIOUS
  <1> USE NAssumption DEF Init
  <1>1. TypeOK
    BY DEF TypeOK
  <1>2. NoRepeat /\ SeenWeight
    BY DEF NoRepeat, SeenWeight
  <1>3. RoundsComplete
    BY WeightType DEF RoundsComplete, Tried
  <1>4. RoundCovered
    BY EveryVectorReached DEF RoundCovered
  <1>. QED  BY <1>1, <1>2, <1>3, <1>4 DEF IInv

\* The loop body runs with a vector that unique() has let through.
LEMMA EmitIInv ==
    ASSUME IInv, NEW p \in Permutation, Emit(p)
    PROVE  IInv'
  <1> DEFINE f == Permuted(truths, p)
  <1>1. f \in Assignment /\ Weight(f) = truths
    BY PermutedWeight DEF Emit, Running
  <1>2. f \notin seen /\ f \notin Tried
    BY <1>1, NAssumption DEF Emit, IInv, RoundsComplete, TypeOK
  <1>3. /\ truths' = truths
        /\ pending' = pending \ {p}
        /\ seen' = seen \cup {f}
        /\ tried' = Append(tried, f)
    BY DEF Emit
  <1> HIDE DEF f
  <1>4. TypeOK'
    BY <1>1, <1>3 DEF IInv, TypeOK
  <1>5. NoRepeat'
    <2>1. \A k \in DOMAIN tried : tried[k] # f
      BY <1>2 DEF Tried
    <2>. QED  BY <1>1, <1>3, <2>1, TriedAppend DEF IInv, NoRepeat
  <1>6. RoundsComplete'
    <2>1. Tried' = Tried \cup {f}
      BY <1>1, <1>3, TriedAppend DEF IInv
    <2>. QED  BY <1>3, <2>1 DEF IInv, RoundsComplete
  <1>7. RoundCovered'
    <2> SUFFICES ASSUME truths <= N, NEW g \in Assignment, Weight(g) = truths
                 PROVE  g \in seen' \/ \E q \in pending' : Permuted(truths, q) = g
      BY <1>3 DEF RoundCovered
    <2>1. CASE g \in seen
      BY <2>1, <1>3
    <2>2. CASE \E q \in pending : Permuted(truths, q) = g
      BY <2>2, <1>3 DEF f
    <2>. QED  BY <2>1, <2>2 DEF IInv, RoundCovered
  <1>8. SeenWeight'
    BY <1>1, <1>3 DEF IInv, SeenWeight
  <1>. QED  BY <1>4, <1>5, <1>6, <1>7, <1>8 DEF IInv

\* unique() drops a repeated vector.
LEMMA DropIInv ==
    ASSUME IInv, NEW p \in Permutation, Drop(p)
    PROVE  IInv'
  <1> USE DEF IInv, Drop
  <1>1. TypeOK' /\ NoRepeat' /\ SeenWeight'
    BY DEF TypeOK, NoRepeat, SeenWeight
  <1>2. RoundsComplete'
    BY DEF RoundsComplete, Tried
  <1>3. RoundCovered'
    BY DEF RoundCovered
  <1>. QED  BY <1>1, <1>2, <1>3

\* The inner loop is exhausted and the outer one goes on.
LEMMA NextTruthsIInv ==
    ASSUME IInv, NextTruths
    PROVE  IInv'
  <1>1. /\ truths \in 0..N /\ pending = {}
        /\ truths' = truths + 1 /\ pending' = Permutation
        /\ seen' = {} /\ tried' = tried
    BY DEF NextTruths, Running
  <1>2. TypeOK'
    BY <1>1, NAssumption DEF IInv, TypeOK
  <1>3. NoRepeat' /\ SeenWeight'
    BY <1>1 DEF IInv, NoRepeat, SeenWeight
  <1>4. RoundsComplete'
    <2>1. seen = {f \in Assignment : Weight(f) = truths}
      BY <1>1, NAssumption DEF IInv, TypeOK, RoundCovered, SeenWeight
    <2>2. \A f \in Assignment :
            Weight(f) < truths + 1 <=> Weight(f) < truths \/ Weight(f) = truths
      BY <1>1, WeightType, NAssumption
    <2>. QED  BY <1>1, <2>1, <2>2 DEF IInv, RoundsComplete, Tried
  <1>5. RoundCovered'
    BY <1>1, EveryVectorReached, NAssumption DEF RoundCovered
  <1>. QED  BY <1>2, <1>3, <1>4, <1>5 DEF IInv

\* The invariant the loops keep: of the lighter assignments all, of the
\* current weight exactly those in unique()'s set have been tried, once.
THEOREM Inductive == Spec => []IInv
  <1>1. IInv /\ [Next]_vars => IInv'
    <2> SUFFICES ASSUME IInv, [Next]_vars PROVE IInv'
      OBVIOUS
    <2>1. CASE UNCHANGED vars
      BY <2>1 DEF vars, IInv, TypeOK, NoRepeat, RoundsComplete, Tried,
                  RoundCovered, SeenWeight
    <2>2. CASE Next
      BY <2>2, EmitIInv, DropIInv, NextTruthsIInv DEF Next
    <2>. QED  BY <2>1, <2>2
  <1>. QED  BY <1>1, InitIInv, PTL DEF Spec

\* test_file (lib.rs:154-179) never runs its loop body twice with the same
\* truth values.
THEOREM TriedOnce == Spec => []NoRepeat
  BY Inductive, PTL DEF IInv

\* When the loops of test_file end no assignment has been left out.
THEOREM TriedAll == Spec => []AllTried
  <1>1. IInv => AllTried
    BY WeightType, NAssumption DEF IInv, TypeOK, RoundsComplete, AllTried, Running
  <1>. QED  BY <1>1, Inductive, PTL

\* Every step of the loops is a step of the sweep or leaves it alone.
THEOREM Refinement == Spec => ImplementsSweep
  <1>1. Init => Sweep!Init
    BY DEF Init, Sweep!Init
  <1>2. IInv /\ [Next]_vars => [Sweep!Next]_tried
    <2> SUFFICES ASSUME IInv, [Next]_vars PROVE [Sweep!Next]_tried
      OBVIOUS
    <2>1. ASSUME NEW p \in Permutation, Emit(p) PROVE Sweep!Next
      <3> DEFINE f == Permuted(truths, p)
      <3>1. f \in Assignment /\ Weight(f) = truths
        BY <2>1, PermutedWeight DEF Emit, Running
      <3>2. f \notin Tried
        BY <2>1, <3>1, NAssumption DEF Emit, IInv, RoundsComplete, TypeOK
      <3>3. \A g \in Assignment \ Tried : truths <= Weight(g)
        BY <2>1, WeightType, NAssumption DEF Emit, Running, IInv, RoundsComplete
      <3>4. \A g : Sweep!Weight(g) = Weight(g)
        BY Zenon DEF Sweep!Weight, Sweep!Trues, Weight, Trues,
                     Sweep!Cardinality, Cardinality
      <3>5. Sweep!Remaining = Assignment \ Tried
        BY DEF Sweep!Remaining, Sweep!Tried, Sweep!Assignment, Tried, Assignment
      <3>6. Sweep!Try(f)
        BY <2>1, <3>1, <3>2, <3>3, <3>4, <3>5 DEF Emit, Sweep!Try
      <3>. QED  BY <3>1, <3>6 DEF Sweep!Next, Sweep!Assignment, Assignment
    <2>2. ASSUME NEW p \in Permutation, Drop(p) PROVE UNCHANGED tried
      BY <2>2 DEF Drop
    <2>3. ASSUME NextTruths PROVE UNCHANGED tried
      BY <2>3 DEF NextTruths
    <2>. QED  BY <2>1, <2>2, <2>3 DEF Next, vars
  <1>. QED  BY <1>1, <1>2, Inductive, PTL DEF Spec, ImplementsSweep, Sweep!Spec
=============================================================================
