------------------------- MODULE MatlabMutatorProofs -------------------------
(***************************************************************************)
(* For every file and every number of mutations: replacements land on the  *)
(* operators they were drawn for, nothing else changes, and the mutant has *)
(* its operators where the file has them.                                  *)
(***************************************************************************)
EXTENDS MatlabMutator, FiniteSetTheorems, TLAPS

\* The operators of a file are finitely many of its positions.
LEMMA CandidatesFinite ==
    ASSUME NEW t \in Seq(Chars)
    PROVE  /\ FindCandidateIndices(t) \subseteq DOMAIN t
           /\ IsFiniteSet(FindCandidateIndices(t))
           /\ Cardinality(FindCandidateIndices(t)) \in Nat
  <1>1. DOMAIN t = 1..Len(t) /\ Len(t) \in Nat
    OBVIOUS
  <1>2. IsFiniteSet(1..Len(t))
    BY <1>1, FS_Interval
  <1>3. FindCandidateIndices(t) \subseteq 1..Len(t)
    BY <1>1 DEF FindCandidateIndices
  <1>4. IsFiniteSet(FindCandidateIndices(t))
    BY <1>2, <1>3, FS_Subset
  <1> QED  BY <1>1, <1>3, <1>4, FS_CardinalityType

\* The number of mutations is a natural number.
LEMMA NumType == TypeOK => NumMutations \in Nat
  BY MutatorAssumption DEF TypeOK, NumMutations

\* Before any replacement the text is the file.
LEMMA InitIInv == Init => IInv
  <1> SUFFICES ASSUME Init PROVE IInv
    OBVIOUS
  <1>1. source \in Seq(Chars) /\ bytes = source
    BY MutatorAssumption DEF Init
  <1>2. TypeOK
    BY <1>1 DEF Init, TypeOK
  <1>3. RepmentsDistinct
    BY <1>2, NumType DEF Init, RepmentsDistinct
  <1>4. ReplacedInPlace
    BY <1>1 DEF Init, ReplacedInPlace, Flipped
  <1>5. Drawn
    BY DEF Init, Drawn
  <1> QED  BY <1>2, <1>3, <1>4, <1>5 DEF IInv

\* Positions and operators are drawn.
LEMMA FlipIInv == ASSUME IInv, FlipOps PROVE IInv'
  <1> DEFINE C == FindCandidateIndices(source)
             n == Amount(C)
  <1>1. source \in Seq(Chars) /\ source' = source
    BY MutatorAssumption DEF IInv, TypeOK, FlipOps
  <1>2. C \subseteq DOMAIN source /\ DOMAIN source \subseteq Nat /\ Cardinality(C) \in Nat
    BY <1>1, CandidatesFinite
  <1>3. n \in Nat /\ n <= NumMutations
    BY <1>2, NumType DEF Amount, IInv
  <1>4. /\ repments' \in [1..n -> C \X CANDIDATES]
        /\ \A i, j \in 1..n : repments'[i][1] = repments'[j][1] => i = j
    BY DEF FlipOps, Repments
  <1>5. /\ repments' \in Seq(Nat \X CANDIDATES)
        /\ Len(repments') = n
        /\ DOMAIN repments' = 1..n
    BY <1>2, <1>3, <1>4
  <1>6. next = 1 /\ next' = 1
    BY DEF IInv, TypeOK, Drawn, FlipOps
  <1>7. TypeOK'
    BY <1>3, <1>5, <1>6 DEF FlipOps, IInv, TypeOK
  <1>8. NumMutations' = NumMutations
    BY DEF FlipOps, NumMutations
  <1>9. RepmentsDistinct'
    BY <1>1, <1>3, <1>4, <1>5, <1>8 DEF RepmentsDistinct
  <1>10. ReplacedInPlace'
    BY <1>6 DEF FlipOps, IInv, ReplacedInPlace, Flipped
  <1>11. Drawn'
    BY <1>1, <1>5, <1>8 DEF FlipOps, Drawn, Amount
  <1> QED  BY <1>7, <1>9, <1>10, <1>11 DEF IInv

\* One replacement: no other lands on the same position.
LEMMA ReplaceIInv == ASSUME IInv, Replace PROVE IInv'
  <1> DEFINE p == repments[next][1]
             c == repments[next][2]
  <1>1. next \in 1..Len(repments) /\ next \in DOMAIN repments
    BY DEF IInv, TypeOK, Replace
  <1>2. p \in DOMAIN source /\ p \in DOMAIN bytes /\ c \in CANDIDATES
    BY <1>1 DEF IInv, TypeOK, RepmentsDistinct, ReplacedInPlace,
                FindCandidateIndices
  <1>3. c \in Chars
    BY <1>2, MutatorAssumption
  <1>4. bytes' = [bytes EXCEPT ![p] = c]
    BY DEF Replace, Splice
  <1>5. bytes' \in Seq(Chars) /\ DOMAIN bytes' = DOMAIN bytes
    BY <1>2, <1>3, <1>4 DEF IInv, TypeOK
  <1>6. TypeOK'
    BY <1>1, <1>5 DEF Replace, IInv, TypeOK
  <1>7. RepmentsDistinct'
    BY DEF Replace, IInv, RepmentsDistinct, NumMutations
  <1>8. \A i \in 1..(next' - 1) : bytes'[repments'[i][1]] = repments'[i][2]
    <2> SUFFICES ASSUME NEW i \in 1..next
                 PROVE  bytes'[repments[i][1]] = repments[i][2]
      BY <1>1 DEF Replace
    <2>1. i \in DOMAIN repments
      BY <1>1
    <2>2. repments[i][1] \in DOMAIN bytes
      BY <2>1 DEF IInv, RepmentsDistinct, ReplacedInPlace, FindCandidateIndices
    <2>3. CASE i = next
      BY <1>2, <1>4, <2>3
    <2>4. CASE i # next
      <3>1. repments[i][1] # p
        BY <1>1, <2>1, <2>4 DEF IInv, RepmentsDistinct
      <3>2. i \in 1..(next - 1)
        BY <1>1, <2>4
      <3> QED  BY <1>4, <2>2, <3>1, <3>2 DEF IInv, ReplacedInPlace
    <2> QED  BY <2>3, <2>4
  <1>9. Flipped' = Flipped \cup {p}
    <2>1. 1..(next' - 1) = (1..(next - 1)) \cup {next}
      BY <1>1 DEF Replace
    <2>2. repments' = repments
      BY DEF Replace
    <2> QED  BY <2>1, <2>2 DEF Flipped
  <1>10. \A q \in DOMAIN source' \ Flipped' : bytes'[q] = source'[q]
    BY <1>4, <1>9 DEF Replace, IInv, ReplacedInPlace
  <1>11. ReplacedInPlace'
    BY <1>5, <1>8, <1>10 DEF Replace, IInv, ReplacedInPlace
  <1>12. Drawn'
    BY DEF Replace, IInv, Drawn, Amount, NumMutations
  <1> QED  BY <1>6, <1>7, <1>11, <1>12 DEF IInv

\* Every step keeps the invariant.
LEMMA StepIInv == ASSUME IInv, [Next]_vars PROVE IInv'
  <1>1. CASE FlipOps
    BY <1>1, FlipIInv
  <1>2. CASE Replace
    BY <1>2, ReplaceIInv
  <1>3. CASE Finish
    BY <1>3 DEF Finish, IInv, TypeOK, Drawn, RepmentsDistinct,
                ReplacedInPlace, Flipped, NumMutations, Amount
  <1>4. CASE UNCHANGED vars
    BY <1>4 DEF vars, IInv, TypeOK, Drawn, RepmentsDistinct,
                ReplacedInPlace, Flipped, NumMutations, Amount
  <1> QED  BY <1>1, <1>2, <1>3, <1>4 DEF Next

\* The invariant holds of every state of the mutator.
THEOREM Inductive == Spec => []IInv
  <1>1. IInv /\ [Next]_vars => IInv'
    BY StepIInv
  <1> QED  BY <1>1, InitIInv, PTL DEF Spec

\* The state has its type.
THEOREM TypeCorrect == Spec => []TypeOK
  <1>1. IInv => TypeOK
    BY DEF IInv
  <1> QED  BY <1>1, Inductive, PTL

\* Replacements land on their operators, and nothing else changes.
THEOREM InPlace == Spec => []ReplacedInPlace
  <1>1. IInv => ReplacedInPlace
    BY DEF IInv
  <1> QED  BY <1>1, Inductive, PTL

\* A mutant can be mutated at the same places as the file.
THEOREM CandidatesStay == Spec => []SameCandidates
  <1>1. ASSUME IInv PROVE SameCandidates
    <2>1. DOMAIN bytes = DOMAIN source
      BY <1>1 DEF IInv, ReplacedInPlace
    <2>2. ASSUME NEW q \in DOMAIN source
          PROVE  bytes[q] \in CANDIDATES <=> source[q] \in CANDIDATES
      <3>1. CASE q \in Flipped
        <4>1. PICK i \in 1..(next - 1) : q = repments[i][1]
          BY <3>1 DEF Flipped
        <4>2. i \in DOMAIN repments
          BY <1>1 DEF IInv, TypeOK
        <4>3. source[q] \in CANDIDATES
          BY <1>1, <4>1, <4>2 DEF IInv, RepmentsDistinct, FindCandidateIndices
        <4>4. bytes[q] \in CANDIDATES
          BY <1>1, <4>1, <4>2 DEF IInv, TypeOK, ReplacedInPlace
        <4> QED  BY <4>3, <4>4
      <3>2. CASE q \notin Flipped
        BY <1>1, <3>2 DEF IInv, ReplacedInPlace
      <3> QED  BY <3>1, <3>2
    <2> QED  BY <2>1, <2>2 DEF SameCandidates, FindCandidateIndices
  <1> QED  BY <1>1, Inductive, PTL

\* As many positions have been replaced as replacements made.
LEMMA FlippedCount ==
    ASSUME IInv
    PROVE  /\ IsFiniteSet(Flipped)
           /\ Cardinality(Flipped) = next - 1
  <1> DEFINE f == [i \in 1..(next - 1) |-> repments[i][1]]
  <1>1. next - 1 \in Nat /\ 1..(next - 1) \subseteq DOMAIN repments
    BY DEF IInv, TypeOK
  <1>2. f \in [1..(next - 1) -> Flipped]
    BY DEF Flipped
  <1>3. \A x \in Flipped : \E i \in 1..(next - 1) : f[i] = x
    BY DEF Flipped
  <1>4. \A i, j \in 1..(next - 1) : f[i] = f[j] => i = j
    BY <1>1 DEF IInv, RepmentsDistinct
  <1>5. f \in Bijection(1..(next - 1), Flipped)
    BY <1>2, <1>3, <1>4 DEF Bijection, Injection, Surjection, IsInjective
  <1>6. IsFiniteSet(1..(next - 1)) /\ Cardinality(1..(next - 1)) = next - 1
    BY <1>1, FS_Interval
  <1> QED  BY <1>5, <1>6, FS_Bijection DEF ExistsBijection

\* No more positions change than were asked for, and no fewer unless there
\* are too few operators or one was replaced by itself.
THEOREM Bounded == Spec => []ChangesBounded
  <1>1. ASSUME IInv PROVE ChangesBounded
    <2>1. Changed \subseteq Flipped
      BY <1>1 DEF IInv, ReplacedInPlace, Changed
    <2>2. IsFiniteSet(Changed) /\ Cardinality(Changed) \in Nat
          /\ Cardinality(Changed) <= next - 1
      BY <1>1, <2>1, FlippedCount, FS_Subset, FS_CardinalityType
    <2>3. next - 1 <= NumMutations /\ NumMutations \in Nat /\ next \in Nat
      BY <1>1, NumType DEF IInv, TypeOK, RepmentsDistinct
    <2>4. ASSUME pc = "done", Cardinality(Changed) < NumMutations,
                 Cardinality(FindCandidateIndices(source)) >= NumMutations
          PROVE  \E p \in Flipped : bytes[p] = source[p]
      <3>1. source \in Seq(Chars)
        BY <1>1, MutatorAssumption DEF IInv, TypeOK
      <3>2. Cardinality(FindCandidateIndices(source)) \in Nat
        BY <3>1, CandidatesFinite
      <3>3. Len(repments) = NumMutations /\ next = Len(repments) + 1
        BY <1>1, <2>3, <2>4, <3>2 DEF IInv, Drawn, Amount
      <3>4. Changed # Flipped
        BY <1>1, <2>3, <2>4, <3>3, FlippedCount
      <3>5. PICK p \in Flipped : p \notin Changed
        BY <2>1, <3>4
      <3>6. p \in DOMAIN source
        BY <1>1, <3>5 DEF IInv, TypeOK, RepmentsDistinct, Flipped,
                          FindCandidateIndices
      <3> QED  BY <3>5, <3>6 DEF Changed
    <2>5. Cardinality(FindCandidateIndices(source)) \in Nat
      BY <1>1, MutatorAssumption, CandidatesFinite DEF IInv, TypeOK
    <2> QED  BY <2>2, <2>3, <2>4, <2>5 DEF ChangesBounded
  <1> QED  BY <1>1, Inductive, PTL
=============================================================================
