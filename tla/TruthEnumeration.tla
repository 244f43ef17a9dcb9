-------------------------- MODULE TruthEnumeration --------------------------
(***************************************************************************)
(* The enumeration at the end of rmutator's test_file: for every number    *)
(* `truths' of TRUEs from 0 to num_bavs, the vector of that many TRUEs     *)
(* followed by FALSEs is permuted in every way, duplicates are dropped by  *)
(* unique(), and what is left is one truth value per boolean               *)
(* sub-expression.  The order in which itertools yields permutations is    *)
(* left open.                                                              *)
(*                                                                         *)
(* The operators whose names start with Bad are programming errors; the    *)
(* checks are shown to catch them.                                         *)
(***************************************************************************)
EXTENDS Naturals, Sequences, FiniteSets

CONSTANT N   \* num_bavs

\* num_bavs is the length of a Vec.
ASSUME NAssumption == N \in Nat

VARIABLES
    truths,    \* the loop variable, 0..num_bavs, and num_bavs + 1 at the end
    pending,   \* index permutations that permutations() has still to yield
    seen,      \* the hash set of unique(), one per value of truths
    tried      \* the assignments the loop body ran with, in order

vars == <<truths, pending, seen, tried>>

-----------------------------------------------------------------------------
Assignment == [1..N -> BOOLEAN]
Trues(f) == {i \in 1..N : f[i]}
Weight(f) == Cardinality(Trues(f))
Tried == {tried[k] : k \in DOMAIN tried}

\* itertools::permutations(num_bavs) permutes positions, not values.
Permutation ==
    {p \in [1..N -> 1..N] : \A i, j \in 1..N : p[i] = p[j] => i = j}

\* The two vec! calls swapped.
BadUnordered(t) == [i \in 1..N |-> i > t]

\* vec![true; truths] extended with vec![false; num_bavs - truths]
Unordered(t) == [i \in 1..N |-> i <= t]

\* The vector a permutation of the positions yields.
Permuted(t, p) == [i \in 1..N |-> Unordered(t)[p[i]]]

-----------------------------------------------------------------------------
Init ==
    /\ truths = 0
    /\ pending = Permutation
    /\ seen = {}
    /\ tried = <<>>

\* `0..num_bavs'.
BadShort == truths \in 0..(N - 1)

Running == truths \in 0..N

\* No unique().
BadEmit(p) ==
    /\ Running
    /\ p \in pending
    /\ pending' = pending \ {p}
    /\ seen' = seen \cup {Permuted(truths, p)}
    /\ tried' = Append(tried, Permuted(truths, p))
    /\ UNCHANGED truths

\* unique() lets the first occurrence through: the loop body runs.
Emit(p) ==
    /\ Running
    /\ p \in pending
    /\ Permuted(truths, p) \notin seen
    /\ pending' = pending \ {p}
    /\ seen' = seen \cup {Permuted(truths, p)}
    /\ tried' = Append(tried, Permuted(truths, p))
    /\ UNCHANGED truths

\* The iterator is not advanced past a repeated vector.
BadDrop(p) ==
    /\ Running
    /\ p \in pending
    /\ Permuted(truths, p) \in seen
    /\ UNCHANGED vars

\* unique() drops a vector it has let through before.
Drop(p) ==
    /\ Running
    /\ p \in pending
    /\ Permuted(truths, p) \in seen
    /\ pending' = pending \ {p}
    /\ UNCHANGED <<truths, seen, tried>>

\* A break out of the inner loop.
\* The inner loop is exhausted: one more TRUE, fresh iterator, fresh set.
NextTruths ==
    /\ Running
    /\ pending = {}
    /\ truths' = truths + 1
    /\ pending' = Permutation
    /\ seen' = {}
    /\ UNCHANGED tried

Next ==
    \/ \E p \in Permutation : Emit(p) \/ Drop(p)
    \/ NextTruths

Spec == Init /\ [][Next]_vars

\* The loops are a single thread's straight-line code.
FairSpec == Spec /\ WF_vars(Next)

-----------------------------------------------------------------------------
TypeOK ==
    /\ truths \in 0..(N + 1)
    /\ pending \in SUBSET Permutation
    /\ seen \in SUBSET Assignment
    /\ tried \in Seq(Assignment)

\* No assignment is handed to the solvers twice, although most of the
\* permutations repeat a vector (lib.rs:156-160).
NoRepeat ==
    \A j, k \in DOMAIN tried : tried[j] = tried[k] => j = k

\* When the loops end every assignment has been tried (lib.rs:154-179).
AllTried == ~Running => Tried = Assignment

\* unique() forgets nothing of the current round and keeps nothing of an
\* earlier one: what was tried is every lighter assignment plus `seen'.
RoundsComplete ==
    Tried = {f \in Assignment : Weight(f) < truths} \cup seen

\* Every assignment of the current weight is in `seen' or still to come.
RoundCovered ==
    truths <= N =>
        \A f \in Assignment : Weight(f) = truths =>
            \/ f \in seen
            \/ \E p \in pending : Permuted(truths, p) = f

SeenWeight == \A f \in seen : Weight(f) = truths

\* The inductive invariant of the proofs.
IInv ==
    /\ TypeOK
    /\ NoRepeat
    /\ RoundsComplete
    /\ RoundCovered
    /\ SeenWeight

\* The loops implement the sweep over all assignments, lightest first.
Sweep == INSTANCE AssignmentSweep WITH N <- N, tried <- tried
ImplementsSweep == Sweep!Spec

\* The loops end, whatever the order of the permutations.
EventuallyAllTried == <>(Tried = Assignment /\ ~Running)
=============================================================================
