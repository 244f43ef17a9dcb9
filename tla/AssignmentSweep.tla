-------------------------- MODULE AssignmentSweep --------------------------
(***************************************************************************)
(* What the nested loops of rmutator's test_file promise: every assignment *)
(* of truth values to the N boolean sub-expressions of a script is handed  *)
(* to the solvers, each one once, those with fewer TRUEs first.            *)
(***************************************************************************)
EXTENDS Naturals, Sequences, FiniteSets

CONSTANT N   \* number of boolean sub-expressions (num_bavs), a natural number

VARIABLE tried   \* the assignments handed to the solvers, in order

Assignment == [1..N -> BOOLEAN]
Trues(f) == {i \in 1..N : f[i]}
Weight(f) == Cardinality(Trues(f))

Tried == {tried[k] : k \in DOMAIN tried}
Remaining == Assignment \ Tried

-----------------------------------------------------------------------------
Init == tried = <<>>

\* Any of the lightest remaining assignments is next.
Try(f) ==
    /\ f \in Remaining
    /\ \A g \in Remaining : Weight(f) <= Weight(g)
    /\ tried' = Append(tried, f)

Next == \E f \in Assignment : Try(f)

Spec == Init /\ [][Next]_tried
=============================================================================
