---------------------------- MODULE MCRmutator ----------------------------
(***************************************************************************)
(* Small working directories for Rmutator: two samples whose file names    *)
(* are not UTF-8, so that both are "unknown", and one with its own name.   *)
(***************************************************************************)
EXTENDS Rmutator, TLC

CONSTANTS s1, s2, s3, unknown, other

MCName == [s \in Samples |-> IF s \in {s1, s2} THEN unknown ELSE other]
MCBavs == [s \in Samples |-> IF s \in {s1, s2} THEN 0 ELSE 1]
\* The two samples of one name have nothing else to tell them apart.
Symm == Permutations({s1, s2})

\* Only the sample with its own name asks the solvers a question; the others
\* have errors and evidence all the same.
OwnQuery == [s \in Samples |-> IF s = s3 THEN 1 ELSE 0]
TwoQueries == [s \in Samples |-> 2]
=============================================================================
