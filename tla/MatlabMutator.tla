---------------------------- MODULE MatlabMutator ----------------------------
(***************************************************************************)
(* matlab-mutator: some of the operators of a MATLAB file are replaced by  *)
(* operators drawn at random, each at the place the regular expression     *)
(* found in the original text.                                             *)
(*                                                                         *)
(* The operators whose names start with Bad are programming errors; the    *)
(* checks are shown to catch them.                                         *)
(***************************************************************************)
EXTENDS Naturals, Sequences, FiniteSets

CONSTANTS
    Chars,   \* the bytes of a file, less some that play no part
    Texts,   \* the files
    Args,    \* what may follow -n
    NoNumber \* that it is missing, or not a number

CANDIDATES == {"/", "*", "-", "+"}

ASSUME MutatorAssumption ==
    /\ CANDIDATES \subseteq Chars
    /\ Texts \subseteq Seq(Chars)
    /\ Args \subseteq Nat \cup {NoNumber}

VARIABLES
    source,     \* the file; nothing writes it
    arg,        \* the command line's -n
    bytes,      \* the local of replace
    repments,   \* replacements: positions of the file and new operators
    next,       \* the replacement whose turn it is
    pc          \* the function the program is in

vars == <<source, arg, bytes, repments, next, pc>>

-----------------------------------------------------------------------------
\* A missing -n, or one that parse::<usize>() refuses, is 1.
NumMutations == IF arg = NoNumber THEN 1 ELSE arg

\* The matches of `/|\*|-|\+'.
FindCandidateIndices(t) == {i \in DOMAIN t : t[i] \in CANDIDATES}

\* One candidate more than asked for.
BadAmount(candidates) ==
    IF NumMutations <= Cardinality(candidates) THEN NumMutations + 1
                                               ELSE Cardinality(candidates)

\* choose_multiple gives as many as there are if there are too few.
Amount(candidates) ==
    IF NumMutations <= Cardinality(candidates) THEN NumMutations
                                               ELSE Cardinality(candidates)

\* A character drawn for it from all that may stand in a file.
BadRepments(candidates) ==
    {r \in [1..Amount(candidates) -> candidates \X Chars] :
        \A i, j \in 1..Amount(candidates) : r[i][1] = r[j][1] => i = j}

\* Different candidates, each with an operator drawn for it, in any order.
Repments(candidates) ==
    {r \in [1..Amount(candidates) -> candidates \X CANDIDATES] :
        \A i, j \in 1..Amount(candidates) : r[i][1] = r[j][1] => i = j}

Init ==
    /\ source \in Texts
    /\ arg \in Args
    /\ bytes = source
    /\ repments = <<>>
    /\ next = 1
    /\ pc = "flip_ops"

FlipOps ==
    /\ pc = "flip_ops"
    /\ repments' \in Repments(FindCandidateIndices(source))
    /\ pc' = "replace"
    /\ UNCHANGED <<source, arg, bytes, next>>

\* An insertion at the start of the match.
BadSplice(p, c) == SubSeq(bytes, 1, p - 1) \o <<c>> \o SubSeq(bytes, p, Len(bytes))

\* bytes.splice(mat.range(), newb): both are one byte long, so that nothing
\* behind them moves.
Splice(p, c) == [bytes EXCEPT ![p] = c]

Replace ==
    /\ pc = "replace"
    /\ next <= Len(repments)
    /\ bytes' = Splice(repments[next][1], repments[next][2])
    /\ next' = next + 1
    /\ UNCHANGED <<source, arg, repments, pc>>

\* The new text is written to the output.
Finish ==
    /\ pc = "replace"
    /\ next > Len(repments)
    /\ pc' = "done"
    /\ UNCHANGED <<source, arg, bytes, repments, next>>

Next == FlipOps \/ Replace \/ Finish

Spec == Init /\ [][Next]_vars

-----------------------------------------------------------------------------
Flipped == {repments[i][1] : i \in 1..(next - 1)}
Changed == {i \in DOMAIN source : bytes[i] # source[i]}

TypeOK ==
    /\ source \in Texts
    /\ arg \in Args
    /\ bytes \in Seq(Chars)
    /\ repments \in Seq(Nat \X CANDIDATES)
    /\ next \in 1..(Len(repments) + 1)
    /\ pc \in {"flip_ops", "replace", "done"}

\* The positions were found in the original text and are used in the text as
\* the replacements before have left it: each still lands on its operator,
\* none undoes another, and everything else stays (matlab-mutator/src/lib.rs
\* 24-31, 37-40).
ReplacedInPlace ==
    /\ DOMAIN bytes = DOMAIN source
    /\ \A i \in 1..(next - 1) : bytes[repments[i][1]] = repments[i][2]
    /\ \A p \in DOMAIN source \ Flipped : bytes[p] = source[p]

\* A mutant has its operators where the original has them, so that it can be
\* mutated again at the same places.
SameCandidates == FindCandidateIndices(bytes) = FindCandidateIndices(source)

\* No more than the number asked for is changed, and when the program ends
\* it is that number unless there are too few operators or one was replaced
\* by itself (matlab-mutator/src/lib.rs:25-30); the help text of -n (main.rs
\* 45) promises the number.
ChangesBounded ==
    /\ Cardinality(Changed) <= NumMutations
    /\ pc = "done" /\ Cardinality(Changed) < NumMutations =>
          \/ Cardinality(FindCandidateIndices(source)) < NumMutations
          \/ \E p \in Flipped : bytes[p] = source[p]

\* What the proofs need of the replacements.
RepmentsDistinct ==
    /\ \A i \in DOMAIN repments :
         repments[i][1] \in FindCandidateIndices(source)
    /\ \A i, j \in DOMAIN repments : repments[i][1] = repments[j][1] => i = j
    /\ Len(repments) <= NumMutations

\* How far the program is.
Drawn ==
    /\ pc = "flip_ops" => repments = <<>>
    /\ pc # "flip_ops" => Len(repments) = Amount(FindCandidateIndices(source))
    /\ pc = "done" => next = Len(repments) + 1

\* The inductive invariant of the proofs.
IInv == TypeOK /\ Drawn /\ RepmentsDistinct /\ ReplacedInPlace
=============================================================================
