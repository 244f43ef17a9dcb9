--------------------------- MODULE MCMatlabMutator ---------------------------
(***************************************************************************)
(* Every text of up to four of the characters of MCChars for MatlabMutator.*)
(***************************************************************************)
EXTENDS MatlabMutator

MCChars == CANDIDATES \cup {"x"}
TextsOf(chars, n) == UNION {[1..k -> chars] : k \in 0..n}
MCTexts == TextsOf({"x", "*", "-"}, 4)
=============================================================================
