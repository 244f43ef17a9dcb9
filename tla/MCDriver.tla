------------------------------ MODULE MCDriver ------------------------------
(***************************************************************************)
(* Outputs for Driver.                                                     *)
(***************************************************************************)
EXTENDS Driver

\* Two outputs, neither of which is filtered or expanded.
TwoOutputs == {<<"1", "2">>, <<"2", "1">>}

\* Every output of up to three characters.
ShortOutputs == UNION {[1..k -> {"[", "]", "1"}] : k \in 0..2}
                \cup [1..3 -> {"1", "2"}]
=============================================================================
