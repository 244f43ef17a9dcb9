------------------------------ MODULE MCCswap ------------------------------
(***************************************************************************)
(* Cswap on files of three kinds: every short text over eight pieces, a    *)
(* command of every kind with many arguments and ways to separate them,    *)
(* and two of some commands with text between them.                        *)
(***************************************************************************)
EXTENDS Cswap

CONSTANTS MaxText      \* pieces of a short text

ShortTexts == BoundedSeq({"(", ")", " ", "nl", "x", Quote, Remark, "1"}, MaxText)

Heads == {<<"assert">>, <<"check-sat", "-assuming">>, <<"check-sat">>,
          <<"get-model">>, <<"set-logic">>, <<"declare-const">>, <<"x">>}

Atoms == {<<"x">>, <<"1">>, <<"1", ".", "1">>, <<"Int">>, <<"Real">>, <<"#x1", "e">>,
          <<"#b1", "1">>, <<Quote, "x", " ", "x", Quote>>, <<"x", "1">>, <<"-">>,
          <<"-", "1">>, <<"1", "e", "-", "1">>, <<"1", "x">>, <<"Int", "x">>,
          <<Quote, "x", "nl", "x", Quote>>, <<"1", "e">>, <<"1", ".", "e", "x">>, <<Quote, ")", Quote>>, <<Quote, "x">>}
FewAtoms == {<<"x">>, <<"1">>, <<"Int">>, <<Quote, "x", " ", "x", Quote>>}

Listing(texts, gap) == <<"(">> \o gap \o Joined(texts, " ") \o gap \o <<")">>

Arguments ==
    { <<>> } \cup Atoms
    \cup {Listing(<<x>>, <<>>) : x \in Atoms}
    \cup {Listing(<<x, y>>, g) : x \in Atoms, y \in FewAtoms, g \in {<<>>, <<"nl">>}}
    \cup {Listing(<<x, Listing(<<y>>, <<>>)>>, <<>>) : x, y \in FewAtoms}
    \cup {x \o y : x, y \in FewAtoms}
    \cup {x \o <<" ">> \o y : x \in Atoms, y \in FewAtoms}
    \cup {x \o g \o Listing(<<y, z>>, <<>>) :
            x, y, z \in FewAtoms, g \in {<<>>, <<" ">>}}

Commands ==
    {<<"(">> \o h \o g \o args \o <<")">> :
        h \in Heads, g \in {<<>>, <<" ">>}, args \in Arguments}

Pairable ==
    {<<"(", "check-sat", ")">>, <<"(", "assert", " ", "x", ")">>,
     <<"(", "x", " ", Quote, ")", " ", "x", " ", "(", Quote, ")">>,
     <<"(", "set-logic", " ", "x", ")">>, <<"(", "x">>, <<")">>}

Separators == {<<>>, <<"nl">>, <<" ", "nl", " ">>, <<"x">>, <<" ", "x", "nl">>,
            <<Remark, "x", "nl">>, <<"nl", Remark, "x", "nl", "x">>, <<Remark, "x">>}

Pairs == {p \o b \o q \o t : p, q \in Pairable, b, t \in Separators}

\* Legal scripts: an echo of a string with parentheses, and other commands.
LegalPairs ==
    LET legal == {p \in Pairable : Len(p) > 2}
        gaps == {<<>>, <<"nl">>, <<" ", "nl", " ">>, <<Remark, "x", "nl">>}
    IN  {p \o b \o q \o t : p, q \in legal, b, t \in gaps}

\* Strings that touch a symbol, that hold a parenthesis, or that a symbol opens.
Touching ==
    {<<"(">> \o h \o <<" ", "(", "x">> \o g \o <<Quote, "x", " ">> \o y \o z \o <<")", ")">> :
        h \in {<<"assert">>, <<"declare-const", " ", "x">>, <<"set-logic">>},
        g \in {<<>>, <<" ">>}, y \in FewAtoms, z \in {<<>>, <<Quote>>}}
Spanning ==
    {p \o q : p \in {<<"(", "assert", "(", Quote, "x", ")", ")">>,
                     <<"(", "assert", "(", "(", "(", Quote, "x", ")", ")", ")", ")">>},
              q \in {<<"(", "set-logic", " ", "x", Quote, ")">>,
                     <<"(", "assert", " ", "(", "set-logic", " ", "x", ")", ")">>,
                     <<"(", "declare-const", " ", "x", "(", "x", Quote, " ", "Int", "1", "e",
                       ")", ")">>}}

SomeSamples == ShortTexts \cup Commands \cup Pairs \cup Touching \cup Spanning
=============================================================================
