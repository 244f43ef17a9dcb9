----------------------------- MODULE CswapText -----------------------------
(***************************************************************************)
(* cswap's parser, its printer and what strips the comments.               *)
(*                                                                         *)
(* A text is a sequence of pieces: single characters, the words the parser *)
(* looks for and two literals that are never split.  "x" and "e" stand for *)
(* the characters of other words.  The parsers are named as in the code.   *)
(* A parser takes a text and a position and returns a result; a result     *)
(* that is `fatal' is one no alternative catches.  nom's combinators are   *)
(* external.                                                               *)
(***************************************************************************)
EXTENDS Integers, SequencesExt

Blanks == {" ", "nl"}
Parens == {"(", ")"}
Quote == "\""
Remark == ";"
Pieces ==
    Blanks \cup Parens
    \cup {Quote, Remark, "x", "e", "1", ".", "-", "#x1", "#b1", "Int", "Real", "QLIA",
          "assert", "check-sat", "-assuming", "get-model", "set-logic", "declare-const"}

-----------------------------------------------------------------------------
(* Results and combinators *)

None == [end |-> "none", at |-> 0, val |-> <<>>]
Fatal == [end |-> "fatal", at |-> 0, val |-> <<>>]
Got(i, v) == [end |-> "ok", at |-> i, val |-> v]
Ok(r) == r.end = "ok"

\* map
Mapped(r, F(_)) == IF Ok(r) THEN Got(r.at, F(r.val)) ELSE r

\* The end of the run of pieces from a set that starts at i.
RunEnd(s, i, set) ==
    CHOOSE j \in i..(Len(s) + 1) :
        /\ \A k \in i..(j - 1) : s[k] \in set
        /\ j <= Len(s) => s[j] \notin set
RunUntil(s, i, set) ==
    CHOOSE j \in i..(Len(s) + 1) :
        /\ \A k \in i..(j - 1) : s[k] \notin set
        /\ j <= Len(s) => s[j] \in set
Run1(s, i, j) == IF j > i THEN Got(j, SubSeq(s, i, j - 1)) ELSE None

multispace0(s, i) == RunEnd(s, i, Blanks)

\* tag and char: the pieces w stand at i.
Tag(s, i, w) ==
    IF i + Len(w) - 1 <= Len(s) /\ SubSeq(s, i, i + Len(w) - 1) = w
    THEN Got(i + Len(w), w) ELSE None

\* delimited(multispace0, .., multispace0) around a result, blanks behind it.
ThenBlanks(s, r) == IF Ok(r) THEN Got(multispace0(s, r.at), r.val) ELSE r

\* alt: the first result that is not `none'.
First(rs) ==
    IF \A k \in DOMAIN rs : rs[k].end = "none" THEN None
    ELSE rs[CHOOSE k \in DOMAIN rs :
                rs[k].end # "none" /\ \A j \in 1..(k - 1) : rs[j].end = "none"]

\* The closing parenthesis behind a result.
Closed(s, r) ==
    IF Ok(r) THEN Mapped(Tag(s, r.at, <<")">>), LAMBDA v : r.val) ELSE r

\* A tree, of Constant, SExp and Sort, is written as a sequence of marks: its
\* leaves in their order, Open and Close around the nodes of a list, Between
\* from each of them to the next; these three with the text they print as.
Mark(kind, text) == [kind |-> kind, text |-> text]
Open == Mark("Open", <<"(">>)
Between == Mark("Between", <<" ">>)
Close == Mark("Close", <<")">>)
Leaf(kind, r) == Mapped(r, LAMBDA v : <<Mark(kind, v)>>)

Cmd(kind, text, tree) == [kind |-> kind, text |-> text, tree |-> tree]

-----------------------------------------------------------------------------
(* Constants and symbols *)

integer(s, i) ==
    LET r == Run1(s, i, RunEnd(s, i, {"1"}))
    IN  IF Ok(r) /\ r.at <= Len(s) /\ s[r.at] = "." THEN None ELSE r

\* recognize_float: digits or a point are needed; an "e" behind them must
\* have digits, and the failure to find some is fatal.
decimal(s, i) ==
    LET signed == IF i <= Len(s) /\ s[i] = "-" THEN i + 1 ELSE i
        whole == RunEnd(s, signed, {"1"})
        point == whole <= Len(s) /\ s[whole] = "."
        part == IF point THEN RunEnd(s, whole + 1, {"1"}) ELSE whole
        power == part <= Len(s) /\ s[part] = "e"
        digits == IF part < Len(s) /\ s[part + 1] = "-" THEN part + 2 ELSE part + 1
        end == IF power THEN RunEnd(s, digits, {"1"}) ELSE part
    IN  IF whole = signed /\ (~point \/ part = whole + 1) THEN None
        ELSE IF power /\ end = digits THEN Fatal
        ELSE Run1(s, i, end)

\* "#x1" and "#b1" are the tag and the first digit.
hex(s, i) ==
    IF Ok(Tag(s, i, <<"#x1">>)) THEN Run1(s, i, RunEnd(s, i + 1, {"1", "e"})) ELSE None
bin(s, i) ==
    IF Ok(Tag(s, i, <<"#b1">>)) THEN Run1(s, i, RunEnd(s, i + 1, {"1"})) ELSE None

string(s, i) ==
    IF ~Ok(Tag(s, i, <<Quote>>)) THEN None
    ELSE LET j == RunUntil(s, i + 1, {Quote})
         IN  Mapped(Tag(s, j, <<Quote>>), LAMBDA v : SubSeq(s, i + 1, j - 1))

constant(s, i) ==
    First(<<Leaf("UInt", integer(s, i)), Leaf("Dec", decimal(s, i)),
            Leaf("Hex", hex(s, i)), Leaf("Bin", bin(s, i)),
            Leaf("Str", string(s, i))>>)

\* No quote ends a symbol.
symbol(s, i) == Run1(s, i, RunUntil(s, i, Blanks \cup Parens))
wsSymbol(s, i) == ThenBlanks(s, symbol(s, multispace0(s, i)))

-----------------------------------------------------------------------------
(* S-expressions, sorts and commands *)

\* A constant or symbol, or a sort that is no list.
single(what, s, i) ==
    IF what = "sexp" THEN First(<<constant(s, i), Leaf("Symbol", symbol(s, i))>>)
    ELSE First(<<Leaf("Int", Tag(s, i, <<"Int">>)), Leaf("Real", Tag(s, i, <<"Real">>)),
                 Leaf("UserDef", symbol(s, i))>>)

\* sexp and sort, where `many' are the results of many1 further on.  A list
\* starts as nothing else does, so that it may be tried first in both.
Tree(what, s, i, many) ==
    LET j == multispace0(s, i)
        list == IF Ok(Tag(s, j, <<"(">>)) THEN Closed(s, many[j + 1]) ELSE None
    IN  ThenBlanks(s, First(<<Mapped(list, LAMBDA v : <<Open>> \o v \o <<Close>>),
                              single(what, s, j)>>))

\* many1(sexp) and many1(sort): no blank is needed between two of them.
ThenMore(one, many) ==
    IF ~Ok(one) \/ many[one.at].end = "none" THEN one
    ELSE Mapped(many[one.at], LAMBDA v : one.val \o <<Between>> \o v)
Many(what, s) ==
    LET many[i \in 1..(Len(s) + 1)] == ThenMore(Tree(what, s, i, many), many)
    IN  many

sexp(s, i) == Tree("sexp", s, i, Many("sexp", s))
sort(s, i) == Tree("sort", s, i, Many("sort", s))

\* preceded(tag, ..): the arguments behind the word of a command.
Preceded(s, i, word, Arguments(_)) ==
    LET r == Tag(s, multispace0(s, i), word)
    IN  IF Ok(r) THEN Arguments(multispace0(s, r.at)) ELSE None

naked_assert(s, i) == Preceded(s, i, <<"assert">>, LAMBDA j : sexp(s, j))
naked_csa(s, i) ==
    Preceded(s, i, <<"check-sat", "-assuming">>, LAMBDA j : sexp(s, j))
naked_logic(s, i) == Preceded(s, i, <<"set-logic">>, LAMBDA j : wsSymbol(s, j))
naked_decl_const(s, i) ==
    Preceded(s, i, <<"declare-const">>,
        LAMBDA j : LET v == wsSymbol(s, j) IN
            IF Ok(v) THEN Mapped(sort(s, v.at),
                                 LAMBDA t : Cmd("DeclConst", v.val, t))
            ELSE v)

naked_command(s, i) ==
    First(<<Mapped(naked_assert(s, i), LAMBDA e : Cmd("Assert", <<>>, e)),
            Mapped(naked_csa(s, i), LAMBDA e : Cmd("CheckSatAssuming", <<>>, e)),
            Mapped(Tag(s, i, <<"check-sat">>), LAMBDA v : Cmd("CheckSat", <<>>, <<>>)),
            Mapped(Tag(s, i, <<"get-model">>), LAMBDA v : Cmd("GetModel", <<>>, <<>>)),
            Mapped(naked_logic(s, i), LAMBDA v : Cmd("Logic", <<>>, <<>>)),
            naked_decl_const(s, i)>>)

\* Whatever stands between a parenthesis and the one that closes it, quotes
\* or not; or all up to the next parenthesis.  Its vector of slices is cut at
\* the parentheses only, so the text itself stands for it.  `ends' is where
\* many0(unknown_balanced) ends further on.
Unknown(s, i, ends) ==
    IF Ok(Tag(s, i, <<"(">>))
    THEN Mapped(Tag(s, ends[i + 1], <<")">>), LAMBDA v : SubSeq(s, i, ends[i + 1]))
    ELSE Run1(s, i, RunUntil(s, i, Parens))
Ends(s) ==
    LET ends[i \in 1..(Len(s) + 1)] ==
            LET one == Unknown(s, i, ends) IN IF Ok(one) THEN ends[one.at] ELSE i
    IN  ends
unknown_balanced(s, i) == Unknown(s, i, Ends(s))

known(s, i) ==
    IF Ok(Tag(s, i, <<"(">>))
    THEN ThenBlanks(s, Closed(s, ThenBlanks(s, naked_command(s, multispace0(s, i + 1)))))
    ELSE None
Generic(s, i) == Mapped(unknown_balanced(s, i), LAMBDA v : Cmd("Generic", v, <<>>))
BadCommand(s, i) == known(s, multispace0(s, i))
command(s, i) == First(<<known(s, multispace0(s, i)), Generic(s, i)>>)

\* many0: it ends, at i, before the first thing that is no command.
ThenOthers(i, one, commands) ==
    IF one.end = "none" THEN Got(i, <<>>)
    ELSE IF one.end = "fatal" THEN Fatal
    ELSE Mapped(commands[one.at], LAMBDA v : <<one.val>> \o v)
script(s) ==
    LET commands[i \in 1..(Len(s) + 1)] ==
            ThenOthers(i, ThenBlanks(s, command(s, multispace0(s, i))), commands)
    IN  commands[1]

-----------------------------------------------------------------------------
(* Printing *)

\* join
Joined(texts, blank) ==
    FlattenSeq([k \in DOMAIN texts |-> IF k = 1 THEN texts[k] ELSE <<blank>> \o texts[k]])

BadQuoted(mark) == mark.text
BadWritten(mark) == IF mark = Between THEN <<>> ELSE mark.text
Written(mark) ==
    IF mark.kind = "Str" THEN <<Quote>> \o mark.text \o <<Quote>> ELSE mark.text
tree_to_string(tree) == FlattenSeq([k \in DOMAIN tree |-> Written(tree[k])])

to_string(c) ==
    CASE c.kind = "Logic" -> <<"(", "set-logic", " ", "QLIA", ")">>
      [] c.kind = "CheckSat" -> <<"(", "check-sat", ")">>
      [] c.kind = "CheckSatAssuming" ->
            <<"(", "check-sat", "-assuming", " ">> \o tree_to_string(c.tree) \o <<")">>
      [] c.kind = "GetModel" -> <<"(", "get-model", ")">>
      [] c.kind = "DeclConst" ->
            <<"(", "declare-const", " ">> \o c.text \o <<" ">>
                \o tree_to_string(c.tree) \o <<")">>
      [] c.kind = "Assert" -> <<"(", "assert", " ">> \o tree_to_string(c.tree) \o <<")">>
      [] c.kind = "Generic" -> c.text

\* Script::to_string
Printed(cmds) == Joined([k \in DOMAIN cmds |-> to_string(cmds[k])], "nl")

-----------------------------------------------------------------------------
(* Comments *)

\* What is between the comments, an empty text for each comment.  A comment
\* without a line break behind it ends the matter.
uncommented(s) ==
    LET parts[i \in 1..(Len(s) + 1)] ==
            LET text == RunUntil(s, i, {Remark})
                line == RunUntil(s, i, {"nl"})
            IN  IF text > i THEN <<SubSeq(s, i, text - 1)>> \o parts[text]
                ELSE IF line <= Len(s) THEN << <<>> >> \o parts[line + 1]
                ELSE <<>>
    IN  parts[1]

\* many1 wants one part at least.
rmv_comments(s) ==
    IF uncommented(s) = <<>> THEN None ELSE Got(0, Joined(uncommented(s), " "))
=============================================================================
