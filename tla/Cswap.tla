------------------------------- MODULE Cswap -------------------------------
(***************************************************************************)
(* cswap's exec: every file of the samples directory is stripped of its    *)
(* comments, parsed, printed and parsed again, and the two results must be *)
(* equal.  Whatever goes wrong is a panic, and the files behind it are     *)
(* never looked at.                                                        *)
(*                                                                         *)
(* Nothing is carried from one file to the next but the panic, so the      *)
(* directory is whatever files come before it ends.                        *)
(***************************************************************************)
EXTENDS CswapText

CONSTANT Samples       \* the texts of the files

ASSUME SamplesAssumption == Samples \subseteq Seq(Pieces)

VARIABLES
    stage,       \* how far the file is, or which panic it was
    sample,      \* the file as it was read
    contents_,   \* without its comments
    a,           \* the result of the first parse
    again        \* the result of the second

vars == <<stage, sample, contents_, a, again>>

Panics == {"unreadable", "no parts", "parse error", "no second parse", "unequal"}

Init ==
    /\ stage = "next"
    /\ sample = <<>> /\ contents_ = <<>> /\ a = Got(1, <<>>) /\ again = Got(1, <<>>)

ReadFile ==
    /\ stage = "next"
    /\ \E s \in Samples :
        /\ sample' = s
        /\ stage' = "read" /\ contents_' = <<>>
        /\ a' = Got(1, <<>>) /\ again' = Got(1, <<>>)

\* No directory, no entry, no file, or a file that is not UTF-8.
CannotRead ==
    /\ stage = "next"
    /\ stage' = "unreadable"
    /\ UNCHANGED <<sample, contents_, a, again>>

RemoveComments ==
    /\ stage = "read"
    /\ LET r == rmv_comments(sample) IN
        IF Ok(r) THEN stage' = "stripped" /\ contents_' = r.val
        ELSE stage' = "no parts" /\ UNCHANGED contents_
    /\ UNCHANGED <<sample, a, again>>

\* script(contents_), twice with one result.
Parse ==
    /\ stage = "stripped"
    /\ a' = script(contents_)
    /\ stage' = IF Ok(a') THEN "parsed" ELSE "parse error"
    /\ UNCHANGED <<sample, contents_, again>>

\* Only the commands are compared: what is left of the text is not.
Compare ==
    /\ stage = "parsed"
    /\ again' = script(Printed(a.val))
    /\ stage' = IF ~Ok(again') THEN "no second parse"
                ELSE IF a.val # again'.val THEN "unequal" ELSE "equal"
    /\ UNCHANGED <<sample, contents_, a>>

NextFile ==
    /\ stage = "equal"
    /\ stage' = "next"
    /\ sample' = <<>> /\ contents_' = <<>> /\ a' = Got(1, <<>>) /\ again' = Got(1, <<>>)

EndOfDir ==
    /\ stage = "next"
    /\ stage' = "ended"
    /\ UNCHANGED <<sample, contents_, a, again>>

Stopped == stage \in Panics \cup {"ended"} /\ UNCHANGED vars

Next ==
    \/ ReadFile \/ CannotRead \/ RemoveComments \/ Parse \/ Compare
    \/ NextFile \/ EndOfDir \/ Stopped

Spec == Init /\ [][Next]_vars

-----------------------------------------------------------------------------
(***************************************************************************)
(* The words of a text, as SMT-LIB reads them and without a parser: a      *)
(* parenthesis, a string (two quotes in it are one), or what is left       *)
(* between blanks, quotes and parentheses.  Comments are no words.         *)
(***************************************************************************)
StringEnd(s, start) ==
    LET end[i \in 1..(Len(s) + 1)] ==
            LET j == RunUntil(s, i, {Quote})
            IN  IF j > Len(s) THEN j
                ELSE IF j < Len(s) /\ s[j + 1] = Quote THEN end[j + 2] ELSE j + 1
    IN  end[start]

WordEnd(s, i) ==
    CASE s[i] \in Parens -> i + 1
      [] s[i] = Quote -> StringEnd(s, i + 1)
      [] OTHER -> RunUntil(s, i, Blanks \cup Parens \cup {Quote, Remark})

Words(s) ==
    LET words[i \in 1..(Len(s) + 1)] ==
            LET j == multispace0(s, i)
            IN  IF j > Len(s) THEN <<>>
                ELSE IF s[j] = Remark THEN words[RunUntil(s, j, {"nl"})]
                ELSE <<SubSeq(s, j, WordEnd(s, j) - 1)>> \o words[WordEnd(s, j)]
    IN  words[1]

\* The words a script without surprises is made of.  A string may be read as
\* symbols, which are cut at blanks and printed with one each.
PlainString(w) ==
    /\ Len(w) >= 2 /\ w[1] = Quote /\ w[Len(w)] = Quote
    /\ \A k \in 2..(Len(w) - 1) :
        /\ w[k] \notin Parens \cup {Quote, Remark, "nl", "Int", "Real"}
        /\ w[k] = " " => w[k + 1] # " "
PlainWords ==
    {<<w>> : w \in Parens \cup {"x", "e", "1", "-", "QLIA", "assert", "check-sat",
                    "get-model", "set-logic", "declare-const", "Int", "Real",
                    "#x1", "#b1"}}
    \cup {<<"check-sat", "-assuming">>, <<"1", ".", "1">>, <<"1", "1">>,
          <<"x", "1">>, <<"e", "1">>}
Plain(ws) ==
    \A k \in DOMAIN ws :
        \/ ws[k] \in PlainWords
        \/ PlainString(ws[k]) /\ (k > 1 => ws[k - 1] # <<"set-logic">>)

\* How many more p than q there are among the first k of s.
Surplus(s, p, q, k) ==
    Cardinality({j \in 1..k : s[j] = p}) - Cardinality({j \in 1..k : s[j] = q})

WordDepth(ws, k) == Surplus(ws, <<"(">>, <<")">>, k)
Balanced(ws) ==
    /\ \A k \in DOMAIN ws : WordDepth(ws, k) >= 0
    /\ WordDepth(ws, Len(ws)) = 0

\* The printer writes QLIA for the logic of every command that sets one.
Relogicked(ws) ==
    [k \in DOMAIN ws |->
        IF k > 2 /\ k < Len(ws) /\ ws[k - 2] = <<"(">> /\ ws[k - 1] = <<"set-logic">>
              /\ ws[k] \notin {<<"(">>, <<")">>} /\ ws[k + 1] = <<")">>
              /\ WordDepth(ws, k) = 1
        THEN <<"QLIA">> ELSE ws[k]]

\* 1 inside a string, after the first k pieces, else 0.
InString(s) ==
    LET in[k \in 0..Len(s)] ==
            IF k = 0 THEN 0 ELSE IF s[k] = Quote THEN 1 - in[k - 1] ELSE in[k - 1]
    IN  in

\* The parser looks for the end of a string wherever a quote is the first
\* thing, parses no quote elsewhere, and looks at any distance.  In a tidy
\* text these quotes are the ones that begin a string, and it ends before
\* the next parenthesis.
Tidy(s) ==
    /\ \A k \in DOMAIN s :
        /\ InString(s)[k - 1] = 1 => s[k] \notin Parens
        /\ s[k] = Quote /\ InString(s)[k - 1] = 0 =>
                k = 1 \/ s[k - 1] \in Blanks \cup Parens
    /\ InString(s)[Len(s)] = 0

-----------------------------------------------------------------------------
Compared == stage \in {"equal", "unequal"}
Left(s, r) == SubSeq(s, multispace0(s, r.at), Len(s))

\* A tidy script of plain words and closed parentheses is taken as a whole and
\* printed word for word, but for its logics, though the parser wants no
\* blanks between words and looks for prefixes (lib.rs:206, 218, 239).
WordsKept ==
    Compared /\ Plain(Words(sample)) /\ Balanced(Words(sample)) /\ Tidy(contents_) =>
        /\ Left(contents_, a) = <<>>
        /\ Words(Printed(a.val)) = Relogicked(Words(sample))

\* many0 leaves a text alone from a parenthesis that closes nothing, or one
\* that is never closed, and nowhere else (lib.rs:295): what is behind it is
\* neither compared nor missed.
StopsAtImbalance ==
    Compared =>
        LET left == Left(contents_, a)
        IN  left # <<>> =>
                \/ left[1] = ")"
                \/ left[1] = "(" /\ \A k \in DOMAIN left : Surplus(left, "(", ")", k) > 0

\* An exponent at k, behind a number, and no digit in it.
BareExponent(s, k) ==
    /\ s[k] = "e" /\ k > 1 /\ s[k - 1] \in {"1", "."}
    /\ \A j \in {k + 1, k + 2} \cap DOMAIN s :
        s[j] = "1" => j = k + 2 /\ s[k + 1] # "-"

Stray(cmd) == cmd.kind = "Generic" /\ cmd.text[1] # "("

\* There is nothing in front of a last comment without its line break (302).
PartsExplained ==
    stage = "no parts" =>
        sample = <<>> \/ (sample[1] = Remark /\ \A k \in DOMAIN sample : sample[k] # "nl")

\* An exponent has no digits (165).
DigitsExplained ==
    stage = "parse error" => \E k \in DOMAIN contents_ : BareExponent(contents_, k)

\* In a tidy text exec's assertion fails exactly where text stands between two
\* commands outside parentheses (278).  Elsewhere a command that is printed
\* otherwise than it was written can change how one before it is read.
StraysExplained ==
    Tidy(contents_) =>
        /\ stage # "no second parse"
        /\ Compared =>
            (stage = "unequal" <=> \E k \in 1..(Len(a.val) - 1) : Stray(a.val[k]))

\* What reading and printing keep of a tidy script.
TidyScriptsKept == WordsKept /\ StraysExplained

\* A command that was left unknown, or a symbol that begins with a quote, as the
\* first part of a string does that has no end.
Unbroken(tree) == \A k \in DOMAIN tree : tree[k].kind = "Symbol" => tree[k].text[1] # Quote
OddCommand == \E k \in DOMAIN a.val : a.val[k].kind = "Generic" \/ ~Unbroken(a.val[k].tree)

\* A text, tidy or not, whose commands are all known and have whole strings is
\* read again as it was (308-320).
OddsExplained == stage \in {"no second parse", "unequal"} => OddCommand

\* A file makes the program panic for these reasons only.
PanicsExplained == PartsExplained /\ DigitsExplained /\ OddsExplained

\* The assertion of exec (lib.rs:320).
ParsesTheSame == stage # "unequal"
=============================================================================
