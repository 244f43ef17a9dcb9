----------------------------- MODULE SmtScript -----------------------------
(***************************************************************************)
(* SMT-LIB scripts as rmutator's parse tree holds them: a sequence of      *)
(* commands, each with at most one term.  A term is written as the list of *)
(* its nodes in post-order, the order in which the parser exits them; a    *)
(* node knows how many nodes its subtree has.                              *)
(*                                                                         *)
(* A symbol is a pair <<name, index>>.  The names that VarNameGenerator    *)
(* makes are those whose name is "GEN" or "BAV"; a script is free to use   *)
(* them too.                                                               *)
(***************************************************************************)
EXTENDS Integers, Sequences, FiniteSets

CONSTANT Names   \* spellings of symbols, less a trailing number

OpNames == {"<", "=", "or", "and", "not", "+", "true", "false", "forall"}

ASSUME NamesAssumption == OpNames \cup {"GEN", "BAV", ""} \subseteq Names

Symbol == Names \X Nat

\* VarNameGenerator::get_name after its counter became k.
GenName(k) == <<"GEN", k>>
BavName(k) == <<"BAV", k>>

\* A symbol of the language itself: it needs no declaration.
Op(name) == <<name, 0>>
BoolOps == {Op("<"), Op("="), Op("or"), Op("and")}   \* exit_term's patterns
Truth(b) == IF b THEN Op("true") ELSE Op("false")
Builtin == {Op(name) : name \in OpNames}

\* "numeral":  a NUMERAL token that parses as i64
\* "constant": any other spec_constant: decimal, string, #x, #b, or a
\*             numeral beyond i64
\* "symbol":   a qual_identifer, alone or applied to arguments
\* "binder":   forall or exists; `bound' are its variables
\* "named":    (! t :named sym); the node of t comes just before it
Constants == {"numeral", "constant"}

Node == [kind  : Constants \cup {"symbol", "binder", "named"},
         sym   : Symbol,
         size  : Nat \ {0},
         bound : SUBSET Symbol]

\* "global-declarations": (set-option :global-declarations true)
Resets == {"reset", "reset-assertions"}
CommandKinds == Resets \cup
    {"set-logic", "declare", "define", "assert", "check-sat", "push", "pop",
     "exit", "global-declarations", "other"}

\* What a solver takes before its logic is set, besides exit.
Early == {"reset", "global-declarations", "other"}

\* `sym' is what a declare-const/fun or define-fun introduces, `params' the
\* parameters of a define-fun.
Command == [kind   : CommandKinds,
            sym    : Symbol,
            params : SUBSET Symbol,
            term   : Seq(Node)]

IsScript(s) == s \in Seq(Command)

-----------------------------------------------------------------------------
(* Building nodes and commands.                                            *)

Leaf(s) == [kind |-> "symbol", sym |-> s, size |-> 1, bound |-> {}]
Apply(s, n) == [kind |-> "symbol", sym |-> s, size |-> n, bound |-> {}]

Cmd(kind, sym, term) ==
    [kind |-> kind, sym |-> sym, params |-> {}, term |-> term]
NoSym == <<"", 0>>
DeclareConst(s) == Cmd("declare", s, <<>>)
AssertThat(term) == Cmd("assert", NoSym, term)

-----------------------------------------------------------------------------
(* Terms.                                                                  *)

Positions(term) == DOMAIN term

\* The positions of the subtree that ends at i.
SpanOf(term, i) == (i - term[i].size + 1)..i
Subtree(term, i) ==
    [k \in 1..term[i].size |-> term[i - term[i].size + k]]

BoundAt(term, i) ==
    UNION {term[b].bound : b \in {b \in Positions(term) :
                                    i \in SpanOf(term, b)}}

Free(term) ==
    {term[i].sym : i \in {i \in Positions(term) :
        /\ term[i].kind = "symbol"
        /\ term[i].sym \notin Builtin
        /\ term[i].sym \notin BoundAt(term, i)}}

\* The nodes that name a term, and the names.
NamedAt(term) == {i \in Positions(term) : term[i].kind = "named"}
Labels(term) == {term[i].sym : i \in NamedAt(term)}
NamedOnce(term) ==
    \A i, j \in NamedAt(term) : term[i].sym = term[j].sym => i = j

-----------------------------------------------------------------------------
(* Scoping, as a solver reads the script from left to right: pop and the   *)
(* resets end what was said before them.                                   *)

Uses(cmd) == Free(cmd.term) \ cmd.params
Introduces(cmd) ==
    Labels(cmd.term)
    \cup (IF cmd.kind \in {"declare", "define"} THEN {cmd.sym} ELSE {})

Depth(s, i) ==
    Cardinality({j \in 1..i : s[j].kind = "push"})
    - Cardinality({j \in 1..i : s[j].kind = "pop"})

NoReset(s, j, i) == \A m \in j..i : s[m].kind \notin Resets

\* What command j added is still in force just before command i.
Survives(s, j, i) ==
    /\ j < i
    /\ NoReset(s, j, i - 1)
    /\ \A m \in j..(i - 1) : Depth(s, m) >= Depth(s, j)

\* What is added just before command j is still in force just before i.
Kept(s, j, i) ==
    /\ j <= i
    /\ NoReset(s, j, i - 1)
    /\ \A m \in j..(i - 1) : Depth(s, m) >= Depth(s, j - 1)

InForce(s, i) ==
    UNION {Introduces(s[j]) : j \in {j \in DOMAIN s : Survives(s, j, i)}}

Undeclared(s) == UNION {Uses(s[i]) \ InForce(s, i) : i \in DOMAIN s}
Redeclared(s) == UNION {Introduces(s[i]) \cap InForce(s, i) : i \in DOMAIN s}

\* A pop has a push to undo, behind the last reset.
Balanced(s) ==
    \A i \in DOMAIN s : \A k \in 0..i :
        (k = 0 \/ s[k].kind \in Resets) /\ NoReset(s, k + 1, i)
        => Depth(s, i) >= Depth(s, k)

\* set-logic comes first, at the start and behind a reset.
LogicFirst(s) ==
    \A i \in DOMAIN s : \A j \in 1..(i - 1) :
        s[i].kind = "set-logic" /\ s[j].kind \notin Early
        => \E m \in (j + 1)..(i - 1) : s[m].kind = "reset"

\* What a solver accepts, as far as names and levels go.
Legal(s) ==
    /\ \A i \in DOMAIN s : s[i].kind = "assert" => s[i].term # <<>>
    /\ \A i \in DOMAIN s : NamedOnce(s[i].term)
    /\ Balanced(s)
    /\ LogicFirst(s)
    /\ Undeclared(s) = {}
    /\ Redeclared(s) = {}

-----------------------------------------------------------------------------
(* The position after set-logic, and the position of the first check-sat,  *)
(* or one past the end.                                                    *)

Firsts(s, kind) ==
    {i \in DOMAIN s : s[i].kind = kind /\ \A j \in 1..(i - 1) : s[j].kind # kind}

FirstQuery(s) ==
    CHOOSE i \in 1..(Len(s) + 1) :
        IF Firsts(s, "check-sat") = {} THEN i = Len(s) + 1
                                      ELSE i \in Firsts(s, "check-sat")

AfterLogic(s) ==
    CHOOSE i \in 1..(Len(s) + 1) :
        IF Firsts(s, "set-logic") = {} THEN i = 1
                                      ELSE i - 1 \in Firsts(s, "set-logic")

Splice(s, i, t) == SubSeq(s, 1, i - 1) \o t \o SubSeq(s, i, Len(s))
=============================================================================
