-------------------------- MODULE MCScriptMeaning --------------------------
(***************************************************************************)
(* Samples for ScriptMeaning: every legal script of at most MaxLen         *)
(* commands from a menu, and some longer ones.                             *)
(***************************************************************************)
EXTENDS ScriptMeaning

MCNames == OpNames \cup {"GEN", "BAV", "", "x", "y", "f", "a",
                      "#", "1.5"}

X == <<"x", 0>>
Y == <<"y", 0>>
F == <<"f", 0>>
A == <<"a", 0>>

Num(v) == [kind |-> "numeral", sym |-> <<"#", v>>, size |-> 1, bound |-> {}]
Decimal == [kind |-> "constant", sym |-> <<"1.5", 0>>, size |-> 1, bound |-> {}]
Forall(s, n) == [kind |-> "binder", sym |-> Op("forall"), size |-> n,
                 bound |-> {s}]

\* (< x 1), (or (= x 0) (< 1 x)), (not (< x 1.5)), (forall ((y Int)) (< y x)),
\* (forall ((x Int)) (< x 1))
Less == <<Leaf(X), Num(1), Apply(Op("<"), 3)>>
Either == <<Leaf(X), Num(0), Apply(Op("="), 3),
            Num(1), Leaf(X), Apply(Op("<"), 3), Apply(Op("or"), 7)>>
Equal == <<Leaf(X), Num(0), Apply(Op("="), 3)>>
NotLess == <<Leaf(X), Decimal, Apply(Op("<"), 3), Apply(Op("not"), 4)>>
AllY == <<Leaf(Y), Leaf(X), Apply(Op("<"), 3), Forall(Y, 4)>>
AllX == <<Leaf(X), Num(1), Apply(Op("<"), 3), Forall(X, 4)>>

\* (! (< x 1) :named a), (and (! (< x 1) :named a)), (or a) and
\* (or (! (and (! (= x 0) :named a)) :named f))
Named(s, n) == [kind |-> "named", sym |-> s, size |-> n, bound |-> {}]
NamedLess == Append(Less, Named(A, 4))
NamedPart == Append(NamedLess, Apply(Op("and"), 5))
UsesName == <<Leaf(A), Apply(Op("or"), 2)>>
NamedTwice == Equal \o <<Named(A, 4), Apply(Op("and"), 5), Named(F, 6),
                         Apply(Op("or"), 7)>>

SetLogic == Cmd("set-logic", NoSym, <<>>)
SetInfo == Cmd("other", NoSym, <<>>)
CheckSat == Cmd("check-sat", NoSym, <<>>)
Push == Cmd("push", NoSym, <<>>)
Pop == Cmd("pop", NoSym, <<>>)
Reset == Cmd("reset", NoSym, <<>>)
ResetAssertions == Cmd("reset-assertions", NoSym, <<>>)
Exit == Cmd("exit", NoSym, <<>>)
\* (define-fun f ((y Int)) Bool (< y 1))
DefineF == [kind |-> "define", sym |-> F, params |-> {Y},
            term |-> <<Leaf(Y), Num(1), Apply(Op("<"), 3)>>]

Menu == {SetLogic, DeclareConst(X), CheckSat, Push, Pop, DefineF,
         AssertThat(Less), AssertThat(Either), AssertThat(AllY)}

\* For resets and for names.
ResetMenu == {SetLogic, DeclareConst(X), CheckSat, Push, Reset, ResetAssertions,
              AssertThat(Less)}
NameMenu == {DeclareConst(X), CheckSat, Push, Pop, ResetAssertions, AssertThat(NamedLess),
             AssertThat(NamedPart), AssertThat(UsesName)}

CONSTANTS MaxLen,    \* commands of a sample
          MaxSize    \* commands and boolean operations of a sample, together

OpsOf(term) ==
    Cardinality({i \in DOMAIN term :
                    term[i].kind = "symbol" /\ term[i].sym \in BoolOps})
OpsIn(s) == FoldFunction(LAMBDA c, n : OpsOf(c.term) + n, 0, s)

ScriptsOf(menu) ==
    {s \in UNION {[1..n -> menu] : n \in 1..MaxLen} :
        Len(s) + OpsIn(s) <= MaxSize /\ Legal(s)}
Declaring(scripts) == {s \in scripts : s[1] = DeclareConst(X)}

Special ==
    {<<SetInfo, SetLogic, DeclareConst(X), AssertThat(NotLess), CheckSat>>,
     <<DeclareConst(X), AssertThat(AllX), CheckSat>>,
     <<AssertThat(AllX), CheckSat>>,
     <<SetInfo, SetLogic, DeclareConst(X), Push, AssertThat(Less), Pop,
       AssertThat(Either), CheckSat>>,
     <<DeclareConst(X), CheckSat, AssertThat(Less), CheckSat>>,
     <<SetLogic, DeclareConst(X), AssertThat(Less), Push,
       AssertThat(Equal), CheckSat, Pop, CheckSat>>,
     <<DeclareConst(X), AssertThat(NamedTwice), CheckSat, Exit>>,
     <<DeclareConst(X), Push, AssertThat(NamedTwice), Pop, CheckSat>>,
     <<DeclareConst(X), CheckSat, Push, AssertThat(NamedPart), Pop, DefineF>>,
     <<DeclareConst(X), Push, AssertThat(NamedLess), AssertThat(UsesName), Pop,
       Push, AssertThat(NamedPart), Pop, CheckSat>>,
     <<Push, Reset, SetLogic, DeclareConst(X), AssertThat(Less), CheckSat,
       Reset, SetLogic, CheckSat>>,
     <<DeclareConst(X), AssertThat(Less), CheckSat, Push, ResetAssertions,
       DeclareConst(X), AssertThat(Equal), CheckSat, Exit>>}

\* (declare-const GEN1 Int) (assert (< GEN1 1)) (check-sat), and with BAV1:
\* variants that are fed back as samples; and the same with a reset.
FedBack(name) ==
    <<DeclareConst(name),
      AssertThat(<<Leaf(name), Num(1), Apply(Op("<"), 3)>>), CheckSat>>

MenuSamples ==
    ScriptsOf(Menu) \cup Declaring(ScriptsOf(ResetMenu))
    \cup Declaring(ScriptsOf(NameMenu)) \cup Special
    \cup UNION {{FedBack(name), Append(FedBack(name), ResetAssertions)} :
                  name \in {GenName(1), BavName(1)}}
=============================================================================
