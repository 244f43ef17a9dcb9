--------------------------- MODULE ScriptMutation ---------------------------
(***************************************************************************)
(* rmutator's test_file up to the solvers: the parse listener replaces     *)
(* every constant of the script by a generated name and copies every term  *)
(* whose operator is one of exit_term's; then the declarations, one        *)
(* equation per copied term and a place for the truth assertion are        *)
(* inserted; then the loop body overwrites that place, once per assignment *)
(* of truth values to the copied terms.                                    *)
(*                                                                         *)
(* The parser calls exit_term while it parses, so the terms come in        *)
(* post-order, command by command.                                         *)
(*                                                                         *)
(* The operators whose names start with Bad are programming errors; the    *)
(* checks are shown to catch them.                                         *)
(***************************************************************************)
EXTENDS SmtScript, SequencesExt

CONSTANT Scripts   \* the sample files, as scripts the parser accepts

ASSUME ScriptsAssumption ==
    /\ \A s \in Scripts : IsScript(s)
    /\ \A s \in Scripts : \A c \in DOMAIN s : \A n \in DOMAIN s[c].term :
         /\ s[c].term[n].size <= n
         /\ s[c].term[n].kind \in Constants => s[c].term[n].size = 1
         /\ \A m \in SpanOf(s[c].term, n) :
              SpanOf(s[c].term, m) \subseteq SpanOf(s[c].term, n)

VARIABLES
    source,      \* the sample file; nothing writes it
    script,      \* the parse tree, edited in place
    cmd, node,   \* where the parser is: node `node' of command `cmd' is next
    counter,     \* Listener.vng.counter
    newVars,     \* the keys of Listener.new_vars; their type is always Int
    bexps,       \* Listener.bexps
    phase,       \* the statement test_file is at
    startAt,     \* start_insertion_point, counted from 1
    endAt,       \* end_insertion_point, counted from 1
    values       \* truth_values

vars == <<source, script, cmd, node, counter, newVars, bexps, phase,
          startAt, endAt, values>>

-----------------------------------------------------------------------------
NumBavs == Len(bexps)                           \* bav_names.len()
Assignments == [1..NumBavs -> BOOLEAN]

GenNames == {GenName(k) : k \in 1..counter}
BavNames == {BavName(k) : k \in 1..NumBavs}

\* (declare-const k Int) and (declare-const k Bool).  new_vars is a
\* BTreeMap: its keys come in some order fixed by the names.
Decls ==
    [k \in 1..Cardinality(newVars) |-> DeclareConst(SetToSeq(newVars)[k])]
    \o [k \in 1..NumBavs |-> DeclareConst(BavName(k))]

\* The names are paired with the terms in the opposite order.
BadBavInit(k) ==
    LET t == bexps[NumBavs + 1 - k]
    IN  AssertThat(<<Leaf(BavName(k))>> \o t \o <<Apply(Op("="), Len(t) + 2)>>)

\* (assert (= BAVk t))
BavInit(k) ==
    AssertThat(<<Leaf(BavName(k))>> \o bexps[k]
           \o <<Apply(Op("="), Len(bexps[k]) + 2)>>)
Inits == [k \in 1..NumBavs |-> BavInit(k)]

\* bam_string stops one name early.
BadBamTerm(f) ==
    LET n == Len(f) - 1
        Equation(k, j) == CASE j = 0 -> Leaf(BavName(k))
                            [] j = 1 -> Leaf(Truth(f[k]))
                            [] j = 2 -> Apply(Op("="), 3)
    IN  [i \in 1..(4 * n) |->
            IF i <= 3 * n THEN Equation(((i - 1) \div 3) + 1, (i - 1) % 3)
                          ELSE Apply(Op("and"), 4 * (i - 3 * n))]

\* bam_string: (and (= BAV1 v1) (and (= BAV2 v2) ... (and (= BAVn vn) ))),
\* and nothing at all for no names.
BamTerm(f) ==
    LET n == Len(f)
        Equation(k, j) == CASE j = 0 -> Leaf(BavName(k))
                            [] j = 1 -> Leaf(Truth(f[k]))
                            [] j = 2 -> Apply(Op("="), 3)
    IN  [i \in 1..(4 * n) |->
            IF i <= 3 * n THEN Equation(((i - 1) \div 3) + 1, (i - 1) % 3)
                          ELSE Apply(Op("and"), 4 * (i - 3 * n))]

\* An insertion loop puts each item at the same index, so the last ends up
\* first.
InsertEach(s, at, items) == Splice(s, at, Reverse(items))

-----------------------------------------------------------------------------
Init ==
    /\ source \in Scripts
    /\ script = source
    /\ cmd = 1 /\ node = 1
    /\ counter = 0
    /\ newVars = {}
    /\ bexps = <<>>
    /\ phase = "parse"
    /\ startAt = 0 /\ endAt = 0
    /\ values = <<>>

\* The parser leaves a term: exit_term.
Parsing == phase = "parse" /\ cmd <= Len(script)
Current == script[cmd].term[node]

\* The root of the term is replaced in place of the constant.
BadReplaced(k) ==
    [script EXCEPT ![cmd].term[Len(script[cmd].term)] = Leaf(GenName(k))]

Replaced(k) == [script EXCEPT ![cmd].term[node] = Leaf(GenName(k))]

\* A name for the declaration that is one behind.
BadDeclaration ==
    /\ Current.kind \in Constants
    /\ counter' = counter + 1
    /\ newVars' = IF Current.kind = "numeral"
                  THEN newVars \cup {GenName(counter)} ELSE newVars
    /\ script' = Replaced(counter + 1)
    /\ UNCHANGED bexps

\* get_name does not keep the counter.
BadCounter ==
    /\ Current.kind \in Constants
    /\ newVars' = IF Current.kind = "numeral"
                  THEN newVars \cup {GenName(counter + 1)} ELSE newVars
    /\ script' = Replaced(counter + 1)
    /\ UNCHANGED <<counter, bexps>>

\* Every constant is declared, as an Int.
BadSort ==
    /\ Current.kind \in Constants
    /\ counter' = counter + 1
    /\ newVars' = newVars \cup {GenName(counter + 1)}
    /\ script' = Replaced(counter + 1)
    /\ UNCHANGED bexps

ReplaceConstant ==
    /\ Current.kind \in Constants
    /\ counter' = counter + 1
    /\ newVars' = IF Current.kind = "numeral"
                  THEN newVars \cup {GenName(counter + 1)} ELSE newVars
    /\ script' = Replaced(counter + 1)
    /\ UNCHANGED bexps

\* The term is copied as it was when the parser entered it.
BadCopyTerm ==
    /\ Current.kind = "symbol"
    /\ Current.sym \in BoolOps
    /\ bexps' = Append(bexps, Subtree(source[cmd].term, node))
    /\ UNCHANGED <<counter, newVars, script>>

CopyTerm ==
    /\ Current.kind = "symbol"
    /\ Current.sym \in BoolOps
    /\ bexps' = Append(bexps, Subtree(script[cmd].term, node))
    /\ UNCHANGED <<counter, newVars, script>>

LeaveAlone ==
    /\ Current.kind \notin Constants
    /\ Current.kind = "symbol" => Current.sym \notin BoolOps
    /\ UNCHANGED <<counter, newVars, script, bexps>>

ExitTerm ==
    /\ Parsing
    /\ node <= Len(script[cmd].term)
    /\ ReplaceConstant \/ CopyTerm \/ LeaveAlone
    /\ node' = node + 1
    /\ UNCHANGED <<source, cmd, phase, startAt, endAt, values>>

\* script() goes on to the next command.
NextCommand ==
    /\ Parsing
    /\ node > Len(script[cmd].term)
    /\ cmd' = cmd + 1
    /\ node' = 1
    /\ UNCHANGED <<source, script, counter, newVars, bexps, phase, startAt,
                   endAt, values>>

\* Behind set-logic, or first of all.
BadStart(s) == 1
StartInsertionPoint(s) == AfterLogic(s)

\* Before the first check-sat, or last of all.
BadEnd(s) == Len(s) + 1
EndInsertionPoint(s) == FirstQuery(s)

\* script() has returned: locate set-logic and insert the declarations.
InsertDecls ==
    /\ phase = "parse"
    /\ cmd > Len(script)
    /\ startAt' = StartInsertionPoint(script)
    /\ script' = InsertEach(script, startAt', Decls)
    /\ phase' = "decls"
    /\ UNCHANGED <<source, cmd, node, counter, newVars, bexps, endAt, values>>

\* Locate check-sat in the longer script, insert the equations, then the
\* placeholder in front of them.
InsertInits ==
    /\ phase = "decls"
    /\ endAt' = EndInsertionPoint(script)
    /\ script' = InsertEach(script, endAt',
                            Append(Inits, AssertThat(<<Leaf(Op("true"))>>)))
    /\ phase' = "loop"
    /\ UNCHANGED <<source, cmd, node, counter, newVars, bexps, startAt, values>>

\* The loop body, up to writing the script to a file.
SetAssertion(f) ==
    /\ phase \in {"loop", "ready"}
    /\ values' = f
    /\ script' = [script EXCEPT ![endAt] = AssertThat(BamTerm(f))]
    /\ phase' = "ready"
    /\ UNCHANGED <<source, cmd, node, counter, newVars, bexps, startAt, endAt>>

Next ==
    \/ ExitTerm
    \/ NextCommand
    \/ InsertDecls
    \/ InsertInits
    \/ \E f \in Assignments : SetAssertion(f)

Spec == Init /\ [][Next]_vars

-----------------------------------------------------------------------------
(* Which nodes the parser has left, and what it found there.               *)

Exited(c, n) == c < cmd \/ (c = cmd /\ n < node)
Nodes(s) == UNION {{c} \X DOMAIN s[c].term : c \in DOMAIN s}
ExitedNodes == {p \in Nodes(source) : Exited(p[1], p[2])}

NodeAt(s, p) == s[p[1]].term[p[2]]
SubtreeAt(s, p) == Subtree(s[p[1]].term, p[2])
IsConstant(s, p) == NodeAt(s, p).kind \in Constants
IsBoolOp(s, p) == NodeAt(s, p).kind = "symbol" /\ NodeAt(s, p).sym \in BoolOps

TypeOK ==
    /\ source \in Scripts
    /\ IsScript(script)
    /\ cmd \in 1..(Len(source) + 1)
    /\ node \in Nat \ {0}
    /\ counter \in Nat
    /\ newVars \subseteq GenNames
    /\ bexps \in Seq(Seq(Node))
    /\ phase \in {"parse", "decls", "loop", "ready"}
    /\ startAt \in Nat /\ endAt \in Nat
    /\ values \in Seq(BOOLEAN)

\* While parsing, the tree differs from the file in the constants the parser
\* has left, and in nothing else (lib.rs:310-321).
OnlyConstantsReplaced ==
    phase = "parse" =>
        /\ DOMAIN script = DOMAIN source
        /\ \A c \in DOMAIN source :
             /\ DOMAIN script[c].term = DOMAIN source[c].term
             /\ script[c] = [source[c] EXCEPT !.term = script[c].term]
             /\ \A n \in DOMAIN source[c].term :
                  IF Exited(c, n) /\ IsConstant(source, <<c, n>>)
                  THEN \E k \in 1..counter :
                          script[c].term[n] = Leaf(GenName(k))
                  ELSE script[c].term[n] = source[c].term[n]

\* No two constants get the same name (lib.rs:289-292, 313).
ConstantsKeptApart ==
    phase = "parse" =>
        \A p, q \in ExitedNodes :
            /\ IsConstant(source, p) /\ IsConstant(source, q)
            /\ NodeAt(script, p) = NodeAt(script, q)
            => p = q

\* The names to declare are those of the integer constants: a decimal, a
\* string or a numeral that overflows gets a name but no declaration
\* (lib.rs:314-317).
NumeralsDeclared ==
    phase = "parse" =>
        newVars = {NodeAt(script, p).sym :
                     p \in {p \in ExitedNodes : NodeAt(source, p).kind = "numeral"}}

\* A copied term is what stands in the tree, constants replaced: exit_term
\* runs when the term's own constants have been replaced (lib.rs:324-335).
CopiesInPlace ==
    phase = "parse" =>
        ToSet(bexps) = {SubtreeAt(script, p) :
                          p \in {p \in ExitedNodes : IsBoolOp(source, p)}}

\* The inductive invariant of the proofs.
IInv ==
    /\ TypeOK
    /\ OnlyConstantsReplaced
    /\ ConstantsKeptApart
    /\ NumeralsDeclared
    /\ CopiesInPlace
=============================================================================
