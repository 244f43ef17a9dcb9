--------------------------- MODULE ScriptMeaning ---------------------------
(***************************************************************************)
(* What the variants that ScriptMutation writes mean to a solver, stated   *)
(* against the sample file and not against the edits.                      *)
(***************************************************************************)
EXTENDS ScriptMutation, SmtSemantics

Query == FirstQuery(source)

SourceConstants == {p \in Nodes(source) : IsConstant(source, p)}
SourceBools == {p \in Nodes(source) : IsBoolOp(source, p)}

\* The order in which the parser leaves the nodes, and the k-th of some nodes.
Before(p, q) == p[1] < q[1] \/ (p[1] = q[1] /\ p[2] < q[2])
Number(p, S) == Cardinality({q \in S : Before(q, p)}) + 1
Nth(S, k) == CHOOSE p \in S : Number(p, S) = k

SourceNames == UNION {Introduces(source[i]) : i \in DOMAIN source}

Unsupported ==
    \E p \in Nodes(source) : NodeAt(source, p).kind = "constant"

\* The declarations, which go behind set-logic, are in force before command c.
Reached(c) == Kept(source, AfterLogic(source), c)

\* The names a copied term needs are in force where its equation goes: behind
\* the equations of the later boolean operations.
LabelsOf(p) == Labels(SubtreeAt(source, p))
Liftable(p) ==
    Free(SubtreeAt(source, p)) \subseteq
        InForce(source, Query)
        \cup UNION {LabelsOf(q) : q \in {q \in SourceBools : Before(p, q)}}

\* The names a copied term gives are not given there already, nor by another
\* copy, nor again while the copy is in force.
Nameable(p) ==
    /\ LabelsOf(p) \cap InForce(source, Query) = {}
    /\ \A q \in SourceBools \ {p} : LabelsOf(p) \cap LabelsOf(q) = {}
    /\ \A c \in Query..Len(source) :
         Kept(source, Query, c) => LabelsOf(p) \cap Introduces(source[c]) = {}

\* A sample a solver accepts, with nothing to print before its set-logic, no
\* declarations made global, nothing behind an exit, and no quantifier or
\* parameter named like a name made up for it.  A sample may declare such a
\* name, but not the one that an unsupported constant gets, and not if it
\* resets.
BoundNames(c) == source[c].params \cup UNION {n.bound : n \in ToSet(source[c].term)}
Ordinary ==
    /\ Legal(source)
    /\ \A c \in 1..(AfterLogic(source) - 1) : source[c].term = <<>>
    /\ \A c \in DOMAIN source :
         /\ source[c].kind # "global-declarations"
         /\ source[c].kind = "exit" => Query < c /\ c = Len(source)
         /\ BoundNames(c) \cap (GenNames \cup BavNames) = {}
    /\ SourceNames \cap (GenNames \ newVars) = {}
    /\ \/ SourceNames \cap (GenNames \cup BavNames) = {}
       \/ NoReset(source, 1, Len(source))

\* A variant is a script the solvers accept exactly when the sample has no
\* decimal, string, bit-vector or huge constant, has a boolean operation at
\* all, and
\*   - every boolean operation speaks of names that are in force at the first
\*     check-sat: none is under a quantifier it depends on, in a define-fun's
\*     body, behind a pop, before a reset, or after that check-sat;
\*   - none has a part with a :named attribute, unless that name is out of
\*     force where the copies are and no other operation has it: exit_term
\*     copies the attribute with the term;
\*   - the sample does not itself declare a name that is made up for it, as a
\*     variant fed back as a sample does;
\*   - no reset comes between the declarations behind set-logic and the first
\*     check-sat or a constant.
\* In particular nothing is inserted before set-logic or before a declaration
\* it needs (lib.rs:79-152, 291, 324-335).
AcceptedExactly ==
    phase = "ready" /\ Ordinary =>
        (Legal(script) <=>
            /\ ~Unsupported
            /\ SourceBools # {}
            /\ \A p \in SourceBools : Liftable(p) /\ Nameable(p)
            /\ SourceNames \cap (GenNames \cup BavNames) = {}
            /\ Reached(Query)
            /\ \A p \in SourceConstants : Reached(p[1]))

-----------------------------------------------------------------------------
Interpreted == \A i \in DOMAIN source : source[i].kind # "define"
Meaningful == phase = "ready" /\ Legal(script) /\ Interpreted

SymbolsOf(term) ==
    {term[i].sym : i \in {i \in DOMAIN term : term[i].kind = "symbol"}}
    \cup UNION {term[i].bound : i \in DOMAIN term}
Unknowns == (UNION {SymbolsOf(source[i].term) : i \in DOMAIN source}) \ Builtin

\* The sample has no name that is made up for it, not even under a quantifier,
\* and the domain has its constants.
Fresh ==
    /\ Unknowns \cap (GenNames \cup BavNames) = {}
    /\ \A p \in SourceConstants : NodeAt(source, p).sym[2] \in Domain

\* The constants of the sample as values of the names they were given: the
\* k-th name is that of the k-th constant.
Originals ==
    [s \in GenNames |-> NodeAt(source, Nth(SourceConstants, s[2])).sym[2]]

\* The truth value of every boolean operation of the sample.
Profile(env) ==
    [k \in 1..Cardinality(SourceBools) |->
        Value(SubtreeAt(source, Nth(SourceBools, k)), env) = 1]

\* Extending an environment with values for the copied terms' names.
Accepts(env) ==
    \E b \in Environments(BavNames) :
        Satisfies(Extended(env, b), script, FirstQuery(script))

\* Give the generated names the values of the constants they replaced: the
\* models of the variant are those models of the sample in which its boolean
\* operations have the truth values of this variant.  So over all variants no
\* model is lost and none is found twice (lib.rs:79-88, 142-168, 227-238).
OriginalRecovered ==
    Meaningful /\ Fresh =>
        \A env \in Environments(Unknowns) :
            Accepts(Extended(env, Originals))
            <=> /\ Satisfies(env, source, Query)
                /\ Profile(env) = values

\* Whatever values the generated names take, the variant with these truth
\* values has a model only if its boolean operations can take them: each
\* environment is a model of at most one variant, the one whose truth values
\* are those of the terms in the tree.
VariantsDisjoint ==
    Meaningful =>
        \A env \in Environments(Unknowns \cup GenNames) :
            Accepts(env) => \A k \in 1..NumBavs : (Value(bexps[k], env) = 1) = values[k]

\* The first query of a variant is made under the truth assertion and every
\* equation; a later one still is, unless the sample resets or pops the level
\* on which its first query was made (lib.rs:137-152, 168).
QueriesConstrained ==
    phase = "ready" =>
        \A q \in DOMAIN script :
            (/\ script[q].kind = "check-sat"
             /\ Survives(script, FirstQuery(script), q + 1))
            => \A k \in 0..NumBavs : Survives(script, endAt + k, q)

-----------------------------------------------------------------------------
(* Where the parts of a variant are, from the moment the parser is done.   *)

Unsplice(s, i, n) == SubSeq(s, 1, i - 1) \o SubSeq(s, i + n, Len(s))

\* The script before the equations came, and before the declarations did.
BeforeInits ==
    IF phase \in {"loop", "ready"} THEN Unsplice(script, endAt, NumBavs + 1)
                                  ELSE script
BeforeDecls ==
    IF phase = "parse" THEN script
                       ELSE Unsplice(BeforeInits, startAt, Len(Decls))

\* What the parser has made of the sample when it returns.
Parsed(s) ==
    /\ s \in Seq(Command)
    /\ DOMAIN s = DOMAIN source
    /\ \A c \in DOMAIN source :
         /\ DOMAIN s[c].term = DOMAIN source[c].term
         /\ s[c] = [source[c] EXCEPT !.term = s[c].term]
    /\ \A p \in Nodes(source) :
         IF IsConstant(source, p)
         THEN \E k \in 1..counter : NodeAt(s, p) = Leaf(GenName(k))
         ELSE NodeAt(s, p) = NodeAt(source, p)
    /\ \A p, q \in Nodes(source) :
         /\ IsConstant(source, p) /\ IsConstant(source, q)
         /\ NodeAt(s, p) = NodeAt(s, q)
         => p = q
    /\ newVars = {NodeAt(s, p).sym :
                    p \in {p \in Nodes(source) : NodeAt(source, p).kind = "numeral"}}
    /\ ToSet(bexps) = {SubtreeAt(s, p) :
                         p \in {p \in Nodes(source) : IsBoolOp(source, p)}}

\* The parsed sample with the declarations behind set-logic, and the
\* placeholder, or the truth assertion, and the equations before the first
\* check-sat.
Built ==
    /\ phase # "parse" =>
         /\ Parsed(BeforeDecls)
         /\ startAt = AfterLogic(BeforeDecls)
         /\ BeforeInits = InsertEach(BeforeDecls, startAt, Decls)
    /\ phase \in {"loop", "ready"} =>
         /\ endAt = FirstQuery(BeforeInits) /\ endAt \in DOMAIN script
         /\ script[endAt] = AssertThat(script[endAt].term)
         /\ script = InsertEach(BeforeInits, endAt, Append(Inits, script[endAt]))
    /\ phase = "ready" =>
         /\ values \in Assignments
         /\ script[endAt].term = BamTerm(values)

\* The k-th constant got the k-th name, and the k-th boolean operation is the
\* k-th copy.
Numbered ==
    /\ phase # "parse" => cmd > Len(source)
    /\ counter = Cardinality(SourceConstants \cap ExitedNodes)
    /\ NumBavs = Cardinality(SourceBools \cap ExitedNodes)
    /\ \A p \in SourceConstants \cap ExitedNodes :
         NodeAt(BeforeDecls, p) = Leaf(GenName(Number(p, SourceConstants)))
    /\ \A p \in SourceBools \cap ExitedNodes :
         bexps[Number(p, SourceBools)] = SubtreeAt(BeforeDecls, p)
=============================================================================
