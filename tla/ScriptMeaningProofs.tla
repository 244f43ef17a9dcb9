------------------------ MODULE ScriptMeaningProofs ------------------------
(***************************************************************************)
(* What test_file does to a script, for every set of samples.              *)
(*                                                                         *)
(* The parse listener edits the tree: only constants are replaced, by      *)
(* names that are all different, the integer ones are the ones to declare, *)
(* and the copied terms are those that stand in the tree.                  *)
(*                                                                         *)
(* Then where the parts of a variant are, that its first query is made     *)
(* under all of them, which variants a solver accepts, that no two         *)
(* variants have a model in common, and that the models of all variants    *)
(* together are those of the sample.                                       *)
(***************************************************************************)
EXTENDS ScriptMeaning, FiniteSetTheorems, SequenceTheorems, WellFoundedInduction, TLAPS

-----------------------------------------------------------------------------
(* The pieces of a script have their types.                                *)

\* A leaf or an application is a node.
LEMMA LeafType ==
    ASSUME NEW s \in Symbol
    PROVE  /\ Leaf(s) \in Node
           /\ \A n \in Nat \ {0} : Apply(s, n) \in Node
  BY DEF Leaf, Apply, Node

\* The names that VarNameGenerator makes are symbols.
LEMMA NameType ==
    ASSUME NEW k \in Nat
    PROVE  GenName(k) \in Symbol /\ BavName(k) \in Symbol
  BY NamesAssumption DEF GenName, BavName, Symbol

\* The operators and truth values that are printed are symbols.
LEMMA OpType ==
    /\ Op("=") \in Symbol /\ Op("and") \in Symbol /\ Op("true") \in Symbol
    /\ \A b \in BOOLEAN : Truth(b) \in Symbol
  BY NamesAssumption DEF Op, OpNames, Truth, Symbol

\* A subtree that fits in its term is a term.
LEMMA SubtreeType ==
    ASSUME NEW term \in Seq(Node), NEW i \in DOMAIN term, term[i].size <= i
    PROVE  Subtree(term, i) \in Seq(Node)
  <1>1. term \in [1..Len(term) -> Node] /\ Len(term) \in Nat
    BY LenProperties
  <1>2. term[i] \in Node
    BY <1>1
  <1>3. term[i].size \in Nat \ {0}
    BY <1>2 DEF Node
  <1> DEFINE w == term[i].size
  <1>4. \A k \in 1..w : i - w + k \in 1..Len(term)
    BY <1>1, <1>3
  <1>5. \A k \in 1..w : term[i - w + k] \in Node
    BY <1>1, <1>4
  <1>6. [k \in 1..w |-> term[i - w + k]] \in [1..w -> Node]
    BY <1>5
  <1>7. w \in Nat
    BY <1>3
  <1> HIDE DEF w
  <1>8. [k \in 1..w |-> term[i - w + k]] \in Seq(Node)
    BY <1>6, <1>7
  <1> QED
    BY <1>8 DEF Subtree, w

\* cmd_from parses a declaration or an assertion to a command.
LEMMA CommandType ==
    /\ \A s \in Symbol : DeclareConst(s) \in Command
    /\ \A t \in Seq(Node) : AssertThat(t) \in Command
  <1>1. NoSym \in Symbol
    BY NamesAssumption DEF NoSym, Symbol
  <1>2. <<>> \in Seq(Node)
    OBVIOUS
  <1>3. ASSUME NEW s \in Symbol PROVE DeclareConst(s) \in Command
    BY <1>2 DEF DeclareConst, Cmd, Command, CommandKinds
  <1>4. ASSUME NEW t \in Seq(Node) PROVE AssertThat(t) \in Command
    BY <1>1 DEF AssertThat, Cmd, Command, CommandKinds
  <1> QED
    BY <1>3, <1>4

\* Inserting commands into a script yields a script.
LEMMA InsertType ==
    ASSUME NEW s \in Seq(Command), NEW t \in Seq(Command),
           NEW i \in 1..(Len(s) + 1)
    PROVE  InsertEach(s, i, t) \in Seq(Command)
  <1>1. Reverse(t) \in Seq(Command)
    BY DEF Reverse
  <1>2. SubSeq(s, 1, i - 1) \in Seq(Command)
    BY SubSeqProperties
  <1>3. SubSeq(s, i, Len(s)) \in Seq(Command)
    BY SubSeqProperties
  <1> QED
    BY <1>1, <1>2, <1>3 DEF InsertEach, Splice

\* set-logic and check-sat are looked for within the script.
LEMMA InsertionPoints ==
    ASSUME NEW s \in Seq(Command)
    PROVE  AfterLogic(s) \in 1..(Len(s) + 1) /\ FirstQuery(s) \in 1..(Len(s) + 1)
  <1>1. \A kind : Firsts(s, kind) \subseteq 1..Len(s)
    BY DEF Firsts
  <1>2. AfterLogic(s) \in 1..(Len(s) + 1)
    <2>1. \E i \in 1..(Len(s) + 1) :
             IF Firsts(s, "set-logic") = {} THEN i = 1
                                            ELSE i - 1 \in Firsts(s, "set-logic")
      <3>1. CASE Firsts(s, "set-logic") = {}
        BY <3>1
      <3>2. CASE Firsts(s, "set-logic") # {}
        <4>1. PICK j \in 1..Len(s) : j \in Firsts(s, "set-logic")
          BY <1>1, <3>2
        <4>2. j + 1 \in 1..(Len(s) + 1) /\ (j + 1) - 1 = j
          OBVIOUS
        <4> QED  BY <3>2, <4>1, <4>2
      <3> QED  BY <3>1, <3>2
    <2> QED  BY <2>1 DEF AfterLogic
  <1>3. FirstQuery(s) \in 1..(Len(s) + 1)
    <2>1. \E i \in 1..(Len(s) + 1) :
             IF Firsts(s, "check-sat") = {} THEN i = Len(s) + 1
                                            ELSE i \in Firsts(s, "check-sat")
      <3>1. CASE Firsts(s, "check-sat") = {}
        BY <3>1
      <3>2. CASE Firsts(s, "check-sat") # {}
        <4>1. PICK j \in 1..Len(s) : j \in Firsts(s, "check-sat")
          BY <1>1, <3>2
        <4> QED  BY <3>2, <4>1
      <3> QED  BY <3>1, <3>2
    <2> QED  BY <2>1 DEF FirstQuery
  <1> QED  BY <1>2, <1>3

\* The declarations are commands.
LEMMA DeclsType ==
    ASSUME TypeOK
    PROVE  Decls \in Seq(Command)
  <1>1. newVars \subseteq Symbol
    BY NameType DEF TypeOK, GenNames
  <1>2. IsFiniteSet(newVars)
    <2>1. IsFiniteSet(1..counter)
      BY FS_Interval DEF TypeOK
    <2> DEFINE g == [k \in 1..counter |-> GenName(k)]
    <2>2. g \in Surjection(1..counter, GenNames)
      BY DEF GenNames, Surjection
    <2>3. IsFiniteSet(GenNames)
      BY <2>1, <2>2, FS_Surjection
    <2> QED  BY <2>3, FS_Subset DEF TypeOK
  <1> DEFINE n == Cardinality(newVars)
  <1>3. n \in Nat
    BY <1>2, FS_CardinalityType
  <1>4. SetToSeq(newVars) \in [1..n -> newVars]
    <2>1. PICK f \in Bijection(1..n, newVars) : TRUE
      <3>1. PICK m \in Nat : ExistsBijection(1..m, newVars)
        BY <1>2, FS_NatBijection
      <3>2. m = n
        BY <3>1, FS_CountingElements
      <3> QED  BY <3>1, <3>2 DEF ExistsBijection
    <2>2. f \in [1..n -> newVars] /\ IsInjective(f)
      BY <2>1 DEF Bijection, Injection, IsInjective
    <2> QED  BY <2>2 DEF SetToSeq
  <1> HIDE DEF n
  <1>5. \A k \in 1..n : DeclareConst(SetToSeq(newVars)[k]) \in Command
    BY <1>1, <1>4, CommandType
  <1>6. [k \in 1..n |-> DeclareConst(SetToSeq(newVars)[k])] \in Seq(Command)
    BY <1>3, <1>5
  <1>7. NumBavs \in Nat
    BY DEF NumBavs, TypeOK
  <1>8. \A k \in 1..NumBavs : DeclareConst(BavName(k)) \in Command
    BY <1>7, NameType, CommandType
  <1>9. [k \in 1..NumBavs |-> DeclareConst(BavName(k))] \in Seq(Command)
    BY <1>7, <1>8
  <1> QED
    BY <1>6, <1>9 DEF Decls, n

\* The equations are commands.
LEMMA InitsType ==
    ASSUME TypeOK
    PROVE  Inits \in Seq(Command)
  <1>1. NumBavs \in Nat /\ \A k \in 1..NumBavs : bexps[k] \in Seq(Node)
    BY DEF NumBavs, TypeOK
  <1>2. ASSUME NEW k \in 1..NumBavs PROVE BavInit(k) \in Command
    <2>1. Leaf(BavName(k)) \in Node
      BY <1>1, LeafType, NameType
    <2>2. Len(bexps[k]) \in Nat
      BY <1>1
    <2>3. Apply(Op("="), Len(bexps[k]) + 2) \in Node
      BY <2>2, LeafType, OpType
    <2>4. <<Leaf(BavName(k))>> \o bexps[k]
            \o <<Apply(Op("="), Len(bexps[k]) + 2)>> \in Seq(Node)
      BY <1>1, <2>1, <2>3
    <2> QED  BY <2>4, CommandType DEF BavInit
  <1> QED
    BY <1>1, <1>2 DEF Inits

\* bam_string prints a term.
LEMMA BamType ==
    ASSUME NEW f \in Seq(BOOLEAN)
    PROVE  BamTerm(f) \in Seq(Node)
  <1> DEFINE n == Len(f)
             Equation(k, j) == CASE j = 0 -> Leaf(BavName(k))
                                 [] j = 1 -> Leaf(Truth(f[k]))
                                 [] j = 2 -> Apply(Op("="), 3)
             At(i) == IF i <= 3 * n THEN Equation(((i - 1) \div 3) + 1, (i - 1) % 3)
                                    ELSE Apply(Op("and"), 4 * (i - 3 * n))
  <1>1. n \in Nat
    OBVIOUS
  <1>2. ASSUME NEW k \in 1..n, NEW j \in 0..2 PROVE Equation(k, j) \in Node
    <2>1. Leaf(BavName(k)) \in Node
      BY <1>1, LeafType, NameType
    <2>2. f[k] \in BOOLEAN
      BY ElementOfSeq
    <2>3. Leaf(Truth(f[k])) \in Node
      BY <2>2, LeafType, OpType
    <2>4. Apply(Op("="), 3) \in Node
      BY LeafType, OpType
    <2> QED  BY <2>1, <2>3, <2>4
  <1>3. ASSUME NEW i \in 1..(4 * n) PROVE At(i) \in Node
    <2>1. CASE i <= 3 * n
      <3>1. ((i - 1) \div 3) + 1 \in 1..n /\ (i - 1) % 3 \in 0..2
        BY <1>1, <2>1
      <3>2. Equation(((i - 1) \div 3) + 1, (i - 1) % 3) \in Node
        BY <1>2, <3>1
      <3> QED  BY <2>1, <3>2
    <2>2. CASE ~(i <= 3 * n)
      <3>1. 4 * (i - 3 * n) \in Nat \ {0}
        BY <1>1, <2>2
      <3>2. Apply(Op("and"), 4 * (i - 3 * n)) \in Node
        BY <3>1, LeafType, OpType
      <3> QED  BY <2>2, <3>2
    <2> QED  BY <2>1, <2>2
  <1>4. 4 * n \in Nat
    BY <1>1
  <1>5. BamTerm(f) = [i \in 1..(4 * n) |-> At(i)]
    BY DEF BamTerm
  <1> HIDE DEF n, At
  <1>6. [i \in 1..(4 * n) |-> At(i)] \in [1..(4 * n) -> Node]
    BY <1>3
  <1> QED
    BY <1>4, <1>5, <1>6

-----------------------------------------------------------------------------
(* Where the parser is.                                                    *)

\* A sample is a script whose subtrees fit in their terms.
LEMMA SourceType ==
    ASSUME TypeOK
    PROVE  /\ source \in Seq(Command)
           /\ \A c \in DOMAIN source :
                /\ source[c].term \in Seq(Node)
                /\ \A n \in DOMAIN source[c].term :
                     /\ source[c].term[n].size \in 1..n
                     /\ IsConstant(source, <<c, n>>) => source[c].term[n].size = 1
  <1>1. source \in Seq(Command)
    BY ScriptsAssumption DEF TypeOK, IsScript
  <1>2. ASSUME NEW c \in DOMAIN source PROVE source[c].term \in Seq(Node)
    <2>1. source[c] \in Command
      BY <1>1
    <2> QED  BY <2>1 DEF Command
  <1>3. ASSUME NEW c \in DOMAIN source, NEW n \in DOMAIN source[c].term
        PROVE  source[c].term[n].size \in 1..n
    <2>1. source[c].term[n] \in Node /\ n \in Nat
      BY <1>2
    <2>2. source[c].term[n].size \in Nat \ {0}
      BY <2>1 DEF Node
    <2>3. source[c].term[n].size <= n
      BY ScriptsAssumption DEF TypeOK
    <2> QED  BY <2>1, <2>2, <2>3
  <1>4. \A c \in DOMAIN source : \A n \in DOMAIN source[c].term :
           IsConstant(source, <<c, n>>) => source[c].term[n].size = 1
    BY ScriptsAssumption DEF TypeOK, IsConstant, NodeAt
  <1> QED
    BY <1>1, <1>2, <1>3, <1>4

\* The nodes of a script.
LEMMA NodesElim ==
    ASSUME NEW s
    PROVE  /\ \A p \in Nodes(s) : /\ p = <<p[1], p[2]>>
                                  /\ p[1] \in DOMAIN s
                                  /\ p[2] \in DOMAIN s[p[1]].term
           /\ \A c \in DOMAIN s : \A n \in DOMAIN s[c].term : <<c, n>> \in Nodes(s)
  BY DEF Nodes

\* A node the parser is about to leave is still as it is in the file.
LEMMA AtNode ==
    ASSUME IInv, Parsing, node <= Len(script[cmd].term)
    PROVE  /\ cmd \in DOMAIN source
           /\ node \in DOMAIN source[cmd].term
           /\ Current = source[cmd].term[node]
           /\ <<cmd, node>> \in Nodes(source)
           /\ <<cmd, node>> \notin ExitedNodes
  <1>1. source \in Seq(Command) /\ script \in Seq(Command)
    BY SourceType DEF IInv, TypeOK, IsScript
  <1>2. phase = "parse" /\ DOMAIN script = DOMAIN source
    BY DEF Parsing, IInv, OnlyConstantsReplaced
  <1>3. cmd \in DOMAIN source
    BY <1>1, <1>2 DEF Parsing, IInv, TypeOK
  <1>4. source[cmd].term \in Seq(Node)
    BY <1>3, SourceType DEF IInv
  <1>5. script[cmd].term \in Seq(Node)
    <2>1. script[cmd] \in Command
      BY <1>1, <1>2, <1>3
    <2> QED  BY <2>1 DEF Command
  <1>6. DOMAIN script[cmd].term = DOMAIN source[cmd].term
    BY <1>2, <1>3 DEF IInv, OnlyConstantsReplaced
  <1>7. node \in DOMAIN source[cmd].term
    BY <1>5, <1>6 DEF IInv, TypeOK
  <1>8. ~Exited(cmd, node)
    BY DEF Exited, IInv, TypeOK
  <1>9. Current = source[cmd].term[node]
    BY <1>2, <1>3, <1>7, <1>8 DEF IInv, OnlyConstantsReplaced, Current
  <1>10. <<cmd, node>> \in Nodes(source)
    BY <1>3, <1>7, NodesElim
  <1> QED
    BY <1>3, <1>7, <1>8, <1>9, <1>10 DEF ExitedNodes

\* exit_term leaves one node more behind.
LEMMA ExitedGrows ==
    ASSUME IInv, ExitTerm
    PROVE  /\ ExitedNodes' = ExitedNodes \cup {<<cmd, node>>}
           /\ \A c \in DOMAIN source : \A n \in DOMAIN source[c].term :
                Exited(c, n)' <=> Exited(c, n) \/ (c = cmd /\ n = node)
  <1>1. source' = source /\ cmd' = cmd /\ node' = node + 1
    BY DEF ExitTerm
  <1>2. <<cmd, node>> \in Nodes(source)
    BY AtNode DEF ExitTerm
  <1>3. node \in Nat /\ cmd \in Nat
    BY DEF IInv, TypeOK
  <1>4. ASSUME NEW c \in DOMAIN source, NEW n \in DOMAIN source[c].term
        PROVE  Exited(c, n)' <=> Exited(c, n) \/ (c = cmd /\ n = node)
    <2>1. c \in Nat /\ n \in Nat
      <3>1. source \in Seq(Command) /\ source[c].term \in Seq(Node)
        BY SourceType DEF IInv
      <3> QED  BY <3>1
    <2> QED  BY <1>1, <1>3, <2>1 DEF Exited
  <1>5. ExitedNodes' = {p \in Nodes(source) : Exited(p[1], p[2])'}
    BY <1>1 DEF ExitedNodes, Exited
  <1>6. \A p \in Nodes(source) :
           Exited(p[1], p[2])' <=> Exited(p[1], p[2]) \/ p = <<cmd, node>>
    BY <1>4, NodesElim
  <1>7. ExitedNodes' = ExitedNodes \cup {<<cmd, node>>}
    BY <1>2, <1>5, <1>6 DEF ExitedNodes
  <1> QED
    BY <1>4, <1>7

\* Replacing the current node changes that node and nothing else.
LEMMA ReplacedNodes ==
    ASSUME TypeOK, cmd \in DOMAIN script, node \in DOMAIN script[cmd].term,
           NEW k \in Nat
    PROVE  /\ Replaced(k) \in Seq(Command)
           /\ DOMAIN Replaced(k) = DOMAIN script
           /\ \A c \in DOMAIN script :
                /\ DOMAIN Replaced(k)[c].term = DOMAIN script[c].term
                /\ Replaced(k)[c] = [script[c] EXCEPT !.term = Replaced(k)[c].term]
                /\ \A n \in DOMAIN script[c].term :
                     Replaced(k)[c].term[n] =
                        IF c = cmd /\ n = node THEN Leaf(GenName(k))
                                               ELSE script[c].term[n]
  <1> DEFINE t == [script[cmd].term EXCEPT ![node] = Leaf(GenName(k))]
             r == [script[cmd] EXCEPT !.term = t]
  <1>1. script \in Seq(Command)
    BY DEF TypeOK, IsScript
  <1>2. script[cmd] \in Command
    BY <1>1
  <1>3. script[cmd].term \in Seq(Node)
    BY <1>2 DEF Command
  <1>4. Leaf(GenName(k)) \in Node
    BY LeafType, NameType
  <1>5. /\ t \in Seq(Node) /\ DOMAIN t = DOMAIN script[cmd].term
        /\ \A n \in DOMAIN t :
             t[n] = IF n = node THEN Leaf(GenName(k)) ELSE script[cmd].term[n]
    BY <1>3, <1>4
  <1> HIDE DEF t
  <1>6. r \in Command /\ r.term = t
    BY <1>2, <1>5 DEF Command
  <1>7. r = [script[cmd] EXCEPT !.term = r.term]
    BY <1>6
  <1>8. Replaced(k) = [script EXCEPT ![cmd] = r]
    BY DEF Replaced, t
  <1> HIDE DEF r
  <1>9. Replaced(k) \in Seq(Command) /\ DOMAIN Replaced(k) = DOMAIN script
    BY <1>1, <1>6, <1>8
  <1>10. \A c \in DOMAIN script : Replaced(k)[c] = IF c = cmd THEN r ELSE script[c]
    BY <1>8
  <1>11. ASSUME NEW c \in DOMAIN script, c # cmd
         PROVE  Replaced(k)[c] = [script[c] EXCEPT !.term = Replaced(k)[c].term]
    <2>1. script[c] \in Command
      BY <1>1
    <2>2. script[c] = [script[c] EXCEPT !.term = script[c].term]
      BY <2>1 DEF Command
    <2> QED  BY <1>10, <1>11, <2>2
  <1> QED
    BY <1>5, <1>6, <1>7, <1>9, <1>10, <1>11

\* s is the script but for the node the parser is about to leave.
ChangedHere(s) ==
    \A c \in DOMAIN source : \A n \in DOMAIN source[c].term :
        ~(c = cmd /\ n = node) => s[c].term[n] = script[c].term[n]

\* The subtree of a node the parser has left does not contain the node it is
\* about to leave: changing that one keeps the subtree.
LEMMA SubtreeKept ==
    ASSUME IInv, phase = "parse", NEW s, ChangedHere(s),
           NEW p \in ExitedNodes, IsBoolOp(source, p)
    PROVE  SubtreeAt(s, p) = SubtreeAt(script, p)
  <1> DEFINE c == p[1]
             i == p[2]
             w == script[c].term[i].size
  <1>1. /\ p \in Nodes(source) /\ Exited(c, i)
        /\ c \in DOMAIN source /\ i \in DOMAIN source[c].term
    BY NodesElim DEF ExitedNodes
  <1>2. source[c].term \in Seq(Node) /\ source \in Seq(Command)
    BY <1>1, SourceType DEF IInv
  <1>3. i \in Nat /\ c \in Nat /\ node \in Nat /\ cmd \in Nat
    BY <1>1, <1>2 DEF IInv, TypeOK
  <1>4. script[c].term[i] = source[c].term[i]
    <2>1. p = <<c, i>>
      BY <1>1, NodesElim
    <2>2. ~IsConstant(source, <<c, i>>)
      BY <2>1 DEF IsConstant, IsBoolOp, Constants
    <2> QED  BY <1>1, <2>2 DEF IInv, OnlyConstantsReplaced
  <1>5. w \in 1..i
    BY <1>1, <1>4, SourceType DEF IInv
  <1>6. ASSUME NEW m \in 1..i
        PROVE  s[c].term[m] = script[c].term[m]
    <2>1. m \in DOMAIN source[c].term
      BY <1>1, <1>2
    <2>2. ~(c = cmd /\ m = node)
      BY <1>1, <1>3 DEF Exited
    <2> QED  BY <1>1, <2>1, <2>2 DEF ChangedHere
  <1>7. s[c].term[i].size = w
    BY <1>3, <1>5, <1>6
  <1>8. \A k \in 1..w : i - w + k \in 1..i
    BY <1>3, <1>5
  <1>9. \A k \in 1..w : s[c].term[i - w + k] = script[c].term[i - w + k]
    BY <1>6, <1>8
  <1> HIDE DEF w
  <1> QED
    BY <1>7, <1>9 DEF SubtreeAt, Subtree, w

-----------------------------------------------------------------------------
(* The invariant is inductive.                                             *)

\* Nothing has been left, nothing is changed.
LEMMA InitExited == Init => TypeOK /\ ExitedNodes = {}
  <1> SUFFICES ASSUME Init PROVE TypeOK /\ ExitedNodes = {}
    OBVIOUS
  <1>1. source \in Seq(Command)
    BY ScriptsAssumption DEF Init, IsScript
  <1>2. TypeOK
    BY <1>1 DEF Init, TypeOK, IsScript
  <1>3. ExitedNodes = {}
    <2>1. ASSUME NEW p \in Nodes(source) PROVE ~Exited(p[1], p[2])
      <3>1. p[1] \in DOMAIN source /\ p[2] \in DOMAIN source[p[1]].term
        BY NodesElim
      <3>2. source[p[1]].term \in Seq(Node)
        BY <1>2, <3>1, SourceType
      <3>3. p[1] \in Nat \ {0} /\ p[2] \in Nat \ {0}
        BY <1>1, <3>1, <3>2
      <3> QED  BY <3>3 DEF Exited, Init
    <2> QED  BY <2>1 DEF ExitedNodes
  <1> QED
    BY <1>2, <1>3

LEMMA InitIInv == Init => IInv
  <1> SUFFICES ASSUME Init PROVE IInv
    OBVIOUS
  <1>1. source \in Seq(Command)
    BY ScriptsAssumption DEF Init, IsScript
  <1>2. TypeOK
    BY InitExited
  <1>3. ExitedNodes = {}
    BY InitExited
  <1>4. OnlyConstantsReplaced
    <2>1. \A c \in DOMAIN source : source[c] = [source[c] EXCEPT !.term = source[c].term]
      <3>1. \A c \in DOMAIN source : source[c] \in Command
        BY <1>1
      <3> QED  BY <3>1 DEF Command
    <2>2. ASSUME NEW c \in DOMAIN source, NEW n \in DOMAIN source[c].term
          PROVE  ~Exited(c, n)
      <3>1. <<c, n>> \in Nodes(source)
        BY NodesElim
      <3>2. <<c, n>> \notin {p \in Nodes(source) : Exited(p[1], p[2])}
        BY <1>3 DEF ExitedNodes
      <3> QED  BY <3>1, <3>2
    <2> QED  BY <2>1, <2>2 DEF OnlyConstantsReplaced, Init
  <1>5. ConstantsKeptApart /\ NumeralsDeclared
    BY <1>3 DEF ConstantsKeptApart, NumeralsDeclared, Init
  <1>6. CopiesInPlace
    BY <1>3 DEF CopiesInPlace, Init, ToSet
  <1> QED
    BY <1>2, <1>4, <1>5, <1>6 DEF IInv

\* exit_term on a constant.
LEMMA ReplaceIInv ==
    ASSUME IInv, ExitTerm, ReplaceConstant
    PROVE  IInv'
  <1> DEFINE here == <<cmd, node>>
             name == GenName(counter + 1)
  <1>1. /\ cmd \in DOMAIN source /\ node \in DOMAIN source[cmd].term
        /\ Current = source[cmd].term[node]
        /\ here \in Nodes(source) /\ here \notin ExitedNodes
        /\ Parsing /\ phase = "parse"
    BY AtNode DEF ExitTerm, Parsing
  <1>2. IsConstant(source, here)
    BY <1>1 DEF ReplaceConstant, IsConstant, NodeAt
  <1>3. /\ counter' = counter + 1 /\ counter \in Nat /\ counter + 1 \in Nat
        /\ script' = Replaced(counter + 1)
        /\ source' = source /\ phase' = phase /\ cmd' = cmd /\ node' = node + 1
        /\ bexps' = bexps /\ startAt' = startAt /\ endAt' = endAt
        /\ values' = values
    BY DEF ReplaceConstant, ExitTerm, IInv, TypeOK
  <1>4. /\ DOMAIN script = DOMAIN source
        /\ \A c \in DOMAIN source : DOMAIN script[c].term = DOMAIN source[c].term
    BY <1>1 DEF IInv, OnlyConstantsReplaced
  <1>5. /\ script' \in Seq(Command)
        /\ DOMAIN script' = DOMAIN source
        /\ \A c \in DOMAIN source :
             /\ DOMAIN script'[c].term = DOMAIN source[c].term
             /\ script'[c] = [script[c] EXCEPT !.term = script'[c].term]
             /\ \A n \in DOMAIN source[c].term :
                  script'[c].term[n] = IF c = cmd /\ n = node THEN Leaf(name)
                                       ELSE script[c].term[n]
    BY <1>1, <1>3, <1>4, ReplacedNodes DEF IInv
  <1>6. /\ ExitedNodes' = ExitedNodes \cup {here}
        /\ \A c \in DOMAIN source : \A n \in DOMAIN source[c].term :
             Exited(c, n)' <=> Exited(c, n) \/ (c = cmd /\ n = node)
    BY ExitedGrows
  <1>7. GenNames \subseteq GenNames' /\ name \in GenNames'
    BY <1>3 DEF GenNames
  <1>8. TypeOK'
    <2>1. newVars' \subseteq GenNames'
      BY <1>7 DEF ReplaceConstant, IInv, TypeOK
    <2> QED  BY <1>3, <1>5, <2>1 DEF IInv, TypeOK, IsScript
  \* What the nodes left earlier hold now.
  <1>9. ASSUME NEW p \in ExitedNodes
        PROVE  /\ NodeAt(script', p) = NodeAt(script, p)
               /\ p \in Nodes(source) /\ p # here
    <2>1. p \in Nodes(source) /\ p # here
      BY <1>1 DEF ExitedNodes
    <2> QED  BY <1>5, <2>1, NodesElim DEF NodeAt
  <1>10. NodeAt(script', here) = Leaf(name)
    BY <1>1, <1>5 DEF NodeAt
  <1>11. OnlyConstantsReplaced'
    <2>1. ASSUME NEW c \in DOMAIN source
          PROVE  script'[c] = [source[c] EXCEPT !.term = script'[c].term]
      <3>1. script[c] = [source[c] EXCEPT !.term = script[c].term]
        BY <1>1 DEF IInv, OnlyConstantsReplaced
      <3>2. source[c] \in Command
        BY SourceType DEF IInv
      <3> QED  BY <1>5, <3>1, <3>2 DEF Command
    <2>2. ASSUME NEW c \in DOMAIN source, NEW n \in DOMAIN source[c].term
          PROVE  IF Exited(c, n)' /\ IsConstant(source, <<c, n>>)
                 THEN \E k \in 1..(counter + 1) :
                         script'[c].term[n] = Leaf(GenName(k))
                 ELSE script'[c].term[n] = source[c].term[n]
      <3>1. IF Exited(c, n) /\ IsConstant(source, <<c, n>>)
            THEN \E k \in 1..counter : script[c].term[n] = Leaf(GenName(k))
            ELSE script[c].term[n] = source[c].term[n]
        BY <1>1 DEF IInv, OnlyConstantsReplaced
      <3>2. CASE c = cmd /\ n = node
        <4>1. script'[c].term[n] = Leaf(GenName(counter + 1))
          BY <1>5, <3>2
        <4>2. Exited(c, n)' /\ IsConstant(source, <<c, n>>)
          BY <1>2, <1>6, <3>2
        <4> QED  BY <1>3, <4>1, <4>2
      <3>3. CASE ~(c = cmd /\ n = node)
        <4>1. script'[c].term[n] = script[c].term[n]
          BY <1>5, <3>3
        <4>2. Exited(c, n)' <=> Exited(c, n)
          BY <1>6, <3>3
        <4>3. \A k \in 1..counter : k \in 1..(counter + 1)
          BY <1>3
        <4> QED  BY <3>1, <4>1, <4>2, <4>3
      <3> QED  BY <3>2, <3>3
    <2> QED
      BY <1>3, <1>5, <2>1, <2>2 DEF OnlyConstantsReplaced, IsConstant, NodeAt
  <1>12. ConstantsKeptApart'
    <2>1. ASSUME NEW p \in ExitedNodes, IsConstant(source, p)
          PROVE  NodeAt(script, p) # Leaf(name)
      <3>1. p \in Nodes(source) /\ Exited(p[1], p[2])
        BY DEF ExitedNodes
      <3>2. PICK k \in 1..counter : NodeAt(script, p) = Leaf(GenName(k))
        BY <1>1, <2>1, <3>1, NodesElim DEF IInv, OnlyConstantsReplaced, NodeAt
      <3>3. k # counter + 1
        BY <1>3
      <3>4. Leaf(GenName(k)).sym = <<"GEN", k>> /\ Leaf(name).sym = <<"GEN", counter + 1>>
        BY DEF Leaf, GenName
      <3> QED  BY <3>2, <3>3, <3>4
    <2>2. ASSUME NEW p \in ExitedNodes', NEW q \in ExitedNodes',
                 IsConstant(source, p), IsConstant(source, q),
                 NodeAt(script', p) = NodeAt(script', q)
          PROVE  p = q
      <3>1. CASE p \in ExitedNodes /\ q \in ExitedNodes
        BY <1>1, <1>9, <2>2, <3>1 DEF IInv, ConstantsKeptApart
      <3>2. CASE p \in ExitedNodes /\ q = here
        BY <1>9, <1>10, <2>1, <2>2, <3>2
      <3>3. CASE p = here /\ q \in ExitedNodes
        BY <1>9, <1>10, <2>1, <2>2, <3>3
      <3> QED  BY <1>6, <3>1, <3>2, <3>3
    <2> QED
      BY <1>3, <2>2 DEF ConstantsKeptApart, IsConstant, NodeAt
  <1>13. NumeralsDeclared'
    <2> DEFINE Numerals(E) == {p \in E : NodeAt(source, p).kind = "numeral"}
    <2>1. newVars = {NodeAt(script, p).sym : p \in Numerals(ExitedNodes)}
      BY <1>1 DEF IInv, NumeralsDeclared
    <2>2. newVars = {NodeAt(script', p).sym : p \in Numerals(ExitedNodes)}
      BY <1>9, <2>1
    <2>3. NodeAt(script', here).sym = name
      BY <1>10 DEF Leaf
    <2>4. newVars' = IF here \in Numerals({here}) THEN newVars \cup {name} ELSE newVars
      BY <1>1 DEF ReplaceConstant, NodeAt
    <2>5. newVars' = {NodeAt(script', p).sym : p \in Numerals(ExitedNodes')}
      BY <1>6, <2>2, <2>3, <2>4
    <2> QED
      BY <1>3, <2>5 DEF NumeralsDeclared, NodeAt
  <1>14. CopiesInPlace'
    <2>1. {p \in ExitedNodes' : IsBoolOp(source, p)} = {p \in ExitedNodes : IsBoolOp(source, p)}
      BY <1>2, <1>6 DEF IsBoolOp, IsConstant, Constants
    <2>2. ASSUME NEW p \in ExitedNodes, IsBoolOp(source, p)
          PROVE  SubtreeAt(script', p) = SubtreeAt(script, p)
      <3>1. ChangedHere(script')
        BY <1>5 DEF ChangedHere
      <3> QED
        BY <1>1, <2>2, <3>1, SubtreeKept
    <2>3. ToSet(bexps) = {SubtreeAt(script', p) :
                            p \in {p \in ExitedNodes' : IsBoolOp(source, p)}}
      BY <1>1, <2>1, <2>2 DEF IInv, CopiesInPlace
    <2> QED
      BY <1>3, <2>3 DEF CopiesInPlace, SubtreeAt, IsBoolOp, NodeAt
  <1> QED
    BY <1>8, <1>11, <1>12, <1>13, <1>14 DEF IInv

\* exit_term on an operator of the list.
LEMMA CopyIInv ==
    ASSUME IInv, ExitTerm, CopyTerm
    PROVE  IInv'
  <1> DEFINE here == <<cmd, node>>
             copy == Subtree(script[cmd].term, node)
  <1>1. /\ cmd \in DOMAIN source /\ node \in DOMAIN source[cmd].term
        /\ Current = source[cmd].term[node]
        /\ here \in Nodes(source) /\ here \notin ExitedNodes
        /\ phase = "parse"
    BY AtNode DEF ExitTerm, Parsing
  <1>2. IsBoolOp(source, here) /\ ~IsConstant(source, here)
    BY <1>1 DEF CopyTerm, IsConstant, IsBoolOp, NodeAt, Constants
  <1>3. /\ UNCHANGED <<source, script, cmd, counter, newVars, phase, startAt,
                       endAt, values>>
        /\ node' = node + 1
        /\ bexps' = Append(bexps, copy)
    BY DEF CopyTerm, ExitTerm
  <1>4. /\ ExitedNodes' = ExitedNodes \cup {here}
        /\ \A c \in DOMAIN source : \A n \in DOMAIN source[c].term :
             Exited(c, n)' <=> Exited(c, n) \/ (c = cmd /\ n = node)
    BY ExitedGrows
  <1>5. copy \in Seq(Node)
    <2>1. script[cmd].term \in Seq(Node) /\ node \in DOMAIN script[cmd].term
      <3>1. script[cmd] \in Command /\ DOMAIN script[cmd].term = DOMAIN source[cmd].term
        BY <1>1 DEF IInv, TypeOK, IsScript, OnlyConstantsReplaced
      <3> QED  BY <1>1, <3>1 DEF Command
    <2>2. script[cmd].term[node].size <= node
      <3>1. source[cmd].term[node].size \in 1..node
        BY <1>1, SourceType DEF IInv
      <3> QED  BY <1>1, <3>1 DEF Current, IInv, TypeOK
    <2> QED  BY <2>1, <2>2, SubtreeType
  <1>6. TypeOK'
    BY <1>3, <1>5 DEF IInv, TypeOK, IsScript, GenNames
  <1>7. OnlyConstantsReplaced'
    <2>1. ASSUME NEW c \in DOMAIN source, NEW n \in DOMAIN source[c].term
          PROVE  Exited(c, n)' /\ IsConstant(source, <<c, n>>)
                 <=> Exited(c, n) /\ IsConstant(source, <<c, n>>)
      BY <1>2, <1>4
    <2> QED
      BY <1>1, <1>3, <2>1 DEF IInv, OnlyConstantsReplaced, IsConstant, NodeAt
  <1>8. ConstantsKeptApart'
    <2>1. \A p \in ExitedNodes' : IsConstant(source, p) => p \in ExitedNodes
      BY <1>2, <1>4
    <2> QED
      BY <1>1, <1>3, <2>1 DEF IInv, ConstantsKeptApart, IsConstant, NodeAt
  <1>9. NumeralsDeclared'
    <2>1. {p \in ExitedNodes' : NodeAt(source, p).kind = "numeral"}
             = {p \in ExitedNodes : NodeAt(source, p).kind = "numeral"}
      BY <1>2, <1>4 DEF IsBoolOp
    <2> QED
      BY <1>1, <1>3, <2>1 DEF IInv, NumeralsDeclared, NodeAt
  <1>10. CopiesInPlace'
    <2>1. SubtreeAt(script, here) = copy
      BY DEF SubtreeAt
    <2>2. ToSet(bexps') = ToSet(bexps) \cup {copy}
      <3>1. bexps \in Seq(Seq(Node))
        BY DEF IInv, TypeOK
      <3>2. /\ Len(bexps') = Len(bexps) + 1 /\ Len(bexps) \in Nat
            /\ DOMAIN bexps = 1..Len(bexps) /\ DOMAIN bexps' = 1..(Len(bexps) + 1)
            /\ \A j \in 1..Len(bexps) : bexps'[j] = bexps[j]
            /\ bexps'[Len(bexps) + 1] = copy
        BY <1>3, <1>5, <3>1
      <3> QED  BY <3>2 DEF ToSet
    <2>3. {p \in ExitedNodes' : IsBoolOp(source, p)}
             = {p \in ExitedNodes : IsBoolOp(source, p)} \cup {here}
      BY <1>2, <1>4
    <2>4. ToSet(bexps) = {SubtreeAt(script, p) :
                            p \in {p \in ExitedNodes : IsBoolOp(source, p)}}
      BY <1>1 DEF IInv, CopiesInPlace
    <2>5. ToSet(bexps') = {SubtreeAt(script, p) :
                             p \in {p \in ExitedNodes' : IsBoolOp(source, p)}}
      BY <2>1, <2>2, <2>3, <2>4
    <2> QED
      BY <1>3, <2>5 DEF CopiesInPlace, SubtreeAt, IsBoolOp, NodeAt
  <1> QED
    BY <1>6, <1>7, <1>8, <1>9, <1>10 DEF IInv

\* What moves the parser without leaving a constant or an operator of the
\* list keeps the invariant: exit_term on another term, the next command.
LEMMA MoveIInv ==
    ASSUME IInv, phase = "parse",
           UNCHANGED <<source, script, counter, newVars, bexps, phase, startAt,
                       endAt, values>>,
           cmd' \in 1..(Len(source) + 1), node' \in Nat \ {0},
           \A p \in Nodes(source) :
              /\ p \in ExitedNodes => Exited(p[1], p[2])'
              /\ IsConstant(source, p) \/ IsBoolOp(source, p) =>
                   (Exited(p[1], p[2])' => p \in ExitedNodes)
    PROVE  IInv'
  <1>1. ExitedNodes' = {p \in Nodes(source) : Exited(p[1], p[2])'}
    BY DEF ExitedNodes, Exited
  <1>2. \A p \in Nodes(source) : IsConstant(source, p) \/ IsBoolOp(source, p) =>
           (p \in ExitedNodes' <=> p \in ExitedNodes)
    BY <1>1
  <1>3. ExitedNodes' \subseteq Nodes(source) /\ ExitedNodes \subseteq Nodes(source)
    BY <1>1 DEF ExitedNodes
  <1>4. TypeOK'
    BY DEF IInv, TypeOK, IsScript, GenNames
  <1>5. OnlyConstantsReplaced'
    <2>1. ASSUME NEW c \in DOMAIN source, NEW n \in DOMAIN source[c].term,
                 IsConstant(source, <<c, n>>)
          PROVE  Exited(c, n)' <=> Exited(c, n)
      <3>1. <<c, n>> \in Nodes(source)
        BY NodesElim
      <3>2. <<c, n>> \in ExitedNodes' <=> <<c, n>> \in ExitedNodes
        BY <1>2, <2>1, <3>1
      <3>3. /\ <<c, n>> \in ExitedNodes' <=> Exited(<<c, n>>[1], <<c, n>>[2])'
            /\ <<c, n>> \in ExitedNodes <=> Exited(<<c, n>>[1], <<c, n>>[2])
        BY <1>1, <3>1 DEF ExitedNodes
      <3>4. <<c, n>>[1] = c /\ <<c, n>>[2] = n
        OBVIOUS
      <3> QED  BY <3>2, <3>3, <3>4 DEF Exited
    <2> QED
      BY <2>1 DEF IInv, OnlyConstantsReplaced, IsConstant, NodeAt
  <1>6. ConstantsKeptApart'
    BY <1>2, <1>3 DEF IInv, ConstantsKeptApart, IsConstant, NodeAt
  <1>7. NumeralsDeclared'
    <2>1. {p \in ExitedNodes' : NodeAt(source, p).kind = "numeral"}
             = {p \in ExitedNodes : NodeAt(source, p).kind = "numeral"}
      BY <1>2, <1>3 DEF IsConstant, Constants
    <2> QED
      BY <2>1 DEF IInv, NumeralsDeclared, NodeAt
  <1>8. CopiesInPlace'
    <2>1. {p \in ExitedNodes' : IsBoolOp(source, p)}
             = {p \in ExitedNodes : IsBoolOp(source, p)}
      BY <1>2, <1>3
    <2> QED
      BY <2>1 DEF IInv, CopiesInPlace, SubtreeAt, IsBoolOp, NodeAt
  <1> QED
    BY <1>4, <1>5, <1>6, <1>7, <1>8 DEF IInv

\* exit_term on any other term.
LEMMA LeaveAloneIInv ==
    ASSUME IInv, ExitTerm, LeaveAlone
    PROVE  IInv'
  <1> DEFINE here == <<cmd, node>>
  <1>1. /\ Current = source[cmd].term[node]
        /\ here \in Nodes(source)
        /\ phase = "parse"
    BY AtNode DEF ExitTerm, Parsing
  <1>2. ~IsConstant(source, here) /\ ~IsBoolOp(source, here)
    BY <1>1 DEF LeaveAlone, IsConstant, IsBoolOp, NodeAt
  <1>3. ExitedNodes' = ExitedNodes \cup {here}
    BY ExitedGrows
  <1>4. ExitedNodes' = {p \in Nodes(source) : Exited(p[1], p[2])'}
    BY DEF ExitedNodes, Exited, ExitTerm
  <1>5. \A p \in Nodes(source) :
           /\ p \in ExitedNodes => Exited(p[1], p[2])'
           /\ IsConstant(source, p) \/ IsBoolOp(source, p) =>
                (Exited(p[1], p[2])' => p \in ExitedNodes)
    BY <1>2, <1>3, <1>4
  <1>6. cmd' \in 1..(Len(source) + 1) /\ node' \in Nat \ {0}
    BY DEF ExitTerm, IInv, TypeOK
  <1> QED
    BY <1>1, <1>5, <1>6, MoveIInv DEF ExitTerm, LeaveAlone

\* When the parser goes on it leaves the nodes of a command, and has already.
LEMMA NextExited ==
    ASSUME IInv, NextCommand
    PROVE  /\ phase = "parse" /\ cmd \in 1..Len(source) /\ cmd \in Nat
           /\ \A p \in Nodes(source) : Exited(p[1], p[2])' <=> p \in ExitedNodes
           /\ ExitedNodes' = ExitedNodes
  <1>1. phase = "parse" /\ cmd \in 1..Len(source) /\ cmd \in Nat
    <2>1. DOMAIN script = DOMAIN source /\ script \in Seq(Command) /\ source \in Seq(Command)
      BY SourceType DEF NextCommand, Parsing, IInv, TypeOK, IsScript, OnlyConstantsReplaced
    <2>2. Len(script) = Len(source)
      BY <2>1
    <2> QED  BY <2>1, <2>2 DEF NextCommand, Parsing, IInv, TypeOK
  <1>2. ASSUME NEW p \in Nodes(source)
        PROVE  Exited(p[1], p[2])' <=> p \in ExitedNodes
    <2> DEFINE c == p[1]
               n == p[2]
    <2>1. c \in DOMAIN source /\ n \in DOMAIN source[c].term
      BY NodesElim
    <2>2. source \in Seq(Command) /\ source[c].term \in Seq(Node)
      BY <2>1, SourceType DEF IInv
    <2>3. c \in Nat \ {0} /\ n \in Nat \ {0}
      BY <2>1, <2>2
    <2>4. c = cmd => n < node
      <3>1. ASSUME c = cmd PROVE n < node
        <4>1. script[c] \in Command /\ DOMAIN script[c].term = DOMAIN source[c].term
          BY <1>1, <2>1 DEF IInv, TypeOK, IsScript, OnlyConstantsReplaced
        <4>2. script[c].term \in Seq(Node)
          BY <4>1 DEF Command
        <4>3. n <= Len(script[c].term) /\ Len(script[c].term) < node
          BY <2>1, <3>1, <4>1, <4>2 DEF NextCommand, IInv, TypeOK
        <4> QED  BY <2>3, <4>2, <4>3 DEF IInv, TypeOK
      <3> QED  BY <3>1
    <2>5. Exited(c, n)' <=> c < cmd + 1
      BY <1>1, <2>3 DEF Exited, NextCommand
    <2>6. Exited(c, n) <=> c < cmd \/ c = cmd
      BY <2>4 DEF Exited
    <2> QED
      BY <1>1, <2>3, <2>5, <2>6 DEF ExitedNodes
  <1>3. ExitedNodes' = {p \in Nodes(source) : Exited(p[1], p[2])'}
    BY DEF ExitedNodes, Exited, NextCommand
  <1>4. ExitedNodes \subseteq Nodes(source)
    BY DEF ExitedNodes
  <1> QED
    BY <1>1, <1>2, <1>3, <1>4

\* The parser goes on to the next command.
LEMMA NextCommandIInv ==
    ASSUME IInv, NextCommand
    PROVE  IInv'
  <1>1. phase = "parse" /\ cmd \in 1..Len(source) /\ cmd \in Nat
    BY NextExited
  <1>2. \A p \in Nodes(source) : Exited(p[1], p[2])' <=> p \in ExitedNodes
    BY NextExited
  <1>3. cmd' \in 1..(Len(source) + 1) /\ node' \in Nat \ {0}
    <2>1. Len(source) \in Nat
      BY SourceType DEF IInv
    <2> QED  BY <1>1, <2>1 DEF NextCommand
  <1> QED
    BY <1>1, <1>2, <1>3, MoveIInv DEF NextCommand

\* The insertions and the loop body: the tree stays a script.
LEMMA BuildIInv ==
    ASSUME IInv,
           InsertDecls \/ InsertInits \/ \E f \in Assignments : SetAssertion(f)
    PROVE  IInv'
  <1>1. /\ UNCHANGED <<source, cmd, node, counter, newVars, bexps>>
        /\ phase' \in {"decls", "loop", "ready"}
    BY DEF InsertDecls, InsertInits, SetAssertion
  <1>2. script \in Seq(Command)
    BY DEF IInv, TypeOK, IsScript
  <1>3. /\ script' \in Seq(Command) /\ startAt' \in Nat /\ endAt' \in Nat
        /\ values' \in Seq(BOOLEAN)
    <2>1. CASE InsertDecls
      <3>1. startAt' \in 1..(Len(script) + 1)
        BY <1>2, <2>1, InsertionPoints DEF InsertDecls, StartInsertionPoint
      <3>2. Decls \in Seq(Command)
        BY DeclsType DEF IInv
      <3>3. InsertEach(script, startAt', Decls) \in Seq(Command)
        BY <1>2, <3>1, <3>2, InsertType
      <3> QED  BY <2>1, <3>1, <3>3 DEF InsertDecls, IInv, TypeOK
    <2>2. CASE InsertInits
      <3>1. endAt' \in 1..(Len(script) + 1)
        BY <1>2, <2>2, InsertionPoints DEF InsertInits, EndInsertionPoint
      <3>2. AssertThat(<<Leaf(Op("true"))>>) \in Command
        <4>1. Leaf(Op("true")) \in Node
          BY LeafType, OpType
        <4>2. <<Leaf(Op("true"))>> \in Seq(Node)
          BY <4>1
        <4> QED  BY <4>2, CommandType
      <3>3. Append(Inits, AssertThat(<<Leaf(Op("true"))>>)) \in Seq(Command)
        BY <3>2, InitsType DEF IInv
      <3>4. InsertEach(script, endAt', Append(Inits, AssertThat(<<Leaf(Op("true"))>>)))
               \in Seq(Command)
        BY <1>2, <3>1, <3>3, InsertType
      <3> QED  BY <2>2, <3>1, <3>4 DEF InsertInits, IInv, TypeOK
    <2>3. ASSUME NEW f \in Assignments, SetAssertion(f)
          PROVE  /\ script' \in Seq(Command) /\ startAt' \in Nat /\ endAt' \in Nat
                 /\ values' \in Seq(BOOLEAN)
      <3>1. f \in Seq(BOOLEAN)
        <4>1. NumBavs \in Nat
          BY DEF NumBavs, IInv, TypeOK
        <4> QED  BY <4>1 DEF Assignments
      <3>2. AssertThat(BamTerm(f)) \in Command
        BY <3>1, BamType, CommandType
      <3>3. [script EXCEPT ![endAt] = AssertThat(BamTerm(f))] \in Seq(Command)
        <4> DEFINE a == AssertThat(BamTerm(f))
        <4>1. script \in [1..Len(script) -> Command] /\ Len(script) \in Nat
          BY <1>2
        <4> HIDE DEF a
        <4>2. [script EXCEPT ![endAt] = a] \in [1..Len(script) -> Command]
          BY <3>2, <4>1 DEF a
        <4>3. [script EXCEPT ![endAt] = a] \in Seq(Command)
          BY <4>1, <4>2
        <4> QED  BY <4>3 DEF a
      <3> QED  BY <2>3, <3>1, <3>3 DEF SetAssertion, IInv, TypeOK
    <2> QED  BY <2>1, <2>2, <2>3
  <1>4. TypeOK'
    BY <1>1, <1>3 DEF IInv, TypeOK, IsScript, GenNames
  <1>5. phase' # "parse"
    BY <1>1
  <1> QED
    BY <1>4, <1>5 DEF IInv, OnlyConstantsReplaced, ConstantsKeptApart,
                      NumeralsDeclared, CopiesInPlace

\* The invariant holds of every state of the program.
THEOREM Inductive == Spec => []IInv
  <1>1. ASSUME IInv, [Next]_vars PROVE IInv'
    <2>1. CASE ExitTerm
      BY <1>1, <2>1, ReplaceIInv, CopyIInv, LeaveAloneIInv DEF ExitTerm
    <2>2. CASE NextCommand
      BY <1>1, <2>2, NextCommandIInv
    <2>3. CASE InsertDecls \/ InsertInits \/ \E f \in Assignments : SetAssertion(f)
      BY <1>1, <2>3, BuildIInv
    <2>4. CASE UNCHANGED vars
      BY <1>1, <2>4 DEF vars, IInv, TypeOK, IsScript, GenNames, ExitedNodes,
            Exited, OnlyConstantsReplaced, ConstantsKeptApart,
            NumeralsDeclared, CopiesInPlace, IsConstant, IsBoolOp, NodeAt,
            SubtreeAt
    <2> QED
      BY <1>1, <2>1, <2>2, <2>3, <2>4 DEF Next
  <1> QED
    BY <1>1, InitIInv, PTL DEF Spec

\* The state has its type.
THEOREM TypeCorrect == Spec => []TypeOK
  <1>1. IInv => TypeOK
    BY DEF IInv
  <1> QED  BY <1>1, Inductive, PTL

\* The listener renames constants and touches nothing else of the sample.
THEOREM OnlyConstants == Spec => []OnlyConstantsReplaced
  <1>1. IInv => OnlyConstantsReplaced
    BY DEF IInv
  <1> QED  BY <1>1, Inductive, PTL

\* Two constants of a sample never share a generated name.
THEOREM Apart == Spec => []ConstantsKeptApart
  <1>1. IInv => ConstantsKeptApart
    BY DEF IInv
  <1> QED  BY <1>1, Inductive, PTL

\* Exactly the names of integer constants are declared.
THEOREM Declared == Spec => []NumeralsDeclared
  <1>1. IInv => NumeralsDeclared
    BY DEF IInv
  <1> QED  BY <1>1, Inductive, PTL

\* The copied terms are terms of the tree with their constants replaced.
THEOREM Copies == Spec => []CopiesInPlace
  <1>1. IInv => CopiesInPlace
    BY DEF IInv
  <1> QED  BY <1>1, Inductive, PTL

-----------------------------------------------------------------------------
(* Inserting into sequences.                                               *)

\* The items of a concatenation, those of each part by themselves.
LEMMA ConcatItems ==
    ASSUME NEW S, NEW s \in Seq(S), NEW t \in Seq(S)
    PROVE  /\ s \o t \in Seq(S)
           /\ Len(s \o t) = Len(s) + Len(t)
           /\ \A k \in 1..Len(s) : (s \o t)[k] = s[k]
           /\ \A k \in 1..Len(t) : (s \o t)[Len(s) + k] = t[k]
  <1>1. Len(s) \in Nat /\ Len(t) \in Nat
    BY LenProperties
  <1>2. /\ s \o t \in Seq(S) /\ Len(s \o t) = Len(s) + Len(t)
        /\ \A k \in 1..(Len(s) + Len(t)) :
             (s \o t)[k] = IF k <= Len(s) THEN s[k] ELSE t[k - Len(s)]
    BY ConcatProperties
  <1>3. \A k \in 1..Len(s) : k \in 1..(Len(s) + Len(t)) /\ k <= Len(s)
    BY <1>1
  <1>4. \A k \in 1..Len(t) : /\ Len(s) + k \in 1..(Len(s) + Len(t))
                           /\ ~(Len(s) + k <= Len(s)) /\ (Len(s) + k) - Len(s) = k
    BY <1>1
  <1> QED
    BY <1>2, <1>3, <1>4

\* What stands where in r, if it is s with t inserted at i.
Inserted(r, s, i, t) ==
    /\ Len(r) = Len(s) + Len(t)
    /\ \A k \in 1..(i - 1) : r[k] = s[k]
    /\ \A k \in 1..Len(t) : r[i - 1 + k] = t[k]
    /\ \A k \in i..Len(s) : r[k + Len(t)] = s[k]

\* An insertion inserts.
LEMMA SpliceItems ==
    ASSUME NEW S, NEW s \in Seq(S), NEW t \in Seq(S), NEW i \in 1..(Len(s) + 1)
    PROVE  Splice(s, i, t) \in Seq(S) /\ Inserted(Splice(s, i, t), s, i, t)
  <1> DEFINE a == SubSeq(s, 1, i - 1)
             b == SubSeq(s, i, Len(s))
  <1>1. Len(s) \in Nat /\ Len(t) \in Nat /\ i \in Nat /\ i >= 1 /\ i <= Len(s) + 1
    BY LenProperties
  <1>2. a \in Seq(S) /\ Len(a) = i - 1 /\ \A k \in 1..(i - 1) : a[k] = s[k]
    <2>1. \A k \in 1..(i - 1) : s[k] \in S
      BY <1>1, ElementOfSeq
    <2> QED
      BY <1>1, <2>1, SubSeqProperties
  <1>3. b \in Seq(S) /\ Len(b) = Len(s) + 1 - i
        /\ \A k \in 1..(Len(s) + 1 - i) : b[k] = s[i - 1 + k]
    <2>1. \A k \in i..Len(s) : s[k] \in S
      BY <1>1, ElementOfSeq
    <2> QED
      BY <1>1, <2>1, SubSeqProperties
  <1> HIDE DEF a, b
  <1>4. /\ a \o t \in Seq(S) /\ Len(a \o t) = i - 1 + Len(t)
        /\ \A k \in 1..(i - 1) : (a \o t)[k] = s[k]
        /\ \A k \in 1..Len(t) : (a \o t)[i - 1 + k] = t[k]
    <2>1. a \in Seq(S)
      BY <1>2
    <2>2. /\ a \o t \in Seq(S) /\ Len(a \o t) = Len(a) + Len(t)
          /\ \A k \in 1..Len(a) : (a \o t)[k] = a[k]
          /\ \A k \in 1..Len(t) : (a \o t)[Len(a) + k] = t[k]
      BY <2>1, ConcatItems
    <2> QED
      BY <1>2, <2>2
  <1> DEFINE c == a \o t
  <1> HIDE DEF c
  <1>5. /\ c \o b \in Seq(S) /\ Len(c \o b) = Len(s) + Len(t)
        /\ \A k \in 1..(i - 1 + Len(t)) : (c \o b)[k] = c[k]
        /\ \A k \in 1..(Len(s) + 1 - i) : (c \o b)[i - 1 + Len(t) + k] = b[k]
    <2>1. c \in Seq(S) /\ i - 1 + Len(t) = Len(c) /\ Len(s) + Len(t) = Len(c) + Len(b)
      BY <1>1, <1>3, <1>4 DEF c
    <2>2. b \in Seq(S)
      BY <1>3
    <2>3. /\ c \o b \in Seq(S) /\ Len(c \o b) = Len(c) + Len(b)
          /\ \A k \in 1..Len(c) : (c \o b)[k] = c[k]
          /\ \A k \in 1..Len(b) : (c \o b)[Len(c) + k] = b[k]
      BY <2>1, <2>2, ConcatItems
    <2> QED
      BY <1>3, <2>1, <2>3
  <1>6. Splice(s, i, t) = c \o b
    BY DEF Splice, a, b, c
  <1>7. ASSUME NEW k \in i..Len(s) PROVE (c \o b)[k + Len(t)] = s[k]
    <2>1. k - i + 1 \in 1..(Len(s) + 1 - i) /\ k + Len(t) = i - 1 + Len(t) + (k - i + 1)
          /\ i - 1 + (k - i + 1) = k
      BY <1>1
    <2> QED
      BY <1>3, <1>5, <2>1
  <1>8. \A k \in 1..(i - 1) : (c \o b)[k] = s[k]
    BY <1>1, <1>4, <1>5 DEF c
  <1>9. \A k \in 1..Len(t) : (c \o b)[i - 1 + k] = t[k]
    BY <1>1, <1>4, <1>5 DEF c
  <1> QED
    BY <1>5, <1>6, <1>7, <1>8, <1>9 DEF Inserted

\* Taking out what was inserted; whatever it was has the same length now.
LEMMA UnspliceItems ==
    ASSUME NEW S, NEW s \in Seq(S), NEW t \in Seq(S), NEW i \in 1..(Len(s) + 1),
           NEW r \in Seq(S), Inserted(r, s, i, t)
    PROVE  Unsplice(r, i, Len(t)) = s
  <1> DEFINE a == SubSeq(r, 1, i - 1)
             b == SubSeq(r, i + Len(t), Len(r))
  <1>1. Len(s) \in Nat /\ Len(t) \in Nat /\ i \in Nat /\ i >= 1 /\ i <= Len(s) + 1
    BY LenProperties
  <1>2. a \in Seq(S) /\ Len(a) = i - 1 /\ \A k \in 1..(i - 1) : a[k] = s[k]
    <2>1. \A k \in 1..(i - 1) : r[k] \in S
      BY <1>1, ElementOfSeq DEF Inserted
    <2> QED
      BY <1>1, <2>1, SubSeqProperties DEF Inserted
  <1>3. b \in Seq(S) /\ Len(b) = Len(s) + 1 - i
        /\ \A k \in 1..(Len(s) + 1 - i) : b[k] = s[i - 1 + k]
    <2>1. \A k \in (i + Len(t))..Len(r) : r[k] \in S
      BY <1>1, ElementOfSeq DEF Inserted
    <2>2. /\ b \in Seq(S) /\ Len(b) = Len(s) + 1 - i
          /\ \A k \in 1..(Len(s) + 1 - i) : b[k] = r[i + Len(t) + k - 1]
      BY <1>1, <2>1, SubSeqProperties DEF Inserted
    <2>3. ASSUME NEW k \in 1..(Len(s) + 1 - i) PROVE b[k] = s[i - 1 + k]
      <3>1. i - 1 + k \in i..Len(s) /\ i + Len(t) + k - 1 = (i - 1 + k) + Len(t)
        BY <1>1
      <3> QED
        BY <2>2, <3>1 DEF Inserted
    <2> QED
      BY <2>2, <2>3
  <1> HIDE DEF a, b
  <1>4. /\ a \o b \in Seq(S) /\ Len(a \o b) = Len(s)
        /\ \A k \in 1..Len(s) :
             (a \o b)[k] = IF k <= i - 1 THEN a[k] ELSE b[k - (i - 1)]
    <2>1. Len(a) + Len(b) = Len(s)
      BY <1>1, <1>2, <1>3
    <2> QED
      BY <1>2, <1>3, <2>1, ConcatProperties
  <1>5. ASSUME NEW k \in 1..Len(s) PROVE (a \o b)[k] = s[k]
    <2>1. CASE k <= i - 1
      BY <1>1, <1>2, <1>4, <2>1
    <2>2. CASE ~(k <= i - 1)
      <3>1. k - (i - 1) \in 1..(Len(s) + 1 - i) /\ i - 1 + (k - (i - 1)) = k
        BY <1>1, <2>2
      <3> QED
        BY <1>3, <1>4, <2>2, <3>1
    <2> QED
      BY <2>1, <2>2
  <1>6. a \o b = s
    BY <1>4, <1>5, SeqEqual
  <1> QED
    BY <1>6 DEF Unsplice, a, b

\* Turning a sequence round.
LEMMA ReverseItems ==
    ASSUME NEW S, NEW t \in Seq(S)
    PROVE  /\ Reverse(t) \in Seq(S) /\ Len(Reverse(t)) = Len(t)
           /\ \A k \in 1..Len(t) : /\ Reverse(t)[k] = t[Len(t) + 1 - k]
                                   /\ Len(t) + 1 - k \in 1..Len(t)
  <1>1. Len(t) \in Nat /\ \A k \in 1..Len(t) : t[k] \in S
    BY LenProperties, ElementOfSeq
  <1>2. \A k \in 1..Len(t) : Len(t) + 1 - k \in 1..Len(t) /\ Len(t) - k + 1 = Len(t) + 1 - k
    BY <1>1
  <1>3. Reverse(t) = [k \in 1..Len(t) |-> t[Len(t) - k + 1]]
    BY DEF Reverse
  <1>4. Reverse(t) \in [1..Len(t) -> S]
    BY <1>1, <1>2, <1>3
  <1>5. Reverse(t) \in Seq(S) /\ Len(Reverse(t)) = Len(t)
    BY <1>1, <1>4
  <1> QED
    BY <1>2, <1>3, <1>5

\* The insertion loops insert, and what they inserted can be taken out.
LEMMA InsertItems ==
    ASSUME NEW S, NEW s \in Seq(S), NEW t \in Seq(S), NEW i \in 1..(Len(s) + 1)
    PROVE  /\ InsertEach(s, i, t) \in Seq(S)
           /\ Inserted(InsertEach(s, i, t), s, i, Reverse(t))
           /\ Unsplice(InsertEach(s, i, t), i, Len(t)) = s
  <1> DEFINE u == Reverse(t)
  <1>1. u \in Seq(S) /\ Len(u) = Len(t)
    BY ReverseItems
  <1> HIDE DEF u
  <1>2. Splice(s, i, u) \in Seq(S) /\ Inserted(Splice(s, i, u), s, i, u)
    BY <1>1, SpliceItems
  <1>3. Unsplice(Splice(s, i, u), i, Len(u)) = s
    BY <1>1, <1>2, UnspliceItems
  <1> QED
    BY <1>1, <1>2, <1>3 DEF InsertEach, u

\* What stands where when the items of t were inserted one by one, then x.
InsertedLast(r, s, i, t, x) ==
    /\ r[i] = x
    /\ \A k \in 1..Len(t) : r[i + k] = t[Len(t) + 1 - k]
    /\ \A k \in i..Len(s) : r[k + (Len(t) + 1)] = s[k]
    /\ \A k \in 1..(i - 1) : r[k] = s[k]

\* The last item comes first, and may be overwritten there.
LEMMA InsertLast ==
    ASSUME NEW S, NEW s \in Seq(S), NEW t \in Seq(S), NEW i \in 1..(Len(s) + 1),
           NEW x \in S, NEW y \in S
    PROVE  LET r == InsertEach(s, i, Append(t, x))
           IN  /\ i \in 1..Len(r)
               /\ Len(Append(t, x)) = Len(t) + 1
               /\ r[i] = x
               /\ InsertedLast(r, s, i, t, x)
               /\ [r EXCEPT ![i] = y] = InsertEach(s, i, Append(t, y))
  <1> DEFINE a == Append(t, x)
             b == Append(t, y)
             r == InsertEach(s, i, a)
             q == InsertEach(s, i, b)
             n == Len(t)
  <1>1. Len(s) \in Nat /\ n \in Nat /\ i \in Nat /\ i >= 1 /\ i <= Len(s) + 1
    BY LenProperties
  <1>2. /\ a \in Seq(S) /\ Len(a) = n + 1 /\ a[n + 1] = x /\ \A k \in 1..n : a[k] = t[k]
        /\ b \in Seq(S) /\ Len(b) = n + 1 /\ b[n + 1] = y /\ \A k \in 1..n : b[k] = t[k]
    BY AppendProperties
  <1> HIDE DEF a, b
  <1>3. /\ a \in Seq(S) /\ b \in Seq(S)
        /\ r \in Seq(S) /\ Inserted(r, s, i, Reverse(a))
        /\ q \in Seq(S) /\ Inserted(q, s, i, Reverse(b))
    <2>1. a \in Seq(S) /\ b \in Seq(S)
      BY <1>2
    <2> QED
      BY <2>1, InsertItems
  <1> HIDE DEF r, q, n
  <1>4. /\ Len(Reverse(a)) = n + 1 /\ Reverse(a)[1] = x
        /\ \A k \in 1..n : Reverse(a)[k + 1] = t[n + 1 - k]
        /\ Len(Reverse(b)) = n + 1 /\ Reverse(b)[1] = y
        /\ \A k \in 1..n : Reverse(b)[k + 1] = t[n + 1 - k]
    <2>1. /\ Len(Reverse(a)) = n + 1 /\ Len(Reverse(b)) = n + 1
          /\ \A k \in 1..(n + 1) : /\ Reverse(a)[k] = a[(n + 1) + 1 - k]
                                  /\ Reverse(b)[k] = b[(n + 1) + 1 - k]
      <3>1. ASSUME NEW c \in Seq(S), Len(c) = n + 1
            PROVE  /\ Len(Reverse(c)) = n + 1
                   /\ \A k \in 1..(n + 1) : Reverse(c)[k] = c[(n + 1) + 1 - k]
        BY <3>1, ReverseItems
      <3> QED
        BY <1>2, <3>1
    <2>2. 1 \in 1..(n + 1) /\ (n + 1) + 1 - 1 = n + 1
      BY <1>1
    <2>3. \A k \in 1..n : /\ k + 1 \in 1..(n + 1) /\ n + 1 - k \in 1..n
                          /\ (n + 1) + 1 - (k + 1) = n + 1 - k
      BY <1>1
    <2>4. Reverse(a)[1] = x /\ Reverse(b)[1] = y
      <3>1. PICK k \in 1..(n + 1) : k = 1
        BY <2>2
      <3>2. Reverse(a)[k] = a[(n + 1) + 1 - k] /\ Reverse(b)[k] = b[(n + 1) + 1 - k]
        BY <2>1
      <3>3. (n + 1) + 1 - k = n + 1
        BY <1>1, <3>1
      <3> QED
        BY <1>2, <3>1, <3>2, <3>3
    <2>5. ASSUME NEW k \in 1..n
          PROVE  Reverse(a)[k + 1] = t[n + 1 - k] /\ Reverse(b)[k + 1] = t[n + 1 - k]
      <3>1. k + 1 \in 1..(n + 1) /\ n + 1 - k \in 1..n /\ (n + 1) + 1 - (k + 1) = n + 1 - k
        BY <2>3
      <3>2. Reverse(a)[k + 1] = a[n + 1 - k] /\ Reverse(b)[k + 1] = b[n + 1 - k]
        BY <2>1, <3>1
      <3> QED
        BY <1>2, <3>1, <3>2
    <2> QED
      BY <2>1, <2>4, <2>5
  <1>5. i \in 1..Len(r) /\ Len(r) = Len(s) + (n + 1) /\ Len(q) = Len(r)
    BY <1>1, <1>3, <1>4 DEF Inserted
  <1>6. r[i] = x /\ q[i] = y
    <2>1. 1 \in 1..(n + 1) /\ i - 1 + 1 = i
      BY <1>1
    <2> QED
      BY <1>3, <1>4, <2>1 DEF Inserted
  <1>7. \A k \in 1..n : r[i + k] = t[n + 1 - k] /\ q[i + k] = t[n + 1 - k]
    <2>1. \A k \in 1..n : k + 1 \in 1..(n + 1) /\ i - 1 + (k + 1) = i + k
      BY <1>1
    <2> QED
      BY <1>3, <1>4, <2>1 DEF Inserted
  <1>8. /\ \A k \in i..Len(s) : r[k + (n + 1)] = s[k] /\ q[k + (n + 1)] = s[k]
        /\ \A k \in 1..(i - 1) : r[k] = s[k] /\ q[k] = s[k]
    BY <1>3, <1>4 DEF Inserted
  <1>9. [r EXCEPT ![i] = y] = q
    <2> DEFINE p == [r EXCEPT ![i] = y]
    <2>1. p \in Seq(S) /\ Len(p) = Len(r)
          /\ \A j \in 1..Len(r) : p[j] = IF j = i THEN y ELSE r[j]
      BY <1>3, <1>5, ExceptSeq
    <2> HIDE DEF p
    <2>2. ASSUME NEW j \in 1..Len(p), j # i PROVE r[j] = q[j]
      <3>1. j \in Nat /\ j >= 1 /\ j <= Len(s) + (n + 1)
        BY <1>1, <1>5, <2>1
      <3>2. CASE j < i
        <4>1. j \in 1..(i - 1)
          BY <1>1, <3>1, <3>2
        <4> QED
          BY <1>8, <4>1
      <3>3. CASE i < j /\ j <= i + n
        <4>1. j - i \in 1..n /\ i + (j - i) = j
          BY <1>1, <3>1, <3>3
        <4> QED
          BY <1>7, <4>1
      <3>4. CASE i + n < j
        <4>1. j - (n + 1) \in i..Len(s) /\ j - (n + 1) + (n + 1) = j
          BY <1>1, <3>1, <3>4
        <4> QED
          BY <1>8, <4>1
      <3> QED
        BY <1>1, <2>2, <3>1, <3>2, <3>3, <3>4
    <2>3. \A j \in 1..Len(p) : p[j] = q[j]
      BY <1>6, <2>1, <2>2
    <2>4. p = q
      BY <1>3, <1>5, <2>1, <2>3, SeqEqual
    <2> QED
      BY <2>4 DEF p
  <1> QED
    BY <1>2, <1>5, <1>6, <1>7, <1>8, <1>9 DEF r, q, a, b, n, InsertedLast

-----------------------------------------------------------------------------
(* The parts of a variant.                                                 *)

\* Every node has been left when the parser returns.
LEMMA ParsedAtEnd ==
    ASSUME IInv, phase = "parse", cmd > Len(script)
    PROVE  Parsed(script)
  <1>1. /\ script \in Seq(Command) /\ DOMAIN script = DOMAIN source
        /\ source \in Seq(Command)
    BY SourceType DEF IInv, TypeOK, IsScript, OnlyConstantsReplaced
  <1>2. \A c \in DOMAIN source : \A n : Exited(c, n)
    <2>1. DOMAIN source = 1..Len(script) /\ Len(script) \in Nat /\ cmd \in Nat
      BY <1>1, LenProperties DEF IInv, TypeOK
    <2> QED
      BY <2>1 DEF Exited
  <1>3. ExitedNodes = Nodes(source)
    BY <1>2, NodesElim DEF ExitedNodes
  <1>4. ASSUME NEW p \in Nodes(source)
        PROVE  IF IsConstant(source, p)
               THEN \E k \in 1..counter : NodeAt(script, p) = Leaf(GenName(k))
               ELSE NodeAt(script, p) = NodeAt(source, p)
    <2>1. p[1] \in DOMAIN source /\ p[2] \in DOMAIN source[p[1]].term
          /\ p = <<p[1], p[2]>>
      BY NodesElim
    <2>2. Exited(p[1], p[2])
      BY <1>2, <2>1
    <2> QED
      BY <2>1, <2>2 DEF IInv, OnlyConstantsReplaced, NodeAt
  <1> QED
    BY <1>1, <1>3, <1>4 DEF Parsed, IInv, OnlyConstantsReplaced, ConstantsKeptApart,
       NumeralsDeclared, CopiesInPlace

\* The listener's results do not change after the parser.
LEMMA ParsedKept ==
    ASSUME UNCHANGED <<source, counter, newVars, bexps>>
    PROVE  \A s : Parsed(s) => Parsed(s)'
  <1>1. Nodes(source)' = Nodes(source)
    BY DEF Nodes
  <1>2. \A p : IsConstant(source, p)' = IsConstant(source, p)
               /\ IsBoolOp(source, p)' = IsBoolOp(source, p)
               /\ NodeAt(source, p)' = NodeAt(source, p)
    BY DEF IsConstant, IsBoolOp, NodeAt
  <1> QED
    BY <1>1, <1>2 DEF Parsed

\* Every set of numbers has a least one.
LEMMA Least ==
    ASSUME NEW T, T \subseteq Nat, T # {}
    PROVE  \E k \in T : \A j \in T : k <= j
  <1> DEFINE R == OpToRel(<, Nat)
  <1>1. IsWellFoundedOn(R, Nat)
    BY NatLessThanWellFounded
  <1>2. \A j, k \in Nat : j < k => <<j, k>> \in R
    BY DEF OpToRel
  <1> HIDE DEF R
  <1>3. PICK k \in T : \A j \in T : ~(<<j, k>> \in R)
    BY <1>1, WFMin
  <1>4. ASSUME NEW j \in T PROVE k <= j
    <2>1. j \in Nat /\ k \in Nat /\ ~(j < k)
      BY <1>2, <1>3
    <2> QED
      BY <2>1
  <1> QED
    BY <1>4

\* A kind of which there is no first command is not there.
LEMMA NoFirst ==
    ASSUME NEW s \in Seq(Command), NEW kind
    PROVE  /\ Firsts(s, kind) = {i \in 1..Len(s) : /\ s[i].kind = kind
                                                 /\ \A j \in 1..(i - 1) : s[j].kind # kind}
           /\ Firsts(s, kind) = {} => \A i \in 1..Len(s) : s[i].kind # kind
  <1>1. Len(s) \in Nat /\ DOMAIN s = 1..Len(s)
    BY LenProperties
  <1>2. Firsts(s, kind) = {i \in 1..Len(s) : /\ s[i].kind = kind
                                            /\ \A j \in 1..(i - 1) : s[j].kind # kind}
    BY <1>1 DEF Firsts
  <1>3. ASSUME Firsts(s, kind) = {}, NEW i \in 1..Len(s), s[i].kind = kind
        PROVE  FALSE
    <2> DEFINE C == {k \in 1..Len(s) : s[k].kind = kind}
    <2>1. i \in C /\ C \in SUBSET Nat
      BY <1>1, <1>3
    <2>2. PICK k \in C : \A j \in C : k <= j
      BY <2>1, Least
    <2>3. \A j \in 1..(k - 1) : s[j].kind # kind
      BY <1>1, <2>2
    <2> QED
      BY <1>2, <1>3, <2>2, <2>3
  <1> QED
    BY <1>2, <1>3

\* The command behind set-logic, or the first if there is no set-logic.
LEMMA AfterLogicIs ==
    ASSUME NEW s \in Seq(Command)
    PROVE  /\ AfterLogic(s) \in 1..(Len(s) + 1)
           /\ \/ AfterLogic(s) = 1 /\ \A i \in 1..Len(s) : s[i].kind # "set-logic"
              \/ /\ AfterLogic(s) - 1 \in 1..Len(s)
                 /\ s[AfterLogic(s) - 1].kind = "set-logic"
  <1> DEFINE F == Firsts(s, "set-logic")
             At(i) == IF F = {} THEN i = 1 ELSE i - 1 \in F
  <1>1. Len(s) \in Nat
    BY LenProperties
  <1>2. /\ F \subseteq {i \in 1..Len(s) : s[i].kind = "set-logic"}
        /\ F = {} => \A i \in 1..Len(s) : s[i].kind # "set-logic"
    <2>1. F = {i \in 1..Len(s) : /\ s[i].kind = "set-logic"
                                 /\ \A j \in 1..(i - 1) : s[j].kind # "set-logic"}
      BY NoFirst
    <2>2. F = {} => \A i \in 1..Len(s) : s[i].kind # "set-logic"
      BY NoFirst
    <2> HIDE DEF F
    <2> QED
      BY <2>1, <2>2
  <1>3. AfterLogic(s) = CHOOSE i \in 1..(Len(s) + 1) : At(i)
    BY DEF AfterLogic
  <1> HIDE DEF F
  <1>4. \E i \in 1..(Len(s) + 1) : At(i)
    <2>1. CASE F = {}
      BY <1>1, <2>1
    <2>2. CASE F # {}
      <3>1. PICK j \in F : TRUE
        BY <2>2
      <3>2. j + 1 \in 1..(Len(s) + 1) /\ (j + 1) - 1 = j
        BY <1>1, <1>2, <3>1
      <3> QED
        BY <2>2, <3>1, <3>2
    <2> QED
      BY <2>1, <2>2
  <1>5. At(AfterLogic(s)) /\ AfterLogic(s) \in 1..(Len(s) + 1)
    BY <1>3, <1>4
  <1> QED
    BY <1>2, <1>5

\* The first check-sat, or one past the end if there is none.
LEMMA FirstQueryIs ==
    ASSUME NEW s \in Seq(Command)
    PROVE  /\ FirstQuery(s) \in 1..(Len(s) + 1)
           /\ \A j \in 1..(FirstQuery(s) - 1) : s[j].kind # "check-sat"
           /\ FirstQuery(s) <= Len(s) => s[FirstQuery(s)].kind = "check-sat"
           /\ \A q \in 1..(Len(s) + 1) :
                /\ \A j \in 1..(q - 1) : s[j].kind # "check-sat"
                /\ q <= Len(s) => s[q].kind = "check-sat"
                => FirstQuery(s) = q
  <1> DEFINE F == Firsts(s, "check-sat")
             q0 == FirstQuery(s)
             At(q) == IF F = {} THEN q = Len(s) + 1 ELSE q \in F
  <1>1. Len(s) \in Nat /\ DOMAIN s = 1..Len(s)
    BY LenProperties
  <1>2. F = {i \in 1..Len(s) : s[i].kind = "check-sat"
                               /\ \A j \in 1..(i - 1) : s[j].kind # "check-sat"}
    BY NoFirst
  <1>7. F = {} => \A i \in 1..Len(s) : s[i].kind # "check-sat"
    BY NoFirst
  <1>3. q0 = CHOOSE q \in 1..(Len(s) + 1) : At(q)
    BY DEF FirstQuery
  <1>4. q0 \in 1..(Len(s) + 1)
    BY InsertionPoints
  <1>5. \E q \in 1..(Len(s) + 1) : At(q)
    <2>1. CASE F = {}
      BY <1>1, <2>1
    <2>2. CASE F # {}
      BY <1>1, <1>2, <2>2
    <2> QED
      BY <2>1, <2>2
  <1> HIDE DEF F, q0
  <1>6. At(q0)
    BY <1>3, <1>5
  <1>8. /\ \A j \in 1..(q0 - 1) : s[j].kind # "check-sat"
        /\ q0 <= Len(s) => s[q0].kind = "check-sat"
    BY <1>1, <1>2, <1>4, <1>6, <1>7
  <1>9. ASSUME NEW q \in 1..(Len(s) + 1),
               \A j \in 1..(q - 1) : s[j].kind # "check-sat",
               q <= Len(s) => s[q].kind = "check-sat"
        PROVE  q0 = q
    <2>1. ~(q0 < q)
      <3> SUFFICES ASSUME q0 < q PROVE FALSE
        OBVIOUS
      <3>1. q0 \in 1..(q - 1) /\ q0 <= Len(s)
        BY <1>1, <1>4
      <3> QED
        BY <1>8, <1>9, <3>1
    <2>2. ~(q < q0)
      <3> SUFFICES ASSUME q < q0 PROVE FALSE
        OBVIOUS
      <3>1. q \in 1..(q0 - 1) /\ q <= Len(s)
        BY <1>1, <1>4
      <3> QED
        BY <1>8, <1>9, <3>1
    <2> QED
      BY <1>1, <1>4, <2>1, <2>2
  <1> QED
    BY <1>4, <1>8, <1>9 DEF q0

\* There is one command for each generated name, and one equation for each
\* copied term.
LEMMA PartsType ==
    ASSUME TypeOK
    PROVE  /\ NumBavs \in Nat
           /\ Decls \in Seq(Command)
           /\ Inits \in Seq(Command) /\ Len(Inits) = NumBavs
           /\ \A k \in 1..NumBavs : Inits[k] = BavInit(k)
  <1>1. NumBavs \in Nat
    BY DEF NumBavs, TypeOK
  <1>2. Len([k \in 1..NumBavs |-> BavInit(k)]) = NumBavs
    BY <1>1
  <1> QED
    BY <1>1, <1>2, DeclsType, InitsType DEF Inits

\* Where the parts are, and their types.
LEMMA BuiltParts ==
    ASSUME TypeOK, Built
    PROVE  /\ phase # "parse" =>
                /\ BeforeDecls \in Seq(Command)
                /\ startAt \in 1..(Len(BeforeDecls) + 1)
                /\ BeforeInits \in Seq(Command)
           /\ phase \in {"loop", "ready"} =>
                /\ endAt \in 1..(Len(BeforeInits) + 1)
                /\ script \in Seq(Command) /\ endAt \in 1..Len(script)
                /\ script[endAt] \in Command
  <1>1. ASSUME phase # "parse"
        PROVE  /\ BeforeDecls \in Seq(Command)
               /\ startAt \in 1..(Len(BeforeDecls) + 1)
               /\ BeforeInits \in Seq(Command)
    <2>1. BeforeDecls \in Seq(Command) /\ startAt = AfterLogic(BeforeDecls)
      BY <1>1 DEF Built, Parsed
    <2>2. startAt \in 1..(Len(BeforeDecls) + 1)
      BY <2>1, InsertionPoints
    <2>3. InsertEach(BeforeDecls, startAt, Decls) \in Seq(Command)
      BY <2>1, <2>2, PartsType, InsertItems
    <2> QED
      BY <1>1, <2>1, <2>2, <2>3 DEF Built
  <1>2. ASSUME phase \in {"loop", "ready"}
        PROVE  /\ endAt \in 1..(Len(BeforeInits) + 1)
               /\ script \in Seq(Command) /\ endAt \in 1..Len(script)
               /\ script[endAt] \in Command
    <2>1. BeforeInits \in Seq(Command)
      BY <1>1, <1>2
    <2>2. endAt \in 1..(Len(BeforeInits) + 1)
      BY <1>2, <2>1, InsertionPoints DEF Built
    <2>3. script \in Seq(Command)
      BY DEF TypeOK, IsScript
    <2>4. endAt \in 1..Len(script)
      BY <1>2, <2>3, LenProperties DEF Built
    <2> QED
      BY <2>2, <2>3, <2>4, ElementOfSeq
  <1> QED
    BY <1>1, <1>2

\* The parser goes on: nothing has been inserted.
LEMMA BuiltParse ==
    ASSUME phase' = "parse"
    PROVE  Built'
  BY DEF Built

\* The declarations come behind set-logic.
LEMMA BuiltDecls ==
    ASSUME IInv, InsertDecls
    PROVE  Built' /\ BeforeDecls' = BeforeDecls
  <1> SUFFICES ASSUME NEW s, s = script, NEW t, t = Decls
               PROVE  Built' /\ BeforeDecls' = BeforeDecls
    OBVIOUS
  <1>1. /\ phase = "parse" /\ cmd > Len(script) /\ phase' = "decls"
        /\ startAt' = AfterLogic(s) /\ script' = InsertEach(s, startAt', t)
        /\ UNCHANGED <<source, counter, newVars, bexps>>
    BY DEF InsertDecls, StartInsertionPoint
  <1>2. Parsed(s) /\ s \in Seq(Command)
    BY <1>1, ParsedAtEnd DEF Parsed
  <1>3. t \in Seq(Command) /\ startAt' \in 1..(Len(s) + 1)
    BY <1>1, <1>2, DeclsType, InsertionPoints DEF IInv
  <1>4. Decls' = t
    BY <1>1 DEF Decls, NumBavs
  <1>5. Unsplice(script', startAt', Len(t)) = s
    BY <1>1, <1>2, <1>3, InsertItems
  <1>6. BeforeInits' = script' /\ BeforeDecls' = s
    BY <1>1, <1>4, <1>5 DEF BeforeInits, BeforeDecls, Unsplice
  <1>7. Parsed(s)'
    BY <1>1, <1>2, ParsedKept
  <1>8. Parsed(BeforeDecls)'
    BY <1>6, <1>7 DEF Parsed
  <1>9. /\ phase' \notin {"parse", "loop", "ready"}
        /\ startAt' = AfterLogic(BeforeDecls')
        /\ BeforeInits' = InsertEach(BeforeDecls', startAt', Decls')
    BY <1>1, <1>4, <1>6
  <1>10. BeforeDecls = s
    BY <1>1 DEF BeforeDecls
  <1> QED
    BY <1>6, <1>8, <1>9, <1>10 DEF Built

\* A term makes an assertion, and an assertion has a term.
LEMMA AssertTerm == \A t : AssertThat(t) = AssertThat(AssertThat(t).term)
  BY DEF AssertThat, Cmd

\* The placeholder and the equations come before the first check-sat.
LEMMA BuiltInits ==
    ASSUME IInv, Built, InsertInits
    PROVE  Built' /\ BeforeDecls' = BeforeDecls
  <1> SUFFICES ASSUME NEW s, s = script, NEW d, d = BeforeDecls,
                      NEW x, x = AssertThat(<<Leaf(Op("true"))>>)
               PROVE  Built' /\ BeforeDecls' = d
    OBVIOUS
  <1>1. /\ phase = "decls" /\ phase' = "loop" /\ endAt' = FirstQuery(s)
        /\ script' = InsertEach(s, endAt', Append(Inits, x))
        /\ UNCHANGED <<source, counter, newVars, bexps, startAt>>
    BY DEF InsertInits, EndInsertionPoint
  <1>2. TypeOK
    BY DEF IInv
  <1>3. BeforeInits = s
    BY <1>1 DEF BeforeInits
  <1>4. /\ Parsed(d) /\ startAt = AfterLogic(d) /\ s = InsertEach(d, startAt, Decls)
    BY <1>1, <1>3 DEF Built
  <1>5. /\ Inits' = Inits /\ Decls' = Decls /\ NumBavs' = NumBavs
    BY <1>1 DEF Inits, Decls, NumBavs, BavInit
  <1>6. s \in Seq(Command) /\ endAt' \in 1..(Len(s) + 1) /\ x \in Command
    <2>1. s \in Seq(Command)
      BY <1>2 DEF TypeOK, IsScript
    <2>2. <<Leaf(Op("true"))>> \in Seq(Node)
      BY LeafType, OpType
    <2> QED
      BY <1>1, <2>1, <2>2, InsertionPoints, CommandType
  <1>7. Inits \in Seq(Command) /\ Len(Inits) = NumBavs
    BY <1>2, PartsType
  <1>8. /\ endAt' \in 1..Len(script') /\ script'[endAt'] = x
        /\ Len(Append(Inits, x)) = NumBavs + 1
    BY <1>1, <1>6, <1>7, InsertLast
  <1>9. script' \in Seq(Command) /\ Unsplice(script', endAt', NumBavs + 1) = s
    <2>1. Append(Inits, x) \in Seq(Command)
      BY <1>6, <1>7, AppendProperties
    <2>2. \A t \in Seq(Command) :
             /\ InsertEach(s, endAt', t) \in Seq(Command)
             /\ Unsplice(InsertEach(s, endAt', t), endAt', Len(t)) = s
      BY <1>6, InsertItems
    <2> QED
      BY <1>1, <1>8, <2>1, <2>2
  <1>10. BeforeInits' = s
    BY <1>1, <1>5, <1>9 DEF BeforeInits, Unsplice
  <1>11. BeforeDecls' = d
    <2>1. d = Unsplice(s, startAt, Len(Decls))
      BY <1>1, <1>3 DEF BeforeDecls
    <2> QED
      BY <1>1, <1>5, <1>10, <2>1 DEF BeforeDecls, Unsplice
  <1>12. Parsed(BeforeDecls)'
    <2>1. Parsed(d)'
      BY <1>1, <1>4, ParsedKept
    <2> QED
      BY <1>11, <2>1 DEF Parsed
  <1>13. /\ startAt' = AfterLogic(BeforeDecls')
         /\ BeforeInits' = InsertEach(BeforeDecls', startAt', Decls')
    BY <1>1, <1>4, <1>5, <1>10, <1>11
  <1>14. /\ endAt' = FirstQuery(BeforeInits') /\ endAt' \in DOMAIN script'
         /\ script'[endAt'] = AssertThat(script'[endAt'].term)
         /\ script' = InsertEach(BeforeInits', endAt', Append(Inits', script'[endAt']))
    <2>1. DOMAIN script' = 1..Len(script')
      BY <1>9, LenProperties
    <2>2. x = AssertThat(x.term)
      BY AssertTerm
    <2> QED
      BY <1>1, <1>5, <1>8, <1>10, <2>1, <2>2
  <1> QED
    BY <1>1, <1>11, <1>12, <1>13, <1>14 DEF Built

\* The loop body overwrites the assertion at end_insertion_point.
LEMMA BuiltAssertion ==
    ASSUME IInv, Built, NEW f \in Assignments, SetAssertion(f)
    PROVE  Built' /\ BeforeDecls' = BeforeDecls
  <1> SUFFICES ASSUME NEW b, b = BeforeInits, NEW d, d = BeforeDecls,
                      NEW x, x = script[endAt], NEW y, y = AssertThat(BamTerm(f))
               PROVE  Built' /\ BeforeDecls' = d
    OBVIOUS
  <1>1. /\ phase \in {"loop", "ready"} /\ phase' = "ready" /\ values' = f
        /\ script' = [script EXCEPT ![endAt] = y]
        /\ UNCHANGED <<source, counter, newVars, bexps, startAt, endAt>>
    BY DEF SetAssertion
  <1>2. TypeOK
    BY DEF IInv
  <1>3. /\ Parsed(d) /\ startAt = AfterLogic(d) /\ b = InsertEach(d, startAt, Decls)
        /\ endAt = FirstQuery(b) /\ script = InsertEach(b, endAt, Append(Inits, x))
    BY <1>1 DEF Built
  <1>4. /\ Inits' = Inits /\ Decls' = Decls /\ NumBavs' = NumBavs
    BY <1>1 DEF Inits, Decls, NumBavs, BavInit
  <1>5. /\ b \in Seq(Command) /\ endAt \in 1..(Len(b) + 1) /\ x \in Command
        /\ script \in Seq(Command) /\ endAt \in 1..Len(script)
    BY <1>1, <1>2, BuiltParts
  <1>6. y \in Command
    <2>1. f \in Seq(BOOLEAN)
      <3>1. NumBavs \in Nat
        BY <1>2, PartsType
      <3> QED
        BY <3>1 DEF Assignments
    <2> QED
      BY <2>1, BamType, CommandType
  <1>7. Inits \in Seq(Command) /\ Len(Inits) = NumBavs
    BY <1>2, PartsType
  <1>8. /\ script' = InsertEach(b, endAt, Append(Inits, y))
        /\ endAt \in 1..Len(script') /\ script'[endAt] = y
        /\ Len(Append(Inits, y)) = NumBavs + 1
    <2>1. [InsertEach(b, endAt, Append(Inits, x)) EXCEPT ![endAt] = y]
             = InsertEach(b, endAt, Append(Inits, y))
      BY <1>5, <1>6, <1>7, InsertLast
    <2>2. script' = InsertEach(b, endAt, Append(Inits, y))
      BY <1>1, <1>3, <2>1
    <2> QED
      BY <1>5, <1>6, <1>7, <2>2, InsertLast
  <1>9. script' \in Seq(Command) /\ Unsplice(script', endAt, NumBavs + 1) = b
    <2>1. Append(Inits, y) \in Seq(Command)
      BY <1>6, <1>7, AppendProperties
    <2>2. \A t \in Seq(Command) :
             /\ InsertEach(b, endAt, t) \in Seq(Command)
             /\ Unsplice(InsertEach(b, endAt, t), endAt, Len(t)) = b
      BY <1>5, InsertItems
    <2> QED
      BY <1>8, <2>1, <2>2
  <1>10. BeforeInits' = b
    BY <1>1, <1>4, <1>9 DEF BeforeInits, Unsplice
  <1>11. BeforeDecls' = d
    <2>1. d = Unsplice(b, startAt, Len(Decls))
      BY <1>1 DEF BeforeDecls
    <2> QED
      BY <1>1, <1>4, <1>10, <2>1 DEF BeforeDecls, Unsplice
  <1>12. Parsed(BeforeDecls)'
    <2>1. Parsed(d)'
      BY <1>1, <1>3, ParsedKept
    <2> QED
      BY <1>11, <2>1 DEF Parsed
  <1>13. /\ startAt' = AfterLogic(BeforeDecls')
         /\ BeforeInits' = InsertEach(BeforeDecls', startAt', Decls')
    BY <1>1, <1>3, <1>4, <1>10, <1>11
  <1>14. /\ endAt' = FirstQuery(BeforeInits') /\ endAt' \in DOMAIN script'
         /\ script'[endAt'] = AssertThat(script'[endAt'].term)
         /\ script' = InsertEach(BeforeInits', endAt', Append(Inits', script'[endAt']))
    <2>1. DOMAIN script' = 1..Len(script')
      BY <1>9, LenProperties
    <2>2. y = AssertThat(y.term)
      BY AssertTerm
    <2> QED
      BY <1>1, <1>3, <1>4, <1>8, <1>10, <2>1, <2>2
  <1>15. values' \in Assignments' /\ script'[endAt'].term = BamTerm(values')
    <2>1. Assignments' = Assignments
      BY <1>4 DEF Assignments
    <2>2. y.term = BamTerm(f)
      BY DEF AssertThat, Cmd
    <2> QED
      BY <1>1, <1>8, <2>1, <2>2
  <1> QED
    BY <1>1, <1>11, <1>12, <1>13, <1>14, <1>15 DEF Built

LEMMA BuiltNext == IInv /\ Built /\ [Next]_vars => Built'
  <1> SUFFICES ASSUME IInv, Built, [Next]_vars PROVE Built'
    OBVIOUS
  <1>1. CASE ExitTerm \/ NextCommand
    BY <1>1, BuiltParse DEF ExitTerm, NextCommand, Parsing
  <1>2. CASE InsertDecls
    BY <1>2, BuiltDecls
  <1>3. CASE InsertInits
    BY <1>3, BuiltInits
  <1>4. CASE \E f \in Assignments : SetAssertion(f)
    BY <1>4, BuiltAssertion
  <1>5. CASE UNCHANGED vars
    <2> SUFFICES ASSUME NEW b, b = BeforeInits, NEW d, d = BeforeDecls,
                        NEW i, i = Inits, NEW e, e = Decls
                 PROVE  Built'
      OBVIOUS
    <2>1. UNCHANGED <<source, script, counter, newVars, bexps, phase, startAt, endAt, values>>
      BY <1>5 DEF vars
    <2>2. /\ Inits' = i /\ Decls' = e /\ NumBavs' = NumBavs /\ Assignments' = Assignments
      BY <2>1 DEF Inits, Decls, NumBavs, BavInit, Assignments
    <2>3. BeforeInits' = b
      BY <2>1, <2>2 DEF BeforeInits, Unsplice
    <2>4. BeforeDecls' = d
      BY <2>1, <2>2, <2>3 DEF BeforeDecls, Unsplice
    <2>5. phase # "parse" => Parsed(BeforeDecls)'
      <3> SUFFICES ASSUME phase # "parse" PROVE Parsed(BeforeDecls)'
        OBVIOUS
      <3>1. Parsed(d)'
        BY <2>1, ParsedKept DEF Built
      <3> QED
        BY <2>4, <3>1 DEF Parsed
    <2>6. /\ phase' # "parse" =>
               /\ startAt' = AfterLogic(BeforeDecls')
               /\ BeforeInits' = InsertEach(BeforeDecls', startAt', Decls')
          /\ phase' \in {"loop", "ready"} =>
               /\ endAt' = FirstQuery(BeforeInits') /\ endAt' \in DOMAIN script'
               /\ script'[endAt'] = AssertThat(script'[endAt'].term)
               /\ script' = InsertEach(BeforeInits', endAt', Append(Inits', script'[endAt']))
          /\ phase' = "ready" =>
               /\ values' \in Assignments'
               /\ script'[endAt'].term = BamTerm(values')
      BY <2>1, <2>2, <2>3, <2>4 DEF Built
    <2> QED
      BY <2>1, <2>5, <2>6 DEF Built
  <1> QED
    BY <1>1, <1>2, <1>3, <1>4, <1>5 DEF Next

\* The parts of every variant are where test_file put them: the declarations
\* behind set-logic, the truth assertion and the equations before the first
\* check-sat, and around them the sample with its constants renamed
\* (lib.rs:112-168).
THEOREM WellBuilt == Spec => []Built
  <1>1. Init => Built
    BY DEF Init, Built
  <1> QED
    BY <1>1, Inductive, BuiltNext, PTL DEF Spec

-----------------------------------------------------------------------------
(* The first query is made under all that was inserted before it.          *)

\* Only push and pop change the level.
LEMMA DepthFlat ==
    ASSUME NEW s, NEW i \in Nat, NEW j \in Nat, i <= j,
           \A m \in (i + 1)..j : s[m].kind \notin {"push", "pop"}
    PROVE  Depth(s, j) = Depth(s, i)
  <1>1. ASSUME NEW kind \in {"push", "pop"}
        PROVE  {m \in 1..j : s[m].kind = kind} = {m \in 1..i : s[m].kind = kind}
    <2>1. \A m \in 1..j : m \in 1..i \/ m \in (i + 1)..j
      OBVIOUS
    <2>2. 1..i \subseteq 1..j
      OBVIOUS
    <2> QED
      BY <1>1, <2>1, <2>2
  <1> QED
    BY <1>1 DEF Depth

\* A level is a number.
LEMMA DepthType ==
    ASSUME NEW s, NEW i \in Nat
    PROVE  Depth(s, i) \in Int
  <1>1. ASSUME NEW kind
        PROVE  Cardinality({m \in 1..i : s[m].kind = kind}) \in Nat
    <2>1. IsFiniteSet(1..i)
      BY FS_Interval
    <2>2. IsFiniteSet({m \in 1..i : s[m].kind = kind})
      BY <2>1, FS_Subset
    <2> QED
      BY <2>2, FS_CardinalityType
  <1>2. /\ Cardinality({m \in 1..i : s[m].kind = "push"}) \in Nat
        /\ Cardinality({m \in 1..i : s[m].kind = "pop"}) \in Nat
    BY <1>1
  <1> QED
    BY <1>2 DEF Depth

\* The truth assertion and the equations stand right before the first query.
LEMMA QueryAt ==
    ASSUME TypeOK, Built, phase = "ready"
    PROVE  /\ FirstQuery(script) = endAt + NumBavs + 1
           /\ \A m \in endAt..(endAt + NumBavs) : script[m].kind = "assert"
           /\ endAt \in Nat /\ NumBavs \in Nat /\ endAt >= 1
           /\ endAt + NumBavs <= Len(script)
  <1> DEFINE b == BeforeInits
             x == script[endAt]
             n == NumBavs
             r == InsertEach(b, endAt, Append(Inits, x))
  <1>1. /\ b \in Seq(Command) /\ endAt \in 1..(Len(b) + 1) /\ x \in Command
        /\ script \in Seq(Command) /\ Len(b) \in Nat
    BY BuiltParts, LenProperties
  <1>2. /\ Inits \in Seq(Command) /\ Len(Inits) = n /\ n \in Nat
        /\ \A k \in 1..n : Inits[k] = BavInit(k)
    BY PartsType
  <1>3. script = r /\ x = AssertThat(x.term) /\ endAt = FirstQuery(b)
    BY DEF Built
  <1>4. /\ r[endAt] = x
        /\ \A k \in 1..n : r[endAt + k] = Inits[n + 1 - k]
        /\ \A k \in endAt..Len(b) : r[k + (n + 1)] = b[k]
        /\ \A k \in 1..(endAt - 1) : r[k] = b[k]
    <2>1. InsertedLast(r, b, endAt, Inits, x)
      BY <1>1, <1>2, InsertLast
    <2> QED
      BY <1>2, <2>1 DEF InsertedLast
  <1>5. Len(r) = Len(b) + (n + 1)
    <2>1. Append(Inits, x) \in Seq(Command) /\ Len(Append(Inits, x)) = n + 1
      BY <1>1, <1>2, AppendProperties
    <2>2. Inserted(r, b, endAt, Reverse(Append(Inits, x)))
      BY <1>1, <2>1, InsertItems
    <2>3. Len(Reverse(Append(Inits, x))) = n + 1
      BY <2>1, ReverseItems
    <2> QED
      BY <2>2, <2>3 DEF Inserted
  <1> HIDE DEF b, n, r, x
  <1>6. \A m \in endAt..(endAt + n) : script[m].kind = "assert"
    <2>1. x.kind = "assert"
      BY <1>3 DEF AssertThat, Cmd
    <2>2. \A k \in 1..n : Inits[n + 1 - k].kind = "assert"
      <3>1. \A k \in 1..n : n + 1 - k \in 1..n
        BY <1>2
      <3>2. \A k \in 1..n : BavInit(k).kind = "assert"
        BY DEF BavInit, AssertThat, Cmd
      <3> QED
        BY <1>2, <3>1, <3>2
    <2>3. \A m \in endAt..(endAt + n) : m = endAt \/ (m - endAt \in 1..n /\ endAt + (m - endAt) = m)
      BY <1>1, <1>2
    <2> QED
      BY <1>3, <1>4, <2>1, <2>2, <2>3
  <1>7. FirstQuery(script) = endAt + n + 1
    <2>1. endAt + n + 1 \in 1..(Len(script) + 1)
      BY <1>1, <1>2, <1>3, <1>5
    <2>2. ASSUME NEW j \in 1..(endAt + n) PROVE script[j].kind # "check-sat"
      <3>1. CASE j < endAt
        <4>1. j \in 1..(endAt - 1)
          BY <1>1, <3>1
        <4> QED
          BY <1>1, <1>3, <1>4, <4>1, FirstQueryIs
      <3>2. CASE ~(j < endAt)
        <4>1. j \in endAt..(endAt + n)
          BY <1>1, <1>2, <3>2
        <4> QED
          BY <1>6, <4>1
      <3> QED
        BY <3>1, <3>2
    <2>3. ASSUME endAt + n + 1 <= Len(script)
          PROVE  script[endAt + n + 1].kind = "check-sat"
      <3>1. endAt \in endAt..Len(b) /\ endAt <= Len(b) /\ endAt + (n + 1) = endAt + n + 1
        BY <1>1, <1>2, <1>3, <1>5, <2>3
      <3>2. r[endAt + n + 1] = b[endAt]
        BY <1>4, <3>1
      <3> QED
        BY <1>1, <1>3, <3>1, <3>2, FirstQueryIs
    <2>4. (endAt + n + 1) - 1 = endAt + n
      BY <1>1, <1>2
    <2> DEFINE q == endAt + n + 1
    <2> HIDE DEF q
    <2>5. /\ q \in 1..(Len(script) + 1)
          /\ \A j \in 1..(q - 1) : script[j].kind # "check-sat"
          /\ q <= Len(script) => script[q].kind = "check-sat"
      BY <2>1, <2>2, <2>3, <2>4 DEF q
    <2>6. FirstQuery(script) = q
      BY <1>1, <2>5, FirstQueryIs
    <2> QED
      BY <2>6 DEF q
  <1> QED
    BY <1>1, <1>2, <1>3, <1>5, <1>6, <1>7 DEF n

\* The first query of a variant is made under the truth assertion and every
\* equation; a later one still is, unless the sample resets or pops the level
\* on which its first query was made (lib.rs:137-152, 168).
THEOREM Constrained == Spec => []QueriesConstrained
  <1>1. IInv /\ Built => QueriesConstrained
    <2> SUFFICES ASSUME IInv, Built, phase = "ready",
                        NEW q \in DOMAIN script, script[q].kind = "check-sat",
                        Survives(script, FirstQuery(script), q + 1),
                        NEW k \in 0..NumBavs
                 PROVE  Survives(script, endAt + k, q)
      BY DEF QueriesConstrained
    <2> DEFINE f == FirstQuery(script)
    <2>1. /\ f = endAt + NumBavs + 1 /\ endAt \in Nat /\ NumBavs \in Nat /\ endAt >= 1
          /\ \A m \in endAt..(endAt + NumBavs) : script[m].kind = "assert"
      BY QueryAt DEF IInv
    <2>2. script \in Seq(Command) /\ Len(script) \in Nat /\ q \in 1..Len(script)
      BY LenProperties DEF IInv, TypeOK, IsScript
    <2>3. /\ f < q + 1
          /\ \A m \in f..q : Depth(script, m) >= Depth(script, f)
          /\ \A m \in f..q : script[m].kind \notin Resets
      <3>1. (q + 1) - 1 = q
        BY <2>2
      <3> QED
        BY <3>1 DEF Survives, NoReset
    <2>4. script[f].kind = "check-sat"
      <3>1. f <= Len(script)
        BY <2>1, <2>2, <2>3
      <3> QED
        BY <2>2, <3>1, FirstQueryIs
    <2> HIDE DEF f
    <2>5. ASSUME NEW m \in (endAt + k)..f
          PROVE  Depth(script, m) = Depth(script, endAt + k)
      <3>1. m \in Nat /\ endAt + k \in Nat /\ endAt + k <= m
        BY <2>1
      <3>2. \A j \in (endAt + k + 1)..m : j \in endAt..(endAt + NumBavs) \/ j = f
        BY <2>1
      <3>3. \A j \in (endAt + k + 1)..m : script[j].kind \notin {"push", "pop"}
        BY <2>1, <2>4, <3>2
      <3> QED
        BY <3>1, <3>3, DepthFlat
    <2>6. Depth(script, f) = Depth(script, endAt + k)
      <3>1. f \in (endAt + k)..f
        BY <2>1
      <3> QED
        BY <2>5, <3>1
    <2>7. ASSUME NEW m \in (endAt + k)..(q - 1)
          PROVE  Depth(script, m) >= Depth(script, endAt + k)
      <3>1. CASE m <= f
        <4>1. m \in (endAt + k)..f
          BY <2>1, <3>1
        <4>2. Depth(script, endAt + k) \in Int
          BY <2>1, DepthType
        <4> QED
          BY <2>5, <4>1, <4>2
      <3>2. CASE f < m
        <4>1. m \in f..q
          BY <2>1, <2>2, <3>2
        <4> QED
          BY <2>3, <2>6, <4>1
      <3> QED
        BY <2>1, <3>1, <3>2
    <2>8. endAt + k < q
      BY <2>1, <2>2, <2>3
    <2>9. ASSUME NEW m \in (endAt + k)..(q - 1)
          PROVE  script[m].kind \notin Resets
      <3>1. m \in endAt..(endAt + NumBavs) \/ m \in f..q
        BY <2>1, <2>2
      <3> QED
        BY <2>1, <2>3, <3>1 DEF Resets
    <2> QED
      BY <2>7, <2>8, <2>9 DEF Survives, NoReset
  <1> QED
    BY <1>1, Inductive, WellBuilt, PTL

-----------------------------------------------------------------------------
(* What an insertion without push, pop and reset does to levels and scopes. *)

\* r is the script s with t inserted at i, and t does nothing to scopes.
Spliced(r, s, i, t) ==
    /\ s \in Seq(Command) /\ t \in Seq(Command) /\ r \in Seq(Command)
    /\ i \in 1..(Len(s) + 1)
    /\ Inserted(r, s, i, t)
    /\ \A p \in 1..Len(t) : t[p].kind \notin {"push", "pop"} \cup Resets

LEMMA SplicedType ==
    ASSUME NEW r, NEW s, NEW i, NEW t, Spliced(r, s, i, t)
    PROVE  /\ Len(s) \in Nat /\ Len(t) \in Nat /\ Len(r) = Len(s) + Len(t)
           /\ i \in Nat /\ i >= 1 /\ i <= Len(s) + 1
           /\ DOMAIN s = 1..Len(s) /\ DOMAIN t = 1..Len(t) /\ DOMAIN r = 1..Len(r)
  BY LenProperties DEF Spliced, Inserted

\* Every command of s has a level in r, and what was inserted has the level
\* of the command before.
LEMMA DepthSpliced ==
    ASSUME NEW r, NEW s, NEW i, NEW t, Spliced(r, s, i, t)
    PROVE  /\ \A k \in 0..(i - 1) : Depth(r, k) = Depth(s, k)
           /\ \A p \in 0..Len(t) : Depth(r, i - 1 + p) = Depth(s, i - 1)
           /\ \A k \in (i - 1)..Len(s) : Depth(r, k + Len(t)) = Depth(s, k)
  <1> DEFINE n == Len(t)
  <1>1. /\ Len(s) \in Nat /\ n \in Nat /\ i \in Nat /\ i >= 1 /\ i <= Len(s) + 1
    BY SplicedType
  <1>2. /\ \A k \in 1..(i - 1) : r[k] = s[k]
        /\ \A k \in 1..n : r[i - 1 + k] = t[k]
        /\ \A k \in i..Len(s) : r[k + n] = s[k]
        /\ \A p \in 1..n : t[p].kind \notin {"push", "pop"}
    BY DEF Spliced, Inserted
  <1> HIDE DEF n
  <1>3. ASSUME NEW k \in 0..(i - 1) PROVE Depth(r, k) = Depth(s, k)
    <2>1. \A m \in 1..k : m \in 1..(i - 1)
      BY <1>1
    <2>2. \A kind : {m \in 1..k : r[m].kind = kind} = {m \in 1..k : s[m].kind = kind}
      BY <1>2, <2>1
    <2> QED
      BY <2>2 DEF Depth
  <1>4. ASSUME NEW p \in 0..n PROVE Depth(r, i - 1 + p) = Depth(s, i - 1)
    <2>1. \A m \in (i - 1 + 1)..(i - 1 + p) : m - (i - 1) \in 1..n /\ i - 1 + (m - (i - 1)) = m
      BY <1>1
    <2>2. \A m \in (i - 1 + 1)..(i - 1 + p) : r[m].kind \notin {"push", "pop"}
      BY <1>2, <2>1
    <2>3. i - 1 \in Nat /\ i - 1 + p \in Nat /\ i - 1 <= i - 1 + p /\ i - 1 \in 0..(i - 1)
      BY <1>1
    <2>4. Depth(r, i - 1 + p) = Depth(r, i - 1)
      BY <2>2, <2>3, DepthFlat
    <2> QED
      BY <1>3, <2>3, <2>4
  <1>5. ASSUME NEW k \in (i - 1)..Len(s) PROVE Depth(r, k + n) = Depth(s, k)
    <2>1. ASSUME NEW kind \in {"push", "pop"}
          PROVE  Cardinality({m \in 1..k : s[m].kind = kind})
                   = Cardinality({m \in 1..(k + n) : r[m].kind = kind})
      <3> DEFINE A == {m \in 1..k : s[m].kind = kind}
                 B == {m \in 1..(k + n) : r[m].kind = kind}
                 f == [m \in A |-> IF m < i THEN m ELSE m + n]
      <3>1. k \in Nat /\ k <= Len(s)
        BY <1>1
      <3>2. IsFiniteSet(A)
        <4>1. IsFiniteSet(1..k)
          BY <3>1, FS_Interval
        <4> QED
          BY <4>1, FS_Subset
      <3>3. ASSUME NEW m \in A PROVE f[m] \in B
        <4>1. CASE m < i
          <5>1. m \in 1..(i - 1) /\ m \in 1..(k + n)
            BY <1>1, <3>1, <4>1
          <5> QED
            BY <1>2, <4>1, <5>1
        <4>2. CASE ~(m < i)
          <5>1. m \in i..Len(s) /\ m + n \in 1..(k + n)
            BY <1>1, <3>1, <4>2
          <5> QED
            BY <1>2, <4>2, <5>1
        <4> QED
          BY <4>1, <4>2
      <3>4. ASSUME NEW m1 \in A, NEW m2 \in A, f[m1] = f[m2] PROVE m1 = m2
        BY <1>1, <3>1, <3>4
      <3>5. ASSUME NEW b \in B PROVE \E m \in A : f[m] = b
        <4>1. b \in Nat /\ b >= 1 /\ b <= k + n /\ r[b].kind = kind
          BY <1>1, <3>1
        <4>2. CASE b < i
          <5>1. b \in 1..(i - 1) /\ b \in 1..k
            BY <1>1, <3>1, <4>1, <4>2
          <5>2. b \in A
            BY <1>2, <4>1, <5>1
          <5> QED
            BY <4>2, <5>2
        <4>3. CASE i <= b /\ b <= i - 1 + n
          <5>1. b - (i - 1) \in 1..n /\ i - 1 + (b - (i - 1)) = b
            BY <1>1, <4>1, <4>3
          <5> QED
            BY <1>2, <2>1, <4>1, <5>1
        <4>4. CASE i - 1 + n < b
          <5>1. b - n \in i..Len(s) /\ b - n \in 1..k /\ b - n + n = b /\ ~(b - n < i)
            BY <1>1, <3>1, <4>1, <4>4
          <5>2. b - n \in A
            BY <1>2, <4>1, <5>1
          <5> QED
            BY <5>1, <5>2
        <4> QED
          BY <1>1, <4>1, <4>2, <4>3, <4>4
      <3>6. f \in Bijection(A, B)
        BY <3>3, <3>4, <3>5 DEF Bijection, Injection, Surjection, IsInjective
      <3> HIDE DEF A, B, f
      <3>7. ExistsBijection(A, B)
        BY <3>6 DEF ExistsBijection
      <3>8. Cardinality(A) = Cardinality(B)
        BY <3>2, <3>7, FS_Bijection
      <3> QED
        BY <3>8 DEF A, B
    <2> QED
      BY <2>1 DEF Depth
  <1> QED
    BY <1>3, <1>4, <1>5 DEF n

\* Where command j of s is in r; and the command of s that a scope at m in r
\* is the scope of.
Shift(j, i, n) == IF j < i THEN j ELSE j + n
Origin(m, i, n) == IF m < i THEN m ELSE IF m < i + n THEN i ELSE m - n

\* Between two commands of s, and behind what was inserted, r has the resets
\* that s has.
LEMMA ResetsSpliced ==
    ASSUME NEW r, NEW s, NEW i, NEW t, Spliced(r, s, i, t),
           NEW m \in 1..(Len(r) + 1)
    PROVE  /\ \A j \in 1..(Len(s) + 1) :
                NoReset(r, Shift(j, i, Len(t)), m - 1)
                <=> NoReset(s, j, Origin(m, i, Len(t)) - 1)
           /\ \A p \in 1..Len(t) :
                NoReset(r, i - 1 + p, m - 1) <=> NoReset(s, i, Origin(m, i, Len(t)) - 1)
  <1> DEFINE n == Len(t)
             o == Origin(m, i, n)
  <1>1. /\ Len(s) \in Nat /\ n \in Nat /\ Len(r) = Len(s) + n
        /\ i \in Nat /\ i >= 1 /\ i <= Len(s) + 1
    BY SplicedType
  <1>2. /\ \A k \in 1..(i - 1) : r[k] = s[k]
        /\ \A k \in 1..n : r[i - 1 + k].kind \notin Resets
        /\ \A k \in i..Len(s) : r[k + n] = s[k]
    BY DEF Spliced, Inserted
  <1> HIDE DEF n
  <1>3. o = IF m < i THEN m ELSE IF m < i + n THEN i ELSE m - n
    BY DEF Origin
  <1> HIDE DEF o
  <1>4. ASSUME NEW x \in Nat, NEW j \in 1..(Len(s) + 1),
               \/ j < i /\ x = j
               \/ j >= i /\ x = j + n
               \/ j = i /\ x \in i..(i - 1 + n)
        PROVE  NoReset(r, x, m - 1) <=> NoReset(s, j, o - 1)
    <2>1. ASSUME NoReset(r, x, m - 1), NEW y \in j..(o - 1)
          PROVE  s[y].kind \notin Resets
      <3>1. CASE y < i
        <4>1. y \in x..(m - 1) /\ y \in 1..(i - 1)
          BY <1>1, <1>3, <1>4, <3>1
        <4> QED
          BY <1>2, <2>1, <4>1 DEF NoReset
      <3>2. CASE ~(y < i)
        <4>1. y + n \in x..(m - 1) /\ y \in i..Len(s)
          BY <1>1, <1>3, <1>4, <3>2
        <4> QED
          BY <1>2, <2>1, <4>1 DEF NoReset
      <3> QED
        BY <3>1, <3>2
    <2>2. ASSUME NoReset(s, j, o - 1), NEW y \in x..(m - 1)
          PROVE  r[y].kind \notin Resets
      <3>1. CASE y < i
        <4>1. y \in j..(o - 1) /\ y \in 1..(i - 1)
          BY <1>1, <1>3, <1>4, <3>1
        <4> QED
          BY <1>2, <2>2, <4>1 DEF NoReset
      <3>2. CASE i <= y /\ y < i + n
        <4>1. y - (i - 1) \in 1..n /\ i - 1 + (y - (i - 1)) = y
          BY <1>1, <3>2
        <4> QED
          BY <1>2, <4>1
      <3>3. CASE i + n <= y
        <4>1. y - n \in j..(o - 1) /\ y - n \in i..Len(s) /\ y - n + n = y
          BY <1>1, <1>3, <1>4, <3>3
        <4> QED
          BY <1>2, <2>2, <4>1 DEF NoReset
      <3>4. y \in Nat
        BY <1>4
      <3> QED
        BY <1>1, <3>1, <3>2, <3>3, <3>4
    <2> QED
      BY <2>1, <2>2 DEF NoReset
  <1>5. ASSUME NEW j \in 1..(Len(s) + 1)
        PROVE  NoReset(r, Shift(j, i, n), m - 1) <=> NoReset(s, j, o - 1)
    <2>1. CASE j < i
      BY <1>4, <2>1 DEF Shift
    <2>2. CASE ~(j < i)
      <3>1. j + n \in Nat /\ j >= i
        BY <1>1, <2>2
      <3>2. Shift(j, i, n) = j + n
        BY <2>2 DEF Shift
      <3> QED
        BY <1>4, <3>1, <3>2
    <2> QED
      BY <2>1, <2>2
  <1>6. ASSUME NEW p \in 1..n
        PROVE  NoReset(r, i - 1 + p, m - 1) <=> NoReset(s, i, o - 1)
    <2>1. i - 1 + p \in Nat /\ i - 1 + p \in i..(i - 1 + n) /\ i \in 1..(Len(s) + 1)
      BY <1>1
    <2> QED
      BY <1>4, <2>1
  <1> QED
    BY <1>5, <1>6 DEF n, o

\* A command of s is in force in r where it is in force in s.
LEMMA SurvivesSpliced ==
    ASSUME NEW r, NEW s, NEW i, NEW t, Spliced(r, s, i, t),
           NEW j \in 1..Len(s), NEW m \in 1..(Len(r) + 1)
    PROVE  Survives(r, Shift(j, i, Len(t)), m) <=> Survives(s, j, Origin(m, i, Len(t)))
  <1> DEFINE n == Len(t)
             x0 == Shift(j, i, n)
             o == Origin(m, i, n)
  <1>1. /\ Len(s) \in Nat /\ n \in Nat /\ Len(r) = Len(s) + n
        /\ i \in Nat /\ i >= 1 /\ i <= Len(s) + 1
    BY SplicedType
  <1>2. /\ \A k \in 0..(i - 1) : Depth(r, k) = Depth(s, k)
        /\ \A p \in 0..n : Depth(r, i - 1 + p) = Depth(s, i - 1)
        /\ \A k \in (i - 1)..Len(s) : Depth(r, k + n) = Depth(s, k)
    BY DepthSpliced
  <1> HIDE DEF n
  <1>3. /\ x0 = IF j < i THEN j ELSE j + n
        /\ o = IF m < i THEN m ELSE IF m < i + n THEN i ELSE m - n
    BY DEF Shift, Origin
  <1> HIDE DEF x0, o
  <1>4. x0 \in Nat /\ o \in Nat /\ (x0 < m <=> j < o)
    BY <1>1, <1>3
  <1>5. Depth(r, x0) = Depth(s, j)
    <2>1. CASE j < i
      <3>1. j \in 0..(i - 1)
        BY <1>1, <2>1
      <3> QED
        BY <1>2, <1>3, <2>1, <3>1
    <2>2. CASE ~(j < i)
      <3>1. j \in (i - 1)..Len(s)
        BY <1>1, <2>2
      <3> QED
        BY <1>2, <1>3, <2>2, <3>1
    <2> QED
      BY <2>1, <2>2
  <1>6. ASSUME x0 < m, \A x \in x0..(m - 1) : Depth(r, x) >= Depth(r, x0),
               NEW y \in j..(o - 1)
        PROVE  Depth(s, y) >= Depth(s, j)
    <2>1. y \in Nat
      BY <1>1
    <2>2. CASE y < i
      <3>1. y \in x0..(m - 1) /\ y \in 0..(i - 1)
        BY <1>1, <1>3, <1>4, <1>6, <2>1, <2>2
      <3> QED
        BY <1>2, <1>5, <1>6, <3>1
    <2>3. CASE ~(y < i)
      <3>1. y + n \in x0..(m - 1) /\ y \in (i - 1)..Len(s)
        BY <1>1, <1>3, <1>4, <1>6, <2>1, <2>3
      <3> QED
        BY <1>2, <1>5, <1>6, <3>1
    <2> QED
      BY <2>2, <2>3
  <1>7. ASSUME j < o, \A y \in j..(o - 1) : Depth(s, y) >= Depth(s, j),
               NEW x \in x0..(m - 1)
        PROVE  Depth(r, x) >= Depth(r, x0)
    <2>1. x \in Nat
      BY <1>4
    <2>2. CASE x < i
      <3>1. x \in j..(o - 1) /\ x \in 0..(i - 1)
        BY <1>1, <1>3, <1>4, <1>7, <2>1, <2>2
      <3> QED
        BY <1>2, <1>5, <1>7, <3>1
    <2>3. CASE i <= x /\ x < i + n
      <3>1. /\ i - 1 \in j..(o - 1)
            /\ x - (i - 1) \in 0..n /\ i - 1 + (x - (i - 1)) = x
        BY <1>1, <1>3, <1>4, <1>7, <2>1, <2>3
      <3> QED
        BY <1>2, <1>5, <1>7, <3>1
    <2>4. CASE i + n <= x
      <3>1. x - n \in j..(o - 1) /\ x - n \in (i - 1)..Len(s) /\ x - n + n = x
        BY <1>1, <1>3, <1>4, <1>7, <2>1, <2>4
      <3> QED
        BY <1>2, <1>5, <1>7, <3>1
    <2> QED
      BY <1>1, <2>1, <2>2, <2>3, <2>4
  <1>8. NoReset(r, x0, m - 1) <=> NoReset(s, j, o - 1)
    <2>1. j \in 1..(Len(s) + 1)
      BY <1>1
    <2> QED
      BY <2>1, ResetsSpliced DEF x0, o, n
  <1> QED
    BY <1>4, <1>6, <1>7, <1>8 DEF Survives, x0, o, n

\* What was inserted stays in force as long as s keeps what is put there.
LEMMA SurvivesInserted ==
    ASSUME NEW r, NEW s, NEW i, NEW t, Spliced(r, s, i, t),
           NEW p \in 1..Len(t), NEW m \in 1..(Len(r) + 1)
    PROVE  Survives(r, i - 1 + p, m)
           <=> i - 1 + p < m /\ Kept(s, i, Origin(m, i, Len(t)))
  <1> DEFINE n == Len(t)
             o == Origin(m, i, n)
  <1>1. /\ Len(s) \in Nat /\ n \in Nat /\ Len(r) = Len(s) + n
        /\ i \in Nat /\ i >= 1 /\ i <= Len(s) + 1
    BY SplicedType
  <1>2. /\ \A q \in 0..n : Depth(r, i - 1 + q) = Depth(s, i - 1)
        /\ \A k \in (i - 1)..Len(s) : Depth(r, k + n) = Depth(s, k)
    BY DepthSpliced
  <1>3. p \in 0..n
    BY <1>1
  <1>4. NoReset(r, i - 1 + p, m - 1) <=> NoReset(s, i, o - 1)
    BY ResetsSpliced
  <1> HIDE DEF n
  <1>5. o = IF m < i THEN m ELSE IF m < i + n THEN i ELSE m - n
    BY DEF Origin
  <1> HIDE DEF o
  <1>6. ASSUME i - 1 + p < m, \A k \in i..(o - 1) : Depth(s, k) >= Depth(s, i - 1),
               NEW x \in (i - 1 + p)..(m - 1)
        PROVE  Depth(r, x) >= Depth(r, i - 1 + p)
    <2>1. Depth(s, i - 1) \in Int
      BY <1>1, DepthType
    <2>2. CASE x < i + n
      <3>1. x - (i - 1) \in 0..n /\ i - 1 + (x - (i - 1)) = x
        BY <1>1, <1>3, <2>2
      <3> QED
        BY <1>2, <1>3, <2>1, <3>1
    <2>3. CASE i + n <= x
      <3>1. x - n \in (i - 1)..Len(s) /\ x - n \in i..(o - 1) /\ x - n + n = x
        BY <1>1, <1>3, <1>5, <2>3
      <3> QED
        BY <1>2, <1>3, <1>6, <3>1
    <2> QED
      BY <1>1, <1>3, <2>2, <2>3
  <1>7. ASSUME i - 1 + p < m,
               \A x \in (i - 1 + p)..(m - 1) : Depth(r, x) >= Depth(r, i - 1 + p),
               NEW k \in i..(o - 1)
        PROVE  Depth(s, k) >= Depth(s, i - 1)
    <2>1. k + n \in (i - 1 + p)..(m - 1) /\ k \in (i - 1)..Len(s)
      BY <1>1, <1>3, <1>5
    <2> QED
      BY <1>2, <1>3, <1>7, <2>1
  <1>8. i - 1 + p < m => i <= o
    BY <1>1, <1>3, <1>5
  <1> QED
    BY <1>4, <1>6, <1>7, <1>8 DEF Survives, Kept, o, n

\* Behind what was inserted, r keeps what s keeps.
LEMMA KeptSpliced ==
    ASSUME NEW r, NEW s, NEW i, NEW t, Spliced(r, s, i, t),
           NEW j \in i..(Len(s) + 1), NEW k \in j..(Len(s) + 1)
    PROVE  Kept(r, j + Len(t), k + Len(t)) <=> Kept(s, j, k)
  <1> DEFINE n == Len(t)
  <1>1. /\ Len(s) \in Nat /\ n \in Nat /\ Len(r) = Len(s) + n
        /\ i \in Nat /\ i >= 1 /\ i <= Len(s) + 1
    BY SplicedType
  <1>2. \A x \in (i - 1)..Len(s) : Depth(r, x + n) = Depth(s, x)
    BY DepthSpliced
  <1> HIDE DEF n
  <1>3. /\ j - 1 \in (i - 1)..Len(s) /\ j + n - 1 = (j - 1) + n
        /\ j + n <= k + n /\ j <= k /\ j \in 1..(Len(s) + 1)
        /\ k + n \in 1..(Len(r) + 1)
    BY <1>1
  <1>4. Depth(r, j + n - 1) = Depth(s, j - 1)
    BY <1>2, <1>3
  <1>5. NoReset(r, j + n, k + n - 1) <=> NoReset(s, j, k - 1)
    <2>1. Shift(j, i, n) = j + n
      BY <1>1 DEF Shift
    <2>2. Origin(k + n, i, n) = k
      BY <1>1 DEF Origin
    <2> QED
      BY <1>3, <2>1, <2>2, ResetsSpliced DEF n
  <1>6. ASSUME \A x \in (j + n)..(k + n - 1) : Depth(r, x) >= Depth(r, j + n - 1),
               NEW y \in j..(k - 1)
        PROVE  Depth(s, y) >= Depth(s, j - 1)
    <2>1. y + n \in (j + n)..(k + n - 1) /\ y \in (i - 1)..Len(s)
      BY <1>1
    <2> QED
      BY <1>2, <1>4, <1>6, <2>1
  <1>7. ASSUME \A y \in j..(k - 1) : Depth(s, y) >= Depth(s, j - 1),
               NEW x \in (j + n)..(k + n - 1)
        PROVE  Depth(r, x) >= Depth(r, j + n - 1)
    <2>1. x - n \in j..(k - 1) /\ x - n \in (i - 1)..Len(s) /\ x - n + n = x
      BY <1>1
    <2> QED
      BY <1>2, <1>4, <1>7, <2>1
  <1> QED
    BY <1>3, <1>5, <1>6, <1>7 DEF Kept, n

\* The names in force in r: those in force in s, and what was inserted.
LEMMA InForceSpliced ==
    ASSUME NEW r, NEW s, NEW i, NEW t, Spliced(r, s, i, t), NEW m \in 1..(Len(r) + 1)
    PROVE  InForce(r, m) =
             InForce(s, Origin(m, i, Len(t)))
               \cup UNION {Introduces(t[p]) : p \in {p \in 1..Len(t) :
                                                      Survives(r, i - 1 + p, m)}}
  <1> DEFINE n == Len(t)
             o == Origin(m, i, n)
             New == UNION {Introduces(t[p]) : p \in {p \in 1..n : Survives(r, i - 1 + p, m)}}
  <1>1. /\ Len(s) \in Nat /\ n \in Nat /\ Len(r) = Len(s) + n
        /\ i \in Nat /\ i >= 1 /\ i <= Len(s) + 1
        /\ DOMAIN s = 1..Len(s) /\ DOMAIN r = 1..Len(r)
    BY SplicedType
  <1>2. /\ \A k \in 1..(i - 1) : r[k] = s[k]
        /\ \A k \in 1..n : r[i - 1 + k] = t[k]
        /\ \A k \in i..Len(s) : r[k + n] = s[k]
    BY DEF Spliced, Inserted
  <1>3. \A j \in 1..Len(s) : Survives(r, Shift(j, i, n), m) <=> Survives(s, j, o)
    BY SurvivesSpliced
  <1> HIDE DEF n, o
  <1>4. ASSUME NEW j \in 1..Len(s)
        PROVE  Shift(j, i, n) \in 1..Len(r) /\ r[Shift(j, i, n)] = s[j]
    <2>1. CASE j < i
      <3>1. j \in 1..(i - 1) /\ j \in 1..Len(r)
        BY <1>1, <2>1
      <3> QED
        BY <1>2, <2>1, <3>1 DEF Shift
    <2>2. CASE ~(j < i)
      <3>1. j \in i..Len(s) /\ j + n \in 1..Len(r)
        BY <1>1, <2>2
      <3> QED
        BY <1>2, <2>2, <3>1 DEF Shift
    <2> QED
      BY <2>1, <2>2
  <1>5. ASSUME NEW x \in 1..Len(r)
        PROVE  \/ \E j \in 1..Len(s) : x = Shift(j, i, n)
               \/ \E p \in 1..n : x = i - 1 + p
    <2>1. CASE x < i
      <3>1. x \in 1..Len(s) /\ Shift(x, i, n) = x
        BY <1>1, <2>1 DEF Shift
      <3> QED
        BY <3>1
    <2>2. CASE i <= x /\ x < i + n
      <3>1. x - (i - 1) \in 1..n /\ i - 1 + (x - (i - 1)) = x
        BY <1>1, <2>2
      <3> QED
        BY <3>1
    <2>3. CASE i + n <= x
      <3>1. x - n \in 1..Len(s) /\ Shift(x - n, i, n) = x
        BY <1>1, <2>3 DEF Shift
      <3> QED
        BY <3>1
    <2> QED
      BY <1>1, <2>1, <2>2, <2>3
  <1>6. ASSUME NEW y \in InForce(r, m) PROVE y \in InForce(s, o) \cup New
    <2>1. PICK x \in 1..Len(r) : Survives(r, x, m) /\ y \in Introduces(r[x])
      BY <1>1 DEF InForce
    <2>2. CASE \E j \in 1..Len(s) : x = Shift(j, i, n)
      BY <1>1, <1>3, <1>4, <2>1, <2>2 DEF InForce
    <2>3. CASE \E p \in 1..n : x = i - 1 + p
      BY <1>2, <2>1, <2>3
    <2> QED
      BY <1>5, <2>2, <2>3
  <1>7. ASSUME NEW y \in InForce(s, o) PROVE y \in InForce(r, m)
    <2>1. PICK j \in 1..Len(s) : Survives(s, j, o) /\ y \in Introduces(s[j])
      BY <1>1 DEF InForce
    <2> QED
      BY <1>1, <1>3, <1>4, <2>1 DEF InForce
  <1>8. ASSUME NEW y \in New PROVE y \in InForce(r, m)
    <2>1. PICK p \in 1..n : Survives(r, i - 1 + p, m) /\ y \in Introduces(t[p])
      OBVIOUS
    <2>2. i - 1 + p \in 1..Len(r)
      BY <1>1
    <2> QED
      BY <1>1, <1>2, <2>1, <2>2 DEF InForce
  <1> QED
    BY <1>6, <1>7, <1>8 DEF n, o

-----------------------------------------------------------------------------
(* The names a term speaks of.                                             *)

\* u is the term t with its constants replaced by names of G.
Renamed(t, u, G) ==
    /\ t \in Seq(Node) /\ u \in Seq(Node) /\ Len(u) = Len(t)
    /\ \A n \in 1..Len(t) :
         /\ t[n].bound \cap G = {}
         /\ IF t[n].kind \in Constants
            THEN t[n].size = 1 /\ \E g \in G : u[n] = Leaf(g)
            ELSE u[n] = t[n]
    /\ G \cap Builtin = {}

NewNames(t, u) == {u[n].sym : n \in {n \in 1..Len(t) : t[n].kind \in Constants}}

LEMMA SameInterval ==
    ASSUME NEW m \in Nat, NEW n \in Nat, 1..m = 1..n
    PROVE  m = n
  <1>1. ~(m < n)
    <2> SUFFICES ASSUME m < n PROVE FALSE
      OBVIOUS
    <2>1. n \in 1..n /\ n \notin 1..m
      OBVIOUS
    <2> QED
      BY <2>1
  <1>2. ~(n < m)
    <2> SUFFICES ASSUME n < m PROVE FALSE
      OBVIOUS
    <2>1. m \in 1..m /\ m \notin 1..n
      OBVIOUS
    <2> QED
      BY <2>1
  <1> QED
    BY <1>1, <1>2

\* The nodes of a term, by their numbers.
LEMMA FreeNodes ==
    ASSUME NEW t \in Seq(Node)
    PROVE  /\ \A n \in 1..Len(t) : BoundAt(t, n) = UNION {t[b].bound : b \in
                                      {b \in 1..Len(t) : n \in SpanOf(t, b)}}
           /\ Free(t) = {t[n].sym : n \in {n \in 1..Len(t) :
                            /\ t[n].kind = "symbol"
                            /\ t[n].sym \notin Builtin
                            /\ t[n].sym \notin BoundAt(t, n)}}
           /\ \A n \in 1..Len(t) : n \in SpanOf(t, n) /\ t[n] \in Node
  <1>1. DOMAIN t = 1..Len(t) /\ Len(t) \in Nat
    BY LenProperties
  <1>2. ASSUME NEW n \in 1..Len(t) PROVE n \in SpanOf(t, n) /\ t[n] \in Node
    <2>1. t[n] \in Node
      BY ElementOfSeq
    <2>2. t[n].size \in Nat \ {0}
      BY <2>1 DEF Node
    <2> QED
      BY <1>1, <2>1, <2>2 DEF SpanOf
  <1> QED
    BY <1>1, <1>2 DEF BoundAt, Free, Positions

\* The nodes that name a term, by their numbers.
LEMMA NamedNodes ==
    ASSUME NEW t \in Seq(Node)
    PROVE  /\ NamedAt(t) = {n \in 1..Len(t) : t[n].kind = "named"}
           /\ Labels(t) = {t[n].sym : n \in {n \in 1..Len(t) : t[n].kind = "named"}}
  BY LenProperties DEF NamedAt, Labels, Positions

\* No term has no names.
LEMMA NoLabels == Free(<<>>) = {} /\ Labels(<<>>) = {} /\ NamedOnce(<<>>)
  BY DEF Free, Labels, NamedOnce, NamedAt, Positions

\* Renaming its constants leaves a term's parts their names.
LEMMA LabelsRenamed ==
    ASSUME NEW t \in Seq(Node), NEW u \in Seq(Node), Len(u) = Len(t),
           \A k \in 1..Len(t) : IF t[k].kind \in Constants THEN \E g : u[k] = Leaf(g)
                                                           ELSE u[k] = t[k]
    PROVE  Labels(u) = Labels(t) /\ (NamedOnce(u) <=> NamedOnce(t))
  <1>2. ASSUME NEW k \in 1..Len(t)
        PROVE  /\ u[k].kind = "named" <=> t[k].kind = "named"
               /\ t[k].kind = "named" => u[k].sym = t[k].sym
    <2>1. CASE t[k].kind \in Constants
      <3>1. PICK g : u[k] = Leaf(g)
        BY <2>1
      <3> QED
        BY <2>1, <3>1 DEF Leaf, Constants
    <2>2. CASE t[k].kind \notin Constants
      BY <2>2
    <2> QED
      BY <2>1, <2>2
  <1>3. NamedAt(u) = NamedAt(t)
    <2>1. {k \in 1..Len(t) : u[k].kind = "named"} = {k \in 1..Len(t) : t[k].kind = "named"}
      BY <1>2
    <2> QED
      BY <2>1, NamedNodes
  <1>4. \A k \in NamedAt(t) : u[k].sym = t[k].sym
    BY <1>2, NamedNodes
  <1> QED
    BY <1>3, <1>4 DEF Labels, NamedOnce

\* Renaming the constants of a term adds the new names, and captures none.
LEMMA FreeRenamed ==
    ASSUME NEW t, NEW u, NEW G, Renamed(t, u, G)
    PROVE  Free(u) = Free(t) \cup NewNames(t, u)
  <1> DEFINE n == Len(t)
  <1>1. t \in Seq(Node) /\ u \in Seq(Node) /\ Len(u) = n /\ n \in Nat /\ G \cap Builtin = {}
    BY LenProperties DEF Renamed
  <1>2. \A k \in 1..n :
          /\ t[k].bound \cap G = {}
          /\ t[k].kind \in Constants => t[k].size = 1 /\ \E g \in G : u[k] = Leaf(g)
          /\ t[k].kind \notin Constants => u[k] = t[k]
    BY DEF Renamed
  <1>3. /\ \A k \in 1..n : BoundAt(t, k) = UNION {t[b].bound : b \in
                                    {b \in 1..n : k \in SpanOf(t, b)}}
        /\ \A k \in 1..n : BoundAt(u, k) = UNION {u[b].bound : b \in
                                    {b \in 1..n : k \in SpanOf(u, b)}}
        /\ Free(t) = {t[k].sym : k \in {k \in 1..n :
                        /\ t[k].kind = "symbol"
                        /\ t[k].sym \notin Builtin
                        /\ t[k].sym \notin BoundAt(t, k)}}
        /\ Free(u) = {u[k].sym : k \in {k \in 1..n :
                        /\ u[k].kind = "symbol"
                        /\ u[k].sym \notin Builtin
                        /\ u[k].sym \notin BoundAt(u, k)}}
    BY <1>1, FreeNodes
  <1>4. \A g : Leaf(g).kind = "symbol" /\ Leaf(g).sym = g /\ Leaf(g).size = 1
               /\ Leaf(g).bound = {}
    BY DEF Leaf
  <1> HIDE DEF n
  <1>5. ASSUME NEW b \in 1..n
        PROVE  /\ SpanOf(u, b) = SpanOf(t, b)
               /\ t[b].kind \in Constants => SpanOf(t, b) = {b} /\ u[b].bound = {}
    <2>1. CASE t[b].kind \in Constants
      <3>1. t[b].size = 1 /\ u[b].size = 1 /\ u[b].bound = {}
        BY <1>2, <1>4, <2>1
      <3>2. (b - 1 + 1)..b = {b}
        BY <1>1
      <3> QED
        BY <3>1, <3>2 DEF SpanOf
    <2>2. CASE t[b].kind \notin Constants
      BY <1>2, <2>2 DEF SpanOf
    <2> QED
      BY <2>1, <2>2
  <1>6. ASSUME NEW k \in 1..n, t[k].kind \notin Constants
        PROVE  BoundAt(u, k) = BoundAt(t, k)
    <2>1. \A b \in 1..n : k \in SpanOf(t, b) => t[b].kind \notin Constants
      BY <1>5, <1>6
    <2>2. \A b \in 1..n : k \in SpanOf(u, b) <=> k \in SpanOf(t, b)
      BY <1>5
    <2>3. \A b \in 1..n : k \in SpanOf(t, b) => u[b].bound = t[b].bound
      BY <1>2, <2>1
    <2>4. {u[b].bound : b \in {b \in 1..n : k \in SpanOf(u, b)}}
             = {t[b].bound : b \in {b \in 1..n : k \in SpanOf(t, b)}}
      BY <2>2, <2>3
    <2> QED
      BY <1>3, <2>4
  <1>7. ASSUME NEW k \in 1..n, t[k].kind \in Constants
        PROVE  /\ u[k].kind = "symbol" /\ u[k].sym \notin Builtin
               /\ u[k].sym \notin BoundAt(u, k)
    <2>1. PICK g \in G : u[k] = Leaf(g)
      BY <1>2, <1>7
    <2>2. \A b \in 1..n : g \notin u[b].bound
      BY <1>2, <1>5
    <2>3. g \notin BoundAt(u, k)
      BY <1>3, <2>2
    <2> QED
      BY <1>1, <1>4, <2>1, <2>3
  <1>8. \A k \in 1..n : t[k].kind \in Constants => t[k].kind # "symbol"
    BY DEF Constants
  <1>9. ASSUME NEW x \in Free(u) PROVE x \in Free(t) \cup NewNames(t, u)
    <2>1. PICK k \in 1..n : /\ x = u[k].sym /\ u[k].kind = "symbol"
                            /\ x \notin Builtin /\ x \notin BoundAt(u, k)
      BY <1>3
    <2>2. CASE t[k].kind \in Constants
      BY <2>1, <2>2 DEF NewNames, n
    <2>3. CASE t[k].kind \notin Constants
      BY <1>2, <1>3, <1>6, <2>1, <2>3
    <2> QED
      BY <2>2, <2>3
  <1>10. ASSUME NEW x \in Free(t) PROVE x \in Free(u)
    <2>1. PICK k \in 1..n : /\ x = t[k].sym /\ t[k].kind = "symbol"
                            /\ x \notin Builtin /\ x \notin BoundAt(t, k)
      BY <1>3
    <2>2. t[k].kind \notin Constants
      BY <1>8, <2>1
    <2> QED
      BY <1>2, <1>3, <1>6, <2>1, <2>2
  <1>11. ASSUME NEW x \in NewNames(t, u) PROVE x \in Free(u)
    <2>1. PICK k \in 1..n : t[k].kind \in Constants /\ x = u[k].sym
      BY DEF NewNames, n
    <2> QED
      BY <1>3, <1>7, <2>1
  <1> QED
    BY <1>9, <1>10, <1>11

\* A subtree is renamed with its term.
LEMMA RenamedSubtree ==
    ASSUME NEW t, NEW u, NEW G, Renamed(t, u, G),
           NEW i \in 1..Len(t), t[i].size <= i
    PROVE  /\ Renamed(Subtree(t, i), Subtree(u, i), G)
           /\ NewNames(Subtree(t, i), Subtree(u, i)) \subseteq NewNames(t, u)
  <1> DEFINE w == t[i].size
             a == Subtree(t, i)
             b == Subtree(u, i)
  <1>1. t \in Seq(Node) /\ u \in Seq(Node) /\ Len(u) = Len(t) /\ Len(t) \in Nat
        /\ DOMAIN t = 1..Len(t) /\ DOMAIN u = 1..Len(t)
    BY LenProperties DEF Renamed
  <1>2. w \in Nat \ {0} /\ i \in Nat
    <2>1. t[i] \in Node
      BY <1>1, FreeNodes
    <2> QED
      BY <1>1, <2>1 DEF Node
  <1>3. u[i].size = w
    <2>1. CASE t[i].kind \in Constants
      <3>1. w = 1 /\ \E g : u[i] = Leaf(g)
        BY <2>1 DEF Renamed
      <3> QED
        BY <3>1 DEF Leaf
    <2>2. CASE t[i].kind \notin Constants
      BY <2>2 DEF Renamed
    <2> QED
      BY <2>1, <2>2
  <1>4. a \in Seq(Node) /\ b \in Seq(Node)
    BY <1>1, <1>3, SubtreeType
  <1>5. a = [k \in 1..w |-> t[i - w + k]] /\ b = [k \in 1..w |-> u[i - w + k]]
    BY <1>3 DEF Subtree
  <1> HIDE DEF w, a, b
  <1>6. Len(a) = w /\ Len(b) = w
    <2>1. DOMAIN a = 1..Len(a) /\ DOMAIN b = 1..Len(b) /\ Len(a) \in Nat /\ Len(b) \in Nat
      BY <1>4, LenProperties
    <2>2. 1..Len(a) = 1..w /\ 1..Len(b) = 1..w
      BY <1>5, <2>1
    <2> QED
      BY <1>2, <2>1, <2>2, SameInterval
  <1>7. \A k \in 1..w : i - w + k \in 1..Len(t) /\ a[k] = t[i - w + k] /\ b[k] = u[i - w + k]
    BY <1>1, <1>2, <1>5 DEF w
  <1>8. Renamed(a, b, G)
    BY <1>4, <1>6, <1>7 DEF Renamed
  <1>9. NewNames(a, b) \subseteq NewNames(t, u)
    BY <1>6, <1>7 DEF NewNames
  <1> QED
    BY <1>8, <1>9 DEF a, b

\* A name that is free in a subtree is free in the term, or bound in it.
LEMMA FreeSubtree ==
    ASSUME NEW t \in Seq(Node), NEW i \in 1..Len(t), t[i].size <= i
    PROVE  \A x \in Free(Subtree(t, i)) :
              x \in Free(t) \/ \E b \in 1..Len(t) : x \in t[b].bound
  <1> DEFINE w == t[i].size
             a == Subtree(t, i)
  <1>1. Len(t) \in Nat /\ DOMAIN t = 1..Len(t)
    BY LenProperties
  <1>2. w \in Nat \ {0} /\ i \in Nat
    <2>1. t[i] \in Node
      BY FreeNodes
    <2> QED
      BY <1>1, <2>1 DEF Node
  <1>3. a \in Seq(Node)
    BY <1>1, SubtreeType
  <1>4. a = [k \in 1..w |-> t[i - w + k]]
    BY DEF Subtree
  <1> HIDE DEF w, a
  <1>5. Len(a) = w
    <2>1. DOMAIN a = 1..Len(a) /\ Len(a) \in Nat
      BY <1>3, LenProperties
    <2>2. 1..Len(a) = 1..w
      BY <1>4, <2>1
    <2> QED
      BY <1>2, <2>1, <2>2, SameInterval
  <1>6. ASSUME NEW x \in Free(a)
        PROVE  x \in Free(t) \/ \E b \in 1..Len(t) : x \in t[b].bound
    <2>1. PICK k \in 1..w : a[k].kind = "symbol" /\ x = a[k].sym /\ x \notin Builtin
      BY <1>3, <1>5, FreeNodes
    <2>2. i - w + k \in 1..Len(t) /\ a[k] = t[i - w + k]
      BY <1>1, <1>2, <1>4 DEF w
    <2>3. CASE x \in BoundAt(t, i - w + k)
      BY <2>2, <2>3, FreeNodes
    <2>4. CASE x \notin BoundAt(t, i - w + k)
      BY <2>1, <2>2, <2>4, FreeNodes
    <2> QED
      BY <2>3, <2>4
  <1> QED
    BY <1>6 DEF a

\* A subtree has names of its term.
LEMMA LabelsSubtree ==
    ASSUME NEW t \in Seq(Node), NEW i \in 1..Len(t), t[i].size <= i
    PROVE  /\ Labels(Subtree(t, i)) \subseteq Labels(t)
           /\ NamedOnce(t) => NamedOnce(Subtree(t, i))
  <1> DEFINE w == t[i].size
             a == Subtree(t, i)
  <1>1. Len(t) \in Nat /\ DOMAIN t = 1..Len(t)
    BY LenProperties
  <1>2. w \in Nat \ {0} /\ i \in Nat
    <2>1. t[i] \in Node
      BY FreeNodes
    <2> QED
      BY <1>1, <2>1 DEF Node
  <1>3. a = [k \in 1..w |-> t[i - w + k]]
    BY DEF Subtree
  <1> HIDE DEF w, a
  <1>4. NamedAt(a) = {k \in 1..w : a[k].kind = "named"}
    BY <1>3 DEF NamedAt, Positions
  <1>5. \A k \in 1..w : i - w + k \in 1..Len(t) /\ a[k] = t[i - w + k]
    BY <1>1, <1>2, <1>3 DEF w
  <1>6. \A k \in NamedAt(a) : i - w + k \in NamedAt(t) /\ a[k].sym = t[i - w + k].sym
    BY <1>4, <1>5, NamedNodes
  <1>7. \A k, l \in NamedAt(a) : i - w + k = i - w + l => k = l
    BY <1>2, <1>4
  <1> QED
    BY <1>6, <1>7 DEF Labels, NamedOnce, a

\* The nodes of (= v t).
LEMMA EquationNodes ==
    ASSUME NEW t \in Seq(Node), NEW v \in Symbol
    PROVE  LET n == Len(t)
               e == <<Leaf(v)>> \o t \o <<Apply(Op("="), n + 2)>>
           IN  /\ n \in Nat
               /\ e \in Seq(Node) /\ Len(e) = n + 2
               /\ e[1] = Leaf(v) /\ e[n + 2] = Apply(Op("="), n + 2)
               /\ \A k \in 1..n : e[k + 1] = t[k]
  <1> DEFINE n == Len(t)
             eq == Apply(Op("="), n + 2)
             e == <<Leaf(v)>> \o t \o <<eq>>
  <1>1. n \in Nat
    BY LenProperties
  <1>2. Leaf(v) \in Node /\ eq \in Node
    BY <1>1, LeafType, OpType
  <1>3. /\ e \in Seq(Node) /\ Len(e) = n + 2
        /\ e[1] = Leaf(v) /\ e[n + 2] = eq
        /\ \A k \in 1..n : e[k + 1] = t[k]
    <2> DEFINE a == <<Leaf(v)>>
               c == a \o t
               z == <<eq>>
    <2>1. /\ a \in Seq(Node) /\ Len(a) = 1 /\ a[1] = Leaf(v)
          /\ z \in Seq(Node) /\ Len(z) = 1 /\ z[1] = eq
      BY <1>2
    <2> HIDE DEF a, z
    <2>2. /\ c \in Seq(Node) /\ Len(c) = Len(a) + n
          /\ \A k \in 1..Len(a) : c[k] = a[k]
          /\ \A k \in 1..n : c[Len(a) + k] = t[k]
      BY <2>1, ConcatItems
    <2> HIDE DEF c
    <2>3. /\ c \o z \in Seq(Node) /\ Len(c \o z) = Len(c) + Len(z)
          /\ \A k \in 1..Len(c) : (c \o z)[k] = c[k]
          /\ \A k \in 1..Len(z) : (c \o z)[Len(c) + k] = z[k]
      <3>1. c \in Seq(Node) /\ z \in Seq(Node)
        BY <2>1, <2>2
      <3> QED
        BY <3>1, ConcatItems
    <2>4. e = c \o z
      BY DEF c, a, z
    <2> HIDE DEF e, n
    <2>5. Len(c) = n + 1 /\ Len(e) = n + 2
      BY <1>1, <2>1, <2>2, <2>3, <2>4
    <2>6. e[1] = Leaf(v)
      <3>1. 1 \in 1..Len(c) /\ 1 \in 1..Len(a)
        BY <1>1, <2>1, <2>5
      <3> QED
        BY <2>1, <2>2, <2>3, <2>4, <3>1
    <2>7. e[n + 2] = eq
      <3>1. 1 \in 1..Len(z) /\ Len(c) + 1 = n + 2
        BY <1>1, <2>1, <2>5
      <3>2. (c \o z)[Len(c) + 1] = z[1]
        BY <2>3, <3>1
      <3> QED
        BY <2>1, <2>4, <3>1, <3>2
    <2>8. ASSUME NEW k \in 1..n PROVE e[k + 1] = t[k]
      <3>1. k + 1 \in 1..Len(c) /\ Len(a) + k = k + 1
        BY <1>1, <2>1, <2>5
      <3>2. c[Len(a) + k] = t[k]
        BY <2>2
      <3>3. (c \o z)[k + 1] = c[k + 1]
        BY <2>3, <3>1
      <3> QED
        BY <2>4, <3>1, <3>2, <3>3
    <2> QED
      BY <2>3, <2>4, <2>5, <2>6, <2>7, <2>8
  <1> QED
    BY <1>1, <1>3 DEF n, e, eq

\* It has the names that t has.
LEMMA LabelsEquation ==
    ASSUME NEW t \in Seq(Node), NEW v \in Symbol
    PROVE  /\ Labels(<<Leaf(v)>> \o t \o <<Apply(Op("="), Len(t) + 2)>>) = Labels(t)
           /\ NamedOnce(t) => NamedOnce(<<Leaf(v)>> \o t \o <<Apply(Op("="), Len(t) + 2)>>)
  <1> DEFINE n == Len(t)
             e == <<Leaf(v)>> \o t \o <<Apply(Op("="), n + 2)>>
  <1>1. /\ n \in Nat /\ e \in Seq(Node) /\ Len(e) = n + 2
        /\ e[1].kind # "named" /\ e[n + 2].kind # "named"
        /\ \A k \in 1..n : e[k + 1] = t[k]
    <2>1. \A s, m : Leaf(s).kind = "symbol" /\ Apply(s, m).kind = "symbol"
      BY DEF Leaf, Apply
    <2>2. /\ n \in Nat /\ e \in Seq(Node) /\ Len(e) = n + 2
          /\ e[1] = Leaf(v) /\ e[n + 2] = Apply(Op("="), n + 2)
          /\ \A k \in 1..n : e[k + 1] = t[k]
      BY EquationNodes
    <2> QED
      BY <2>1, <2>2
  <1> HIDE DEF n, e
  <1>2. ASSUME NEW k \in NamedAt(e)
        PROVE  k - 1 \in NamedAt(t) /\ e[k] = t[k - 1] /\ k = (k - 1) + 1
    <2>1. k \in 1..(n + 2) /\ e[k].kind = "named"
      BY <1>1, NamedNodes
    <2>2. k - 1 \in 1..n /\ (k - 1) + 1 = k
      BY <1>1, <2>1
    <2> QED
      BY <1>1, <2>1, <2>2, NamedNodes DEF n
  <1>3. ASSUME NEW k \in NamedAt(t)
        PROVE  k + 1 \in NamedAt(e) /\ e[k + 1] = t[k] /\ k = (k + 1) - 1
    <2>1. k \in 1..n /\ t[k].kind = "named"
      BY NamedNodes DEF n
    <2>2. k + 1 \in 1..(n + 2) /\ k = (k + 1) - 1
      BY <1>1, <2>1
    <2> QED
      BY <1>1, <2>1, <2>2, NamedNodes
  <1>4. Labels(e) = Labels(t)
    <2>1. ASSUME NEW x \in Labels(e) PROVE x \in Labels(t)
      <3>1. PICK k \in NamedAt(e) : x = e[k].sym
        BY DEF Labels
      <3> QED
        BY <1>2, <3>1 DEF Labels
    <2>2. ASSUME NEW x \in Labels(t) PROVE x \in Labels(e)
      <3>1. PICK k \in NamedAt(t) : x = t[k].sym
        BY DEF Labels
      <3>2. k + 1 \in NamedAt(e) /\ e[k + 1] = t[k]
        BY <1>3
      <3> DEFINE l == k + 1
      <3> HIDE DEF l
      <3>3. l \in NamedAt(e) /\ e[l].sym = x
        BY <3>1, <3>2 DEF l
      <3> QED
        BY <3>3 DEF Labels
    <2> QED
      BY <2>1, <2>2
  <1>5. ASSUME NamedOnce(t), NEW k \in NamedAt(e), NEW l \in NamedAt(e), e[k].sym = e[l].sym
        PROVE  k = l
    <2> DEFINE x == k - 1
               y == l - 1
    <2>1. /\ x \in NamedAt(t) /\ e[k] = t[x] /\ k = x + 1
          /\ y \in NamedAt(t) /\ e[l] = t[y] /\ l = y + 1
      BY <1>2
    <2> HIDE DEF x, y
    <2>2. x = y
      BY <1>5, <2>1 DEF NamedOnce
    <2> QED
      BY <2>1, <2>2
  <1> QED
    BY <1>4, <1>5 DEF NamedOnce, n, e

\* (= v t) speaks of v and of what t speaks of.
LEMMA FreeEquation ==
    ASSUME NEW t \in Seq(Node), NEW v \in Symbol, v \notin Builtin,
           \A b \in 1..Len(t) : v \notin t[b].bound
    PROVE  Free(<<Leaf(v)>> \o t \o <<Apply(Op("="), Len(t) + 2)>>) = {v} \cup Free(t)
  <1> DEFINE n == Len(t)
             eq == Apply(Op("="), n + 2)
             e == <<Leaf(v)>> \o t \o <<eq>>
  <1>1. n \in Nat
    BY LenProperties
  <1>3. /\ e \in Seq(Node) /\ Len(e) = n + 2
        /\ e[1] = Leaf(v) /\ e[n + 2] = eq
        /\ \A k \in 1..n : e[k + 1] = t[k]
    BY EquationNodes
  <1>4. /\ Leaf(v).kind = "symbol" /\ Leaf(v).sym = v /\ Leaf(v).bound = {}
        /\ eq.sym = Op("=") /\ eq.bound = {} /\ Op("=") \in Builtin
    BY DEF Leaf, Apply, Builtin, OpNames
  <1> HIDE DEF e, eq, n
  <1>5. \A k \in 1..(n + 2) : k = 1 \/ k = n + 2 \/ (k - 1 \in 1..n /\ (k - 1) + 1 = k)
    BY <1>1
  <1>6. \A k \in 1..n : k + 1 \in 1..(n + 2) /\ k \in Nat
    BY <1>1
  <1>7. /\ \A k \in 1..n : BoundAt(t, k) = UNION {t[b].bound : b \in
                                    {b \in 1..n : k \in SpanOf(t, b)}}
        /\ \A k \in 1..(n + 2) : BoundAt(e, k) = UNION {e[b].bound : b \in
                                    {b \in 1..(n + 2) : k \in SpanOf(e, b)}}
        /\ Free(t) = {t[k].sym : k \in {k \in 1..n :
                        /\ t[k].kind = "symbol"
                        /\ t[k].sym \notin Builtin
                        /\ t[k].sym \notin BoundAt(t, k)}}
        /\ Free(e) = {e[k].sym : k \in {k \in 1..(n + 2) :
                        /\ e[k].kind = "symbol"
                        /\ e[k].sym \notin Builtin
                        /\ e[k].sym \notin BoundAt(e, k)}}
        /\ \A k \in 1..n : t[k] \in Node
    BY <1>1, <1>3, FreeNodes DEF n
  <1>8. ASSUME NEW k \in 1..n, NEW b \in 1..n
        PROVE  k + 1 \in SpanOf(e, b + 1) <=> k \in SpanOf(t, b)
    <2>1. e[b + 1] = t[b] /\ t[b].size \in Nat
      BY <1>3, <1>7 DEF Node
    <2> QED
      BY <2>1 DEF SpanOf
  <1>9. ASSUME NEW k \in 1..n
        PROVE  BoundAt(e, k + 1) = BoundAt(t, k)
    <2>1. ASSUME NEW x \in BoundAt(e, k + 1) PROVE x \in BoundAt(t, k)
      <3>1. PICK c \in 1..(n + 2) : k + 1 \in SpanOf(e, c) /\ x \in e[c].bound
        BY <1>6, <1>7
      <3>2. c - 1 \in 1..n /\ (c - 1) + 1 = c
        BY <1>3, <1>4, <1>5, <3>1
      <3>3. e[c] = t[c - 1] /\ k \in SpanOf(t, c - 1)
        BY <1>3, <1>8, <3>1, <3>2
      <3> QED
        BY <1>7, <3>1, <3>2, <3>3
    <2>2. ASSUME NEW x \in BoundAt(t, k) PROVE x \in BoundAt(e, k + 1)
      <3>1. PICK b \in 1..n : k \in SpanOf(t, b) /\ x \in t[b].bound
        BY <1>7
      <3>2. b + 1 \in 1..(n + 2) /\ k + 1 \in 1..(n + 2) /\ e[b + 1] = t[b]
            /\ k + 1 \in SpanOf(e, b + 1)
        BY <1>3, <1>6, <1>8, <3>1
      <3> QED
        BY <1>7, <3>1, <3>2
    <2> QED
      BY <2>1, <2>2
  <1>10. ASSUME NEW x \in Free(e) PROVE x \in {v} \cup Free(t)
    <2>1. PICK k \in 1..(n + 2) : /\ x = e[k].sym /\ e[k].kind = "symbol"
                                  /\ x \notin Builtin /\ x \notin BoundAt(e, k)
      BY <1>7
    <2>2. (k = 1) \/ (k - 1 \in 1..n /\ (k - 1) + 1 = k)
      BY <1>3, <1>4, <1>5, <2>1
    <2>3. CASE k = 1
      BY <1>3, <1>4, <2>1, <2>3
    <2>4. CASE k - 1 \in 1..n /\ (k - 1) + 1 = k
      <3>1. e[k] = t[k - 1] /\ BoundAt(e, k) = BoundAt(t, k - 1)
        BY <1>3, <1>9, <2>4
      <3> QED
        BY <1>7, <2>1, <2>4, <3>1
    <2> QED
      BY <2>2, <2>3, <2>4
  <1>11. ASSUME NEW x \in Free(t) PROVE x \in Free(e)
    <2>1. PICK k \in 1..n : /\ x = t[k].sym /\ t[k].kind = "symbol"
                            /\ x \notin Builtin /\ x \notin BoundAt(t, k)
      BY <1>7
    <2>2. k + 1 \in 1..(n + 2) /\ e[k + 1] = t[k] /\ BoundAt(e, k + 1) = BoundAt(t, k)
      BY <1>3, <1>6, <1>9
    <2> QED
      BY <1>7, <2>1, <2>2
  <1>12. v \in Free(e)
    <2>1. \A b \in 1..(n + 2) : v \notin e[b].bound
      <3> SUFFICES ASSUME NEW b \in 1..(n + 2) PROVE v \notin e[b].bound
        OBVIOUS
      <3>1. CASE b = 1 \/ b = n + 2
        BY <1>3, <1>4, <3>1
      <3>2. CASE b - 1 \in 1..n /\ (b - 1) + 1 = b
        BY <1>3, <3>2 DEF n
      <3> QED
        BY <1>5, <3>1, <3>2
    <2>2. 1 \in 1..(n + 2)
      BY <1>1
    <2>3. v \notin BoundAt(e, 1)
      BY <1>7, <2>1, <2>2
    <2> QED
      BY <1>3, <1>4, <1>7, <2>2, <2>3
  <1> QED
    BY <1>10, <1>11, <1>12 DEF e, eq, n

\* The truth assertion speaks of the copied terms' names, and there is one if
\* there are any.
LEMMA FreeBam ==
    ASSUME NEW f \in Seq(BOOLEAN)
    PROVE  /\ Free(BamTerm(f)) \subseteq {BavName(k) : k \in 1..Len(f)}
           /\ BamTerm(f) = <<>> <=> Len(f) = 0
           /\ Labels(BamTerm(f)) = {} /\ NamedOnce(BamTerm(f))
  <1> DEFINE n == Len(f)
             Equation(k, j) == CASE j = 0 -> Leaf(BavName(k))
                                 [] j = 1 -> Leaf(Truth(f[k]))
                                 [] j = 2 -> Apply(Op("="), 3)
             At(i) == IF i <= 3 * n THEN Equation(((i - 1) \div 3) + 1, (i - 1) % 3)
                                    ELSE Apply(Op("and"), 4 * (i - 3 * n))
             b == BamTerm(f)
  <1>1. n \in Nat /\ b \in Seq(Node)
    BY BamType, LenProperties
  <1>2. b = [i \in 1..(4 * n) |-> At(i)]
    BY DEF BamTerm
  <1>3. Len(b) = 4 * n
    <2>1. DOMAIN b = 1..Len(b) /\ Len(b) \in Nat /\ 4 * n \in Nat
      BY <1>1, LenProperties
    <2> HIDE DEF b, At, n
    <2>2. 1..Len(b) = 1..(4 * n)
      BY <1>2, <2>1
    <2> QED
      BY <2>1, <2>2, SameInterval
  <1>4. /\ Op("=") \in Builtin /\ Op("and") \in Builtin
        /\ \A v \in BOOLEAN : Truth(v) \in Builtin
    BY DEF Builtin, OpNames, Truth, Op
  <1>5. ASSUME NEW i \in 1..(4 * n), At(i).sym \notin Builtin
        PROVE  \E k \in 1..n : At(i).sym = BavName(k)
    <2>1. i <= 3 * n
      BY <1>4, <1>5 DEF Apply
    <2> DEFINE k == ((i - 1) \div 3) + 1
               j == (i - 1) % 3
    <2>2. k \in 1..n /\ j \in 0..2
      BY <1>1, <2>1
    <2>3. At(i) = Equation(k, j)
      BY <2>1
    <2> HIDE DEF k, j, At, n
    <2>4. f[k] \in BOOLEAN
      BY <2>2, ElementOfSeq DEF n
    <2>5. j = 0
      <3>1. ASSUME j = 1 PROVE FALSE
        <4>1. At(i) = Leaf(Truth(f[k]))
          BY <2>3, <3>1
        <4> QED
          BY <1>4, <1>5, <2>4, <4>1 DEF Leaf
      <3>2. ASSUME j = 2 PROVE FALSE
        <4>1. At(i) = Apply(Op("="), 3)
          BY <2>3, <3>2
        <4> QED
          BY <1>4, <1>5, <4>1 DEF Apply
      <3> QED
        BY <2>2, <3>1, <3>2
    <2>6. At(i) = Leaf(BavName(k))
      BY <2>3, <2>5
    <2> QED
      BY <2>2, <2>6 DEF Leaf
  <1>8. ASSUME NEW i \in 1..(4 * n) PROVE At(i).kind = "symbol"
    <2>1. \A s, m : Leaf(s).kind = "symbol" /\ Apply(s, m).kind = "symbol"
      BY DEF Leaf, Apply
    <2>2. CASE i <= 3 * n
      <3> DEFINE k == ((i - 1) \div 3) + 1
                 j == (i - 1) % 3
      <3>1. j \in 0..2
        BY <1>1, <2>2
      <3>2. At(i) = Equation(k, j)
        BY <2>2
      <3> HIDE DEF k, j, At
      <3>3. j = 0 \/ j = 1 \/ j = 2
        BY <3>1
      <3> QED
        BY <2>1, <3>2, <3>3
    <2>3. CASE ~(i <= 3 * n)
      BY <2>1, <2>3
    <2> QED
      BY <2>2, <2>3
  <1> HIDE DEF n, At, b
  <1>6. ASSUME NEW x \in Free(b) PROVE x \in {BavName(k) : k \in 1..n}
    <2>1. PICK i \in 1..Len(b) : x = b[i].sym /\ x \notin Builtin
      BY <1>1, FreeNodes
    <2> QED
      BY <1>2, <1>3, <1>5, <2>1
  <1>7. b = <<>> <=> n = 0
    <2>1. b = <<>> => n = 0
      BY <1>1, <1>3
    <2>2. n = 0 => b = <<>>
      <3>1. n = 0 => Len(b) = 0
        BY <1>3
      <3> QED
        BY <1>1, <3>1, EmptySeq
    <2> QED
      BY <2>1, <2>2
  <1>9. NamedAt(b) = {}
    BY <1>1, <1>2, <1>3, <1>8, NamedNodes
  <1> QED
    BY <1>6, <1>7, <1>9 DEF n, b, Labels, NamedOnce

-----------------------------------------------------------------------------
(* What an insertion does to a script's legality.                          *)

\* Legality, less the names.
WellTermed(c) == (c.kind = "assert" => c.term # <<>>) /\ NamedOnce(c.term)
WellFormed(s) ==
    /\ \A i \in 1..Len(s) : WellTermed(s[i])
    /\ Balanced(s)
    /\ LogicFirst(s)

\* A command where the names of N are in force.
Fits(c, N) == Uses(c) \subseteq N /\ Introduces(c) \cap N = {}
NamesFit(s) == \A m \in 1..Len(s) : Fits(s[m], InForce(s, m))

\* A legal script is well-formed, and its names fit.
LEMMA LegalParts ==
    ASSUME NEW s \in Seq(Command)
    PROVE  Legal(s) <=> WellFormed(s) /\ NamesFit(s)
  <1>1. DOMAIN s = 1..Len(s)
    BY LenProperties
  <1>2. NamesFit(s) <=> Undeclared(s) = {} /\ Redeclared(s) = {}
    BY <1>1 DEF NamesFit, Fits, Undeclared, Redeclared
  <1> QED
    BY <1>1, <1>2 DEF Legal, WellFormed, WellTermed

\* An index of r is that of a command of s or of one that was inserted.
LEMMA IndexSpliced ==
    ASSUME NEW r, NEW s, NEW i, NEW t, Spliced(r, s, i, t)
    PROVE  /\ \A j \in 1..Len(s) : /\ Shift(j, i, Len(t)) \in 1..Len(r)
                                   /\ r[Shift(j, i, Len(t))] = s[j]
                                   /\ Origin(Shift(j, i, Len(t)), i, Len(t)) = j
           /\ \A p \in 1..Len(t) : /\ i - 1 + p \in 1..Len(r)
                                   /\ r[i - 1 + p] = t[p]
                                   /\ Origin(i - 1 + p, i, Len(t)) = i
           /\ \A x \in 1..Len(r) : \/ \E j \in 1..Len(s) : x = Shift(j, i, Len(t))
                                   \/ \E p \in 1..Len(t) : x = i - 1 + p
  <1> DEFINE n == Len(t)
  <1>1. /\ Len(s) \in Nat /\ n \in Nat /\ Len(r) = Len(s) + n
        /\ i \in Nat /\ i >= 1 /\ i <= Len(s) + 1
    BY SplicedType
  <1>2. /\ \A k \in 1..(i - 1) : r[k] = s[k]
        /\ \A k \in 1..n : r[i - 1 + k] = t[k]
        /\ \A k \in i..Len(s) : r[k + n] = s[k]
    BY DEF Spliced, Inserted
  <1> HIDE DEF n
  <1>3. ASSUME NEW j \in 1..Len(s)
        PROVE  /\ Shift(j, i, n) \in 1..Len(r) /\ r[Shift(j, i, n)] = s[j]
               /\ Origin(Shift(j, i, n), i, n) = j
    <2>1. CASE j < i
      <3>1. j \in 1..(i - 1) /\ j \in 1..Len(r)
        BY <1>1, <2>1
      <3> QED
        BY <1>2, <2>1, <3>1 DEF Shift, Origin
    <2>2. CASE ~(j < i)
      <3>1. /\ j \in i..Len(s) /\ j + n \in 1..Len(r)
            /\ ~(j + n < i) /\ ~(j + n < i + n) /\ j + n - n = j
        BY <1>1, <2>2
      <3>2. Shift(j, i, n) = j + n /\ Origin(j + n, i, n) = j
        BY <1>1, <2>2, <3>1 DEF Shift, Origin
      <3>3. r[j + n] = s[j]
        BY <1>2, <3>1
      <3> QED
        BY <3>1, <3>2, <3>3
    <2> QED
      BY <2>1, <2>2
  <1>4. ASSUME NEW p \in 1..n
        PROVE  i - 1 + p \in 1..Len(r) /\ r[i - 1 + p] = t[p] /\ Origin(i - 1 + p, i, n) = i
    <2>1. i - 1 + p \in 1..Len(r) /\ ~(i - 1 + p < i) /\ i - 1 + p < i + n
      BY <1>1
    <2> QED
      BY <1>2, <2>1 DEF Origin
  <1>5. ASSUME NEW x \in 1..Len(r)
        PROVE  \/ \E j \in 1..Len(s) : x = Shift(j, i, n)
               \/ \E p \in 1..n : x = i - 1 + p
    <2>1. CASE x < i
      <3>1. x \in 1..Len(s) /\ Shift(x, i, n) = x
        BY <1>1, <2>1 DEF Shift
      <3> QED
        BY <3>1
    <2>2. CASE i <= x /\ x < i + n
      <3>1. x - (i - 1) \in 1..n /\ i - 1 + (x - (i - 1)) = x
        BY <1>1, <2>2
      <3> QED
        BY <3>1
    <2>3. CASE i + n <= x
      <3>1. x - n \in 1..Len(s) /\ Shift(x - n, i, n) = x
        BY <1>1, <2>3 DEF Shift
      <3> QED
        BY <3>1
    <2> QED
      BY <1>1, <2>1, <2>2, <2>3
  <1> QED
    BY <1>3, <1>4, <1>5 DEF n

\* Before the first command there is no level.
LEMMA DepthNone ==
    ASSUME NEW s
    PROVE  Depth(s, 0) = 0
  <1>1. \A kind : {m \in 1..0 : s[m].kind = kind} = {}
    OBVIOUS
  <1>2. Cardinality({}) = 0
    BY FS_EmptySet
  <1> QED
    BY <1>1, <1>2 DEF Depth

\* The command of s whose level r has behind x.
OldPlace(x, i, n) == IF x < i THEN x ELSE IF x < i + n THEN i - 1 ELSE x - n

LEMMA BelowSpliced ==
    ASSUME NEW r, NEW s, NEW i, NEW t, Spliced(r, s, i, t), NEW x \in 0..Len(r)
    PROVE  /\ OldPlace(x, i, Len(t)) \in 0..Len(s)
           /\ Depth(r, x) = Depth(s, OldPlace(x, i, Len(t)))
  <1> DEFINE n == Len(t)
  <1>1. /\ Len(s) \in Nat /\ n \in Nat /\ Len(r) = Len(s) + n
        /\ i \in Nat /\ i >= 1 /\ i <= Len(s) + 1
    BY SplicedType
  <1>2. /\ \A k \in 0..(i - 1) : Depth(r, k) = Depth(s, k)
        /\ \A p \in 0..n : Depth(r, i - 1 + p) = Depth(s, i - 1)
        /\ \A k \in (i - 1)..Len(s) : Depth(r, k + n) = Depth(s, k)
    BY DepthSpliced
  <1> HIDE DEF n
  <1>3. CASE x < i
    <2>1. x \in 0..(i - 1) /\ x \in 0..Len(s)
      BY <1>1, <1>3
    <2> QED
      BY <1>2, <1>3, <2>1 DEF OldPlace, n
  <1>4. CASE i <= x /\ x < i + n
    <2>1. /\ x - (i - 1) \in 0..n /\ i - 1 + (x - (i - 1)) = x
          /\ i - 1 \in 0..Len(s) /\ ~(x < i)
      BY <1>1, <1>4
    <2>2. OldPlace(x, i, n) = i - 1
      BY <1>4, <2>1 DEF OldPlace
    <2> QED
      BY <1>2, <2>1, <2>2 DEF n
  <1>5. CASE i + n <= x
    <2>1. x - n \in (i - 1)..Len(s) /\ x - n \in 0..Len(s) /\ x - n + n = x
          /\ ~(x < i) /\ ~(x < i + n)
      BY <1>1, <1>5
    <2>2. OldPlace(x, i, n) = x - n
      BY <2>1 DEF OldPlace
    <2> QED
      BY <1>2, <2>1, <2>2 DEF n
  <1> QED
    BY <1>1, <1>3, <1>4, <1>5

\* Every pop keeps its push.
LEMMA BalancedSpliced ==
    ASSUME NEW r, NEW s, NEW i, NEW t, Spliced(r, s, i, t), Balanced(s)
    PROVE  Balanced(r)
  <1> DEFINE n == Len(t)
  <1>1. /\ Len(s) \in Nat /\ n \in Nat /\ Len(r) = Len(s) + n
        /\ i \in Nat /\ i >= 1 /\ i <= Len(s) + 1
        /\ DOMAIN r = 1..Len(r) /\ DOMAIN s = 1..Len(s)
    BY SplicedType
  <1>2. /\ \A k \in 1..(i - 1) : r[k] = s[k]
        /\ \A k \in 1..n : r[i - 1 + k].kind \notin Resets
        /\ \A k \in i..Len(s) : r[k + n] = s[k]
    BY DEF Spliced, Inserted
  <1>3. \A x \in 0..Len(r) : /\ OldPlace(x, i, n) \in 0..Len(s)
                             /\ Depth(r, x) = Depth(s, OldPlace(x, i, n))
    BY BelowSpliced
  <1> SUFFICES ASSUME NEW x \in 1..Len(r), NEW k \in 0..x,
                      k = 0 \/ r[k].kind \in Resets, NoReset(r, k + 1, x)
               PROVE  Depth(r, x) >= Depth(r, k)
    BY <1>1 DEF Balanced
  <1> HIDE DEF n
  <1> DEFINE y == OldPlace(x, i, n)
             l == OldPlace(k, i, n)
  <1>4. /\ x \in 0..Len(r) /\ k \in 0..Len(r)
        /\ y \in 0..Len(s) /\ l \in 0..Len(s)
        /\ Depth(r, x) = Depth(s, y) /\ Depth(r, k) = Depth(s, l)
    BY <1>1, <1>3
  <1>5. ~(i <= k /\ k < i + n)
    <2> SUFFICES ASSUME i <= k, k < i + n PROVE FALSE
      OBVIOUS
    <2>1. k # 0 /\ k - (i - 1) \in 1..n /\ i - 1 + (k - (i - 1)) = k
      BY <1>1
    <2> QED
      BY <1>2, <2>1
  <1>6. /\ y = IF x < i THEN x ELSE IF x < i + n THEN i - 1 ELSE x - n
        /\ l = IF k < i THEN k ELSE k - n
    BY <1>1, <1>5 DEF OldPlace
  <1> HIDE DEF y, l
  <1>7. l \in 0..y
    BY <1>1, <1>4, <1>5, <1>6
  <1>8. l = 0 \/ s[l].kind \in Resets
    <2>1. CASE k = 0
      BY <1>1, <1>6, <2>1
    <2>2. CASE k # 0 /\ k < i
      <3>1. k \in 1..(i - 1)
        BY <1>1, <2>2
      <3> QED
        BY <1>2, <1>6, <2>2, <3>1
    <2>3. CASE k # 0 /\ ~(k < i)
      <3>1. k - n \in i..Len(s) /\ k - n + n = k
        BY <1>1, <1>5, <2>3
      <3> QED
        BY <1>2, <1>6, <2>3, <3>1
    <2> QED
      BY <2>1, <2>2, <2>3
  <1>9. NoReset(s, l + 1, y)
    <2> SUFFICES ASSUME NEW z \in (l + 1)..y PROVE s[z].kind \notin Resets
      BY DEF NoReset
    <2>1. CASE z < i
      <3>1. z \in 1..(i - 1) /\ z \in (k + 1)..x
        BY <1>1, <1>4, <1>5, <1>6, <2>1
      <3> QED
        BY <1>2, <3>1 DEF NoReset
    <2>2. CASE ~(z < i)
      <3>1. z \in i..Len(s) /\ z + n \in (k + 1)..x
        BY <1>1, <1>4, <1>5, <1>6, <2>2
      <3> QED
        BY <1>2, <3>1 DEF NoReset
    <2> QED
      BY <2>1, <2>2
  <1>10. CASE y = 0
    <2>1. l = 0 /\ Depth(s, 0) \in Int
      BY <1>7, <1>10, DepthType
    <2> QED
      BY <1>4, <1>10, <2>1
  <1>11. CASE y # 0
    <2>1. y \in DOMAIN s
      BY <1>1, <1>4, <1>11
    <2>2. Depth(s, y) >= Depth(s, l)
      BY <1>7, <1>8, <1>9, <2>1 DEF Balanced
    <2> QED
      BY <1>4, <2>2
  <1> QED
    BY <1>10, <1>11

\* From i on there is no set-logic without a reset before it.
LogicBehind(s, i) ==
    \A j \in i..Len(s) :
        s[j].kind = "set-logic" => \E m \in i..(j - 1) : s[m].kind = "reset"

\* What is inserted there is behind set-logic.
LEMMA LogicSpliced ==
    ASSUME NEW r, NEW s, NEW i, NEW t, Spliced(r, s, i, t), LogicFirst(s),
           LogicBehind(s, i), \A p \in 1..Len(t) : t[p].kind # "set-logic"
    PROVE  LogicFirst(r)
  <1> DEFINE n == Len(t)
  <1>1. /\ Len(s) \in Nat /\ n \in Nat /\ Len(r) = Len(s) + n
        /\ i \in Nat /\ i >= 1 /\ i <= Len(s) + 1
        /\ DOMAIN r = 1..Len(r) /\ DOMAIN s = 1..Len(s)
    BY SplicedType
  <1>2. /\ \A j \in 1..Len(s) : Shift(j, i, n) \in 1..Len(r) /\ r[Shift(j, i, n)] = s[j]
        /\ \A p \in 1..n : i - 1 + p \in 1..Len(r) /\ r[i - 1 + p] = t[p]
        /\ \A x \in 1..Len(r) : \/ \E j \in 1..Len(s) : x = Shift(j, i, n)
                                \/ \E p \in 1..n : x = i - 1 + p
    BY IndexSpliced
  <1> SUFFICES ASSUME NEW x \in 1..Len(r), NEW y \in 1..(x - 1),
                      r[x].kind = "set-logic", r[y].kind \notin Early
               PROVE  \E m \in (y + 1)..(x - 1) : r[m].kind = "reset"
    BY <1>1 DEF LogicFirst
  <1> HIDE DEF n
  <1>3. PICK j \in 1..Len(s) : x = Shift(j, i, n) /\ s[j].kind = "set-logic"
    <2>1. ASSUME NEW p \in 1..n, x = i - 1 + p PROVE FALSE
      <3>1. t[p].kind # "set-logic"
        BY DEF n
      <3> QED
        BY <1>2, <2>1, <3>1
    <2>2. PICK j \in 1..Len(s) : x = Shift(j, i, n)
      BY <1>2, <2>1
    <2> QED
      BY <1>2, <2>2
  <1>4. y \in 1..Len(r)
    BY <1>1
  <1>5. ASSUME NEW m \in 1..Len(s), s[m].kind = "reset",
               Shift(m, i, n) \in (y + 1)..(x - 1)
        PROVE  \E z \in (y + 1)..(x - 1) : r[z].kind = "reset"
    <2>1. r[Shift(m, i, n)] = s[m]
      BY <1>2
    <2> QED
      BY <1>5, <2>1
  <1>6. ASSUME NEW k \in 1..Len(s), y = Shift(k, i, n)
        PROVE  \E m \in (y + 1)..(x - 1) : r[m].kind = "reset"
    <2>1. k \in 1..(j - 1) /\ s[k].kind \notin Early /\ j \in DOMAIN s
      BY <1>1, <1>2, <1>3, <1>6 DEF Shift
    <2>2. PICK m \in (k + 1)..(j - 1) : s[m].kind = "reset"
      BY <1>3, <2>1 DEF LogicFirst
    <2>3. m \in 1..Len(s) /\ Shift(m, i, n) \in (y + 1)..(x - 1)
      BY <1>1, <1>3, <1>6, <2>1 DEF Shift
    <2> QED
      BY <1>5, <2>2, <2>3
  <1>7. ASSUME NEW p \in 1..n, y = i - 1 + p
        PROVE  \E m \in (y + 1)..(x - 1) : r[m].kind = "reset"
    <2>1. j \in i..Len(s) /\ x = j + n
      BY <1>1, <1>3, <1>7 DEF Shift
    <2>2. PICK m \in i..(j - 1) : s[m].kind = "reset"
      BY <1>3, <2>1 DEF LogicBehind
    <2>3. m \in 1..Len(s) /\ Shift(m, i, n) \in (y + 1)..(x - 1)
      BY <1>1, <1>7, <2>1 DEF Shift
    <2> QED
      BY <1>5, <2>2, <2>3
  <1> QED
    BY <1>2, <1>4, <1>6, <1>7

\* Behind set-logic, declarations and assertions may come.
LEMMA WellFormedSpliced ==
    ASSUME NEW r, NEW s, NEW i, NEW t, Spliced(r, s, i, t), WellFormed(s),
           LogicBehind(s, i), \A p \in 1..Len(t) : t[p].kind # "set-logic"
    PROVE  WellFormed(r) <=> \A p \in 1..Len(t) : WellTermed(t[p])
  <1> DEFINE n == Len(t)
  <1>1. /\ \A j \in 1..Len(s) : Shift(j, i, n) \in 1..Len(r) /\ r[Shift(j, i, n)] = s[j]
        /\ \A p \in 1..n : i - 1 + p \in 1..Len(r) /\ r[i - 1 + p] = t[p]
        /\ \A x \in 1..Len(r) : \/ \E j \in 1..Len(s) : x = Shift(j, i, n)
                                \/ \E p \in 1..n : x = i - 1 + p
    BY IndexSpliced
  <1>2. Balanced(r) /\ LogicFirst(r)
    BY BalancedSpliced, LogicSpliced DEF WellFormed
  <1> HIDE DEF n
  <1>3. ASSUME \A x \in 1..Len(r) : WellTermed(r[x]), NEW p \in 1..n
        PROVE  WellTermed(t[p])
    BY <1>1, <1>3
  <1>4. ASSUME \A p \in 1..n : WellTermed(t[p]), NEW x \in 1..Len(r)
        PROVE  WellTermed(r[x])
    <2>1. ASSUME NEW j \in 1..Len(s), x = Shift(j, i, n) PROVE WellTermed(r[x])
      BY <1>1, <2>1 DEF WellFormed
    <2>2. ASSUME NEW p \in 1..n, x = i - 1 + p PROVE WellTermed(r[x])
      BY <1>1, <1>4, <2>2
    <2> QED
      BY <1>1, <2>1, <2>2
  <1> QED
    BY <1>2, <1>3, <1>4 DEF WellFormed, n

\* The names of r fit if those of s and of t do where they stand in r.
LEMMA FitSpliced ==
    ASSUME NEW r, NEW s, NEW i, NEW t, Spliced(r, s, i, t)
    PROVE  NamesFit(r) <=>
             /\ \A j \in 1..Len(s) : Fits(s[j], InForce(r, Shift(j, i, Len(t))))
             /\ \A p \in 1..Len(t) : Fits(t[p], InForce(r, i - 1 + p))
  <1> DEFINE n == Len(t)
  <1>1. /\ \A j \in 1..Len(s) : Shift(j, i, n) \in 1..Len(r) /\ r[Shift(j, i, n)] = s[j]
        /\ \A p \in 1..n : i - 1 + p \in 1..Len(r) /\ r[i - 1 + p] = t[p]
        /\ \A x \in 1..Len(r) : \/ \E j \in 1..Len(s) : x = Shift(j, i, n)
                                \/ \E p \in 1..n : x = i - 1 + p
    BY IndexSpliced
  <1> HIDE DEF n
  <1>2. ASSUME NamesFit(r), NEW j \in 1..Len(s)
        PROVE  Fits(s[j], InForce(r, Shift(j, i, n)))
    BY <1>1, <1>2 DEF NamesFit
  <1>3. ASSUME NamesFit(r), NEW p \in 1..n PROVE Fits(t[p], InForce(r, i - 1 + p))
    BY <1>1, <1>3 DEF NamesFit
  <1>4. ASSUME \A j \in 1..Len(s) : Fits(s[j], InForce(r, Shift(j, i, n))),
               \A p \in 1..n : Fits(t[p], InForce(r, i - 1 + p)),
               NEW x \in 1..Len(r)
        PROVE  Fits(r[x], InForce(r, x))
    <2>1. ASSUME NEW j \in 1..Len(s), x = Shift(j, i, n) PROVE Fits(r[x], InForce(r, x))
      BY <1>1, <1>4, <2>1
    <2>2. ASSUME NEW p \in 1..n, x = i - 1 + p PROVE Fits(r[x], InForce(r, x))
      BY <1>1, <1>4, <2>2
    <2> QED
      BY <1>1, <2>1, <2>2
  <1> QED
    BY <1>2, <1>3, <1>4 DEF NamesFit, n

\* The names that the commands of t introduce, and those before p.
NamesOf(t) == UNION {Introduces(t[p]) : p \in 1..Len(t)}
NamesBefore(t, p) == UNION {Introduces(t[q]) : q \in 1..(p - 1)}

\* Those of N that command j has, when they are put in front of command i.
Given(s, i, j, N) == IF Kept(s, i, j) THEN N ELSE {}

\* What is put in front of a command is in force there.
LEMMA KeptHere ==
    ASSUME NEW s, NEW i \in Nat
    PROVE  Kept(s, i, i)
  <1>1. i..(i - 1) = {}
    OBVIOUS
  <1> QED
    BY <1>1 DEF Kept, NoReset

\* The names of s fit when those of N are put in front of command i.
FitWith(s, i, N) == \A j \in 1..Len(s) : Fits(s[j], InForce(s, j) \cup Given(s, i, j, N))

\* What was inserted has the names before it, and gives its names to the
\* commands in front of which they are kept.
LEMMA NamesInserted ==
    ASSUME NEW r, NEW s, NEW i, NEW t, Spliced(r, s, i, t)
    PROVE  /\ \A j \in 1..(Len(s) + 1) :
                InForce(r, Shift(j, i, Len(t))) = InForce(s, j) \cup Given(s, i, j, NamesOf(t))
           /\ \A p \in 1..Len(t) : InForce(r, i - 1 + p) = InForce(s, i) \cup NamesBefore(t, p)
           /\ NamesFit(r) <=>
                /\ FitWith(s, i, NamesOf(t))
                /\ \A p \in 1..Len(t) : Fits(t[p], InForce(s, i) \cup NamesBefore(t, p))
  <1> DEFINE n == Len(t)
             N == NamesOf(t)
  <1>1. /\ Len(s) \in Nat /\ n \in Nat /\ Len(r) = Len(s) + n
        /\ i \in Nat /\ i >= 1 /\ i <= Len(s) + 1
        /\ DOMAIN s = 1..Len(s)
    BY SplicedType
  <1>2. \A p \in 1..n : \A m \in 1..(Len(r) + 1) :
          Survives(r, i - 1 + p, m) <=> i - 1 + p < m /\ Kept(s, i, Origin(m, i, n))
    BY SurvivesInserted
  <1>3. \A m \in 1..(Len(r) + 1) :
          InForce(r, m) = InForce(s, Origin(m, i, n))
            \cup UNION {Introduces(t[p]) : p \in {p \in 1..n : Survives(r, i - 1 + p, m)}}
    BY InForceSpliced
  <1>4. NamesFit(r) <=>
          /\ \A j \in 1..Len(s) : Fits(s[j], InForce(r, Shift(j, i, n)))
          /\ \A p \in 1..n : Fits(t[p], InForce(r, i - 1 + p))
    BY FitSpliced
  <1>5. N = UNION {Introduces(t[p]) : p \in 1..n}
    BY DEF NamesOf
  <1> HIDE DEF n, N
  <1>6. ASSUME NEW j \in 1..(Len(s) + 1)
        PROVE  InForce(r, Shift(j, i, n)) = InForce(s, j) \cup Given(s, i, j, N)
    <2> DEFINE m == Shift(j, i, n)
               P == {p \in 1..n : Survives(r, i - 1 + p, m)}
    <2>1. m \in 1..(Len(r) + 1) /\ Origin(m, i, n) = j
      BY <1>1 DEF Origin, Shift
    <2>2. P = {p \in 1..n : i - 1 + p < m /\ Kept(s, i, j)}
      BY <1>2, <2>1
    <2>3. InForce(r, m) = InForce(s, j) \cup UNION {Introduces(t[p]) : p \in P}
      BY <1>3, <2>1
    <2>4. Kept(s, i, j) => i <= j
      BY DEF Kept
    <2>5. i <= j => \A p \in 1..n : i - 1 + p < m
      BY <1>1 DEF Shift
    <2> HIDE DEF m, P
    <2>6. CASE Kept(s, i, j)
      <3>1. P = 1..n
        BY <2>2, <2>4, <2>5, <2>6
      <3> QED
        BY <1>5, <2>3, <2>6, <3>1 DEF Given, m
    <2>7. CASE ~Kept(s, i, j)
      <3>1. P = {}
        BY <2>2, <2>7
      <3> QED
        BY <2>3, <2>7, <3>1 DEF Given, m
    <2> QED
      BY <2>6, <2>7
  <1>7. ASSUME NEW p \in 1..n
        PROVE  InForce(r, i - 1 + p) = InForce(s, i) \cup NamesBefore(t, p)
    <2> DEFINE m == i - 1 + p
               P == {q \in 1..n : Survives(r, i - 1 + q, m)}
    <2>1. m \in 1..(Len(r) + 1) /\ Origin(m, i, n) = i
      BY <1>1 DEF Origin
    <2>2. Kept(s, i, i)
      BY <1>1, KeptHere
    <2>3. \A q \in 1..n : i - 1 + q < m <=> q \in 1..(p - 1)
      BY <1>1
    <2>4. \A q \in 1..(p - 1) : q \in 1..n
      BY <1>1
    <2>5. InForce(r, m) = InForce(s, i) \cup UNION {Introduces(t[q]) : q \in P}
      BY <1>3, <2>1
    <2> HIDE DEF m
    <2>6. \A q \in 1..n : Survives(r, i - 1 + q, m) <=> q \in 1..(p - 1)
      BY <1>2, <2>1, <2>2, <2>3
    <2>7. P = 1..(p - 1)
      BY <2>4, <2>6
    <2> HIDE DEF P
    <2> QED
      BY <2>5, <2>7 DEF NamesBefore, m
  <1>8. \A j \in 1..Len(s) : j \in 1..(Len(s) + 1)
    BY <1>1
  <1> QED
    BY <1>4, <1>6, <1>7, <1>8 DEF n, N, FitWith

\* Two scripts that differ in the nodes of their terms.
SameShape(w, s) ==
    /\ w \in Seq(Command) /\ s \in Seq(Command) /\ Len(w) = Len(s)
    /\ \A i \in 1..Len(s) : /\ w[i].kind = s[i].kind
                            /\ w[i].sym = s[i].sym
                            /\ w[i].params = s[i].params
                            /\ w[i].term = <<>> <=> s[i].term = <<>>
                            /\ Labels(w[i].term) = Labels(s[i].term)
                            /\ NamedOnce(w[i].term) <=> NamedOnce(s[i].term)

\* What is in force where is the same in both.
SameScopes(w, s) ==
    \A j, m \in 1..(Len(s) + 1) : /\ Survives(w, j, m) <=> Survives(s, j, m)
                                  /\ Kept(w, j, m) <=> Kept(s, j, m)

LEMMA ShapeKept ==
    ASSUME NEW w, NEW s, SameShape(w, s)
    PROVE  /\ \A m \in 0..Len(s) : Depth(w, m) = Depth(s, m)
           /\ SameScopes(w, s)
           /\ \A m \in 1..(Len(s) + 1) : InForce(w, m) = InForce(s, m)
           /\ WellFormed(w) <=> WellFormed(s)
           /\ AfterLogic(w) = AfterLogic(s)
           /\ FirstQuery(w) = FirstQuery(s)
  <1>1. /\ Len(s) \in Nat /\ Len(w) = Len(s)
        /\ DOMAIN s = 1..Len(s) /\ DOMAIN w = 1..Len(s)
    BY LenProperties DEF SameShape
  <1>2. \A i \in 1..Len(s) : /\ w[i].kind = s[i].kind
                             /\ Introduces(w[i]) = Introduces(s[i])
                             /\ WellTermed(w[i]) <=> WellTermed(s[i])
    BY DEF SameShape, Introduces, WellTermed
  <1>3. ASSUME NEW m \in 0..Len(s) PROVE Depth(w, m) = Depth(s, m)
    <2>1. \A x \in 1..m : x \in 1..Len(s)
      BY <1>1
    <2>2. \A kind : {x \in 1..m : w[x].kind = kind} = {x \in 1..m : s[x].kind = kind}
      BY <1>2, <2>1
    <2> QED
      BY <2>2 DEF Depth
  <1>4. ASSUME NEW j \in 1..(Len(s) + 1), NEW m \in 1..(Len(s) + 1)
        PROVE  /\ Survives(w, j, m) <=> Survives(s, j, m)
               /\ Kept(w, j, m) <=> Kept(s, j, m)
    <2>1. \A x \in j..(m - 1) : x \in 0..Len(s) /\ x \in 1..Len(s)
      BY <1>1
    <2>2. j - 1 \in 0..Len(s) /\ (j < m => j \in 0..Len(s))
      BY <1>1
    <2>3. NoReset(w, j, m - 1) <=> NoReset(s, j, m - 1)
      BY <1>2, <2>1 DEF NoReset
    <2> QED
      BY <1>3, <2>1, <2>2, <2>3 DEF Survives, Kept
  <1>5. ASSUME NEW m \in 1..(Len(s) + 1) PROVE InForce(w, m) = InForce(s, m)
    <2>1. \A j \in 1..Len(s) : Survives(w, j, m) <=> Survives(s, j, m)
      BY <1>1, <1>4
    <2> QED
      BY <1>1, <1>2, <2>1 DEF InForce
  <1>7. WellFormed(w) <=> WellFormed(s)
    <2>1. \A x \in 1..Len(s) : \A k \in 0..x : k \in 0..Len(s) /\ (k # 0 => k \in 1..Len(s))
      BY <1>1
    <2>2. \A x \in 1..Len(s) : Depth(w, x) = Depth(s, x)
      BY <1>1, <1>3
    <2>3. \A x \in 1..Len(s) : \A k \in 0..x :
            /\ Depth(w, k) = Depth(s, k)
            /\ k = 0 \/ w[k].kind \in Resets <=> k = 0 \/ s[k].kind \in Resets
      BY <1>2, <1>3, <2>1
    <2>4. \A x \in 1..Len(s) : \A k \in 0..x : \A m \in (k + 1)..x : m \in 1..Len(s)
      BY <1>1
    <2>5. \A x \in 1..Len(s) : \A k \in 0..x : NoReset(w, k + 1, x) <=> NoReset(s, k + 1, x)
      BY <1>2, <2>4 DEF NoReset
    <2>6. Balanced(w) <=> Balanced(s)
      BY <1>1, <2>2, <2>3, <2>5 DEF Balanced
    <2>7. \A i \in 1..Len(s) : \A j \in 1..(i - 1) :
            j \in 1..Len(s) /\ \A m \in (j + 1)..(i - 1) : m \in 1..Len(s)
      BY <1>1
    <2>8. LogicFirst(w) <=> LogicFirst(s)
      BY <1>1, <1>2, <2>7 DEF LogicFirst
    <2> QED
      BY <1>1, <1>2, <2>6, <2>8 DEF WellFormed
  <1>6. \A kind : Firsts(w, kind) = Firsts(s, kind)
    <2>1. \A i \in 1..Len(s) : \A j \in 1..(i - 1) : j \in 1..Len(s)
      BY <1>1
    <2> QED
      BY <1>1, <1>2, <2>1 DEF Firsts
  <1> QED
    BY <1>1, <1>3, <1>4, <1>5, <1>6, <1>7 DEF AfterLogic, FirstQuery, SameScopes

\* The first check-sat is behind set-logic, and so is all that follows it.
LEMMA QueryBehind ==
    ASSUME NEW s \in Seq(Command), LogicFirst(s)
    PROVE  LogicBehind(s, FirstQuery(s))
  <1> DEFINE q == FirstQuery(s)
  <1>1. Len(s) \in Nat /\ DOMAIN s = 1..Len(s)
    BY LenProperties
  <1>2. q \in 1..(Len(s) + 1) /\ (q <= Len(s) => s[q].kind = "check-sat")
    BY FirstQueryIs
  <1> HIDE DEF q
  <1>3. ASSUME NEW j \in q..Len(s), s[j].kind = "set-logic"
        PROVE  \E m \in q..(j - 1) : s[m].kind = "reset"
    <2>1. j \in 1..Len(s) /\ q <= Len(s)
      BY <1>1, <1>2
    <2>2. s[q].kind = "check-sat" /\ s[q].kind \notin Early /\ q # j
      BY <1>2, <1>3, <2>1 DEF Early
    <2>3. q \in 1..(j - 1)
      BY <1>1, <1>2, <2>1, <2>2
    <2>4. PICK m \in (q + 1)..(j - 1) : s[m].kind = "reset"
      BY <1>1, <1>3, <2>1, <2>2, <2>3 DEF LogicFirst
    <2>5. m \in q..(j - 1)
      BY <1>2
    <2> QED
      BY <2>4, <2>5
  <1> QED
    BY <1>3 DEF LogicBehind, q

\* What stands before and behind the place of the declarations.
LEMMA FrontOf ==
    ASSUME NEW s \in Seq(Command), Legal(s),
           \A c \in 1..(AfterLogic(s) - 1) : s[c].term = <<>>
    PROVE  /\ AfterLogic(s) \in 1..(Len(s) + 1)
           /\ LogicBehind(s, AfterLogic(s))
           /\ InForce(s, AfterLogic(s)) = {}
           /\ NoReset(s, 1, Len(s)) =>
                /\ \A c \in 1..(AfterLogic(s) - 1) : Introduces(s[c]) = {}
                /\ \A c \in AfterLogic(s)..(Len(s) + 1) : Kept(s, AfterLogic(s), c)
  <1> DEFINE a == AfterLogic(s)
  <1>1. Len(s) \in Nat /\ DOMAIN s = 1..Len(s)
    BY LenProperties
  <1>2. /\ a \in 1..(Len(s) + 1)
        /\ \/ a = 1 /\ \A i \in 1..Len(s) : s[i].kind # "set-logic"
           \/ a - 1 \in 1..Len(s) /\ s[a - 1].kind = "set-logic"
    BY AfterLogicIs
  <1>3. \A i \in 1..Len(s) : \A j \in 1..(i - 1) :
          s[i].kind = "set-logic" /\ s[j].kind \notin Early
          => \E m \in (j + 1)..(i - 1) : s[m].kind = "reset"
    BY <1>1 DEF Legal, LogicFirst
  <1>4. \A c \in 1..(a - 1) : s[c].term = <<>>
    OBVIOUS
  <1> HIDE DEF a
  <1>5. ASSUME NEW j \in a..Len(s), s[j].kind = "set-logic"
        PROVE  \E m \in a..(j - 1) : s[m].kind = "reset"
    <2>1. j \in 1..Len(s) /\ a - 1 \in 1..(j - 1) /\ s[a - 1].kind = "set-logic"
      BY <1>1, <1>2, <1>5
    <2>2. PICK m \in ((a - 1) + 1)..(j - 1) : s[m].kind = "reset"
      BY <1>3, <1>5, <2>1 DEF Early
    <2>3. (a - 1) + 1 = a
      BY <1>2
    <2> QED
      BY <2>2, <2>3
  <1>6. ASSUME NEW c \in 1..(a - 1)
        PROVE  \/ Introduces(s[c]) = {}
               \/ \E m \in (c + 1)..(a - 1) : s[m].kind = "reset"
    <2>1. a - 1 \in 1..Len(s) /\ s[a - 1].kind = "set-logic"
      BY <1>2
    <2>2. Labels(s[c].term) = {}
      BY <1>4, NoLabels
    <2>3. CASE s[c].kind \in Early \cup {"set-logic"}
      BY <2>2, <2>3 DEF Introduces, Early
    <2>4. CASE s[c].kind \notin Early \cup {"set-logic"}
      <3>1. c \in 1..((a - 1) - 1)
        <4>1. c # a - 1
          BY <2>1, <2>4
        <4> QED
          BY <1>2, <4>1
      <3>2. PICK m \in (c + 1)..((a - 1) - 1) : s[m].kind = "reset"
        BY <1>3, <2>1, <2>4, <3>1
      <3>3. m \in (c + 1)..(a - 1)
        BY <1>2
      <3> QED
        BY <3>2, <3>3
    <2> QED
      BY <2>3, <2>4
  <1>7. InForce(s, a) = {}
    <2>1. ASSUME NEW c \in 1..Len(s), Survives(s, c, a) PROVE Introduces(s[c]) = {}
      <3>1. c \in 1..(a - 1)
        BY <1>1, <1>2, <2>1 DEF Survives
      <3>2. \A m \in (c + 1)..(a - 1) : m \in c..(a - 1)
        OBVIOUS
      <3>3. \A m \in (c + 1)..(a - 1) : s[m].kind # "reset"
        BY <2>1, <3>2 DEF Survives, NoReset, Resets
      <3> QED
        BY <1>6, <3>1, <3>3
    <2> QED
      BY <1>1, <2>1 DEF InForce
  <1>8. ASSUME NoReset(s, 1, Len(s)), NEW c \in 1..(a - 1) PROVE Introduces(s[c]) = {}
    <2>1. \A m \in (c + 1)..(a - 1) : m \in 1..Len(s)
      BY <1>1, <1>2
    <2>2. \A m \in (c + 1)..(a - 1) : s[m].kind # "reset"
      BY <1>8, <2>1 DEF NoReset, Resets
    <2> QED
      BY <1>6, <2>2
  <1>9. ASSUME NoReset(s, 1, Len(s)), NEW c \in a..(Len(s) + 1) PROVE Kept(s, a, c)
    <2>1. \A m \in a..(c - 1) : m \in 1..Len(s)
      BY <1>1, <1>2
    <2>2. NoReset(s, a, c - 1)
      BY <1>9, <2>1 DEF NoReset
    <2>3. Depth(s, a - 1) = 0
      <3>1. ASSUME NEW m \in (0 + 1)..(a - 1) PROVE s[m].kind \notin {"push", "pop"}
        <4>1. a - 1 \in 1..Len(s) /\ s[a - 1].kind = "set-logic"
          BY <1>2, <3>1
        <4>2. m = a - 1 \/ m \in 1..((a - 1) - 1)
          BY <1>2
        <4>3. \A l \in (m + 1)..((a - 1) - 1) : l \in 1..Len(s)
          BY <1>1, <1>2
        <4>4. \A l \in (m + 1)..((a - 1) - 1) : s[l].kind # "reset"
          BY <1>9, <4>3 DEF NoReset, Resets
        <4>5. s[m].kind = "set-logic" \/ s[m].kind \in Early
          BY <1>3, <4>1, <4>2, <4>4
        <4> QED
          BY <4>5 DEF Early
      <3>2. a - 1 \in Nat /\ 0 <= a - 1
        BY <1>2
      <3>3. Depth(s, a - 1) = Depth(s, 0)
        BY <3>1, <3>2, DepthFlat
      <3> QED
        BY <3>3, DepthNone
    <2>4. ASSUME NEW m \in a..(c - 1) PROVE Depth(s, m) >= 0
      <3>1. m \in DOMAIN s /\ 0 \in 0..m
        BY <1>1, <1>2
      <3>2. \A l \in (0 + 1)..m : l \in 1..Len(s)
        BY <1>1, <3>1
      <3>3. NoReset(s, 0 + 1, m)
        BY <1>9, <3>2 DEF NoReset
      <3>4. Depth(s, m) >= Depth(s, 0)
        BY <3>1, <3>3 DEF Legal, Balanced
      <3> QED
        BY <3>4, DepthNone
    <2>5. a <= c
      BY <1>2
    <2> QED
      BY <2>2, <2>3, <2>4, <2>5 DEF Kept
  <1> QED
    BY <1>2, <1>5, <1>7, <1>8, <1>9 DEF LogicBehind, a

-----------------------------------------------------------------------------
(* The declarations.                                                       *)

\* SetToSeq lists every name of new_vars once.
LEMMA NewVarsListed ==
    ASSUME TypeOK
    PROVE  /\ Cardinality(newVars) \in Nat
           /\ SetToSeq(newVars) \in [1..Cardinality(newVars) -> newVars]
           /\ \A j, k \in 1..Cardinality(newVars) :
                SetToSeq(newVars)[j] = SetToSeq(newVars)[k] => j = k
           /\ \A x \in newVars : \E k \in 1..Cardinality(newVars) : SetToSeq(newVars)[k] = x
  <1> DEFINE n == Cardinality(newVars)
             s == SetToSeq(newVars)
  <1>1. IsFiniteSet(newVars)
    <2>1. IsFiniteSet(1..counter)
      BY FS_Interval DEF TypeOK
    <2> DEFINE g == [k \in 1..counter |-> GenName(k)]
    <2>2. g \in Surjection(1..counter, GenNames)
      BY DEF GenNames, Surjection
    <2>3. IsFiniteSet(GenNames)
      BY <2>1, <2>2, FS_Surjection
    <2> QED
      BY <2>3, FS_Subset DEF TypeOK
  <1>2. n \in Nat /\ IsFiniteSet(1..n) /\ Cardinality(1..n) = n
    <2>1. n \in Nat
      BY <1>1, FS_CardinalityType
    <2> HIDE DEF n
    <2>2. IsFiniteSet(1..n) /\ Cardinality(1..n) = n - 1 + 1
      BY <2>1, FS_Interval
    <2> QED
      BY <2>1, <2>2
  <1>3. \E f \in [1..n -> newVars] : IsInjective(f)
    <2>1. PICK m \in Nat : ExistsBijection(1..m, newVars)
      BY <1>1, FS_NatBijection
    <2>2. m = n
      BY <2>1, FS_CountingElements
    <2> QED
      BY <2>1, <2>2 DEF ExistsBijection, Bijection, Injection, IsInjective
  <1>4. s \in [1..n -> newVars] /\ IsInjective(s)
    BY <1>3 DEF SetToSeq
  <1> HIDE DEF n, s
  <1>5. s \in Injection(1..n, newVars)
    BY <1>4 DEF Injection, IsInjective
  <1>6. s \in Surjection(1..n, newVars)
    BY <1>1, <1>2, <1>5, FS_Injection DEF n
  <1> QED
    BY <1>2, <1>4, <1>6 DEF n, s, IsInjective, Surjection

\* One declaration for every generated name, and no two for one.
LEMMA DeclItems ==
    ASSUME TypeOK
    PROVE  \E name \in [1..Len(Decls) -> newVars \cup BavNames] :
             /\ \A p \in 1..Len(Decls) : Decls[p] = DeclareConst(name[p])
             /\ \A p, q \in 1..Len(Decls) : name[p] = name[q] => p = q
             /\ \A x \in newVars \cup BavNames : \E p \in 1..Len(Decls) : name[p] = x
  <1> DEFINE n == Cardinality(newVars)
             s == SetToSeq(newVars)
             b == NumBavs
             A == [k \in 1..n |-> DeclareConst(s[k])]
             B == [k \in 1..b |-> DeclareConst(BavName(k))]
             name == [p \in 1..(n + b) |-> IF p <= n THEN s[p] ELSE BavName(p - n)]
  <1>1. /\ n \in Nat /\ s \in [1..n -> newVars]
        /\ \A j, k \in 1..n : s[j] = s[k] => j = k
        /\ \A x \in newVars : \E k \in 1..n : s[k] = x
    BY NewVarsListed
  <1>2. b \in Nat
    BY PartsType
  <1>3. newVars \subseteq {GenName(k) : k \in 1..counter} /\ newVars \subseteq Symbol
    BY NameType DEF TypeOK, GenNames
  <1>4. BavNames = {BavName(k) : k \in 1..b}
    BY DEF BavNames
  <1> HIDE DEF n, s, b
  <1>5. A \in Seq(Command) /\ Len(A) = n /\ B \in Seq(Command) /\ Len(B) = b
    <2>1. \A k \in 1..n : DeclareConst(s[k]) \in Command
      BY <1>1, <1>3, CommandType
    <2>2. \A k \in 1..b : DeclareConst(BavName(k)) \in Command
      BY <1>2, NameType, CommandType
    <2> QED
      BY <1>1, <1>2, <2>1, <2>2
  <1>6. Decls = A \o B
    BY DEF Decls, n, s, b
  <1>7. /\ \A k \in 1..n : A[k] = DeclareConst(s[k])
        /\ \A k \in 1..b : B[k] = DeclareConst(BavName(k))
    OBVIOUS
  <1> HIDE DEF A, B
  <1>8. /\ Len(A \o B) = n + b
        /\ \A k \in 1..n : (A \o B)[k] = A[k]
        /\ \A k \in 1..b : (A \o B)[n + k] = B[k]
    <2>1. A \in Seq(Command) /\ B \in Seq(Command)
      BY <1>5
    <2>2. /\ Len(A \o B) = Len(A) + Len(B)
          /\ \A k \in 1..Len(A) : (A \o B)[k] = A[k]
          /\ \A k \in 1..Len(B) : (A \o B)[Len(A) + k] = B[k]
      BY <2>1, ConcatItems
    <2> QED
      BY <1>5, <2>2
  <1>9. ASSUME NEW p \in 1..(n + b), ~(p <= n)
        PROVE  p - n \in 1..b /\ n + (p - n) = p
    BY <1>1, <1>2, <1>9
  <1>10. ASSUME NEW p \in 1..(n + b)
         PROVE  /\ name[p] \in newVars \cup BavNames
                /\ Decls[p] = DeclareConst(name[p])
    <2>1. CASE p <= n
      <3>1. p \in 1..n
        BY <1>1, <2>1
      <3> QED
        BY <1>1, <1>6, <1>7, <1>8, <2>1, <3>1
    <2>2. CASE ~(p <= n)
      <3>1. p - n \in 1..b /\ n + (p - n) = p
        BY <1>9, <2>2
      <3>2. (A \o B)[p] = B[p - n]
        BY <1>8, <3>1
      <3> QED
        BY <1>4, <1>6, <1>7, <2>2, <3>1, <3>2
    <2> QED
      BY <2>1, <2>2
  <1>11. ASSUME NEW p \in 1..(n + b), NEW q \in 1..(n + b), name[p] = name[q] PROVE p = q
    <2>1. \A j, k : GenName(j) # BavName(k)
      BY DEF GenName, BavName
    <2>2. \A j, k : BavName(j) = BavName(k) => j = k
      BY DEF BavName
    <2>3. CASE p <= n /\ q <= n
      BY <1>1, <1>2, <1>11, <2>3
    <2>4. CASE ~(p <= n) /\ ~(q <= n)
      <3>1. p - n = q - n
        BY <1>11, <2>2, <2>4
      <3> QED
        BY <1>1, <1>2, <3>1
    <2>5. ASSUME NEW j \in 1..n, NEW k PROVE s[j] # BavName(k)
      BY <1>1, <1>3, <2>1
    <2>6. CASE p <= n /\ ~(q <= n)
      <3>1. p \in 1..n
        BY <1>1, <2>6
      <3> QED
        BY <1>11, <2>5, <2>6, <3>1
    <2>7. CASE ~(p <= n) /\ q <= n
      <3>1. q \in 1..n
        BY <1>1, <2>7
      <3> QED
        BY <1>11, <2>5, <2>7, <3>1
    <2> QED
      BY <2>3, <2>4, <2>6, <2>7
  <1>12. ASSUME NEW x \in newVars \cup BavNames
         PROVE  \E p \in 1..(n + b) : name[p] = x
    <2>1. CASE x \in newVars
      <3>1. PICK k \in 1..n : s[k] = x
        BY <1>1, <2>1
      <3>2. k \in 1..(n + b) /\ k <= n
        BY <1>1, <1>2
      <3> QED
        BY <3>1, <3>2
    <2>2. CASE x \in BavNames
      <3>1. PICK k \in 1..b : x = BavName(k)
        BY <1>4, <2>2
      <3>2. n + k \in 1..(n + b) /\ ~(n + k <= n) /\ (n + k) - n = k
        BY <1>1, <1>2
      <3> QED
        BY <3>1, <3>2
    <2> QED
      BY <2>1, <2>2
  <1>13. name \in [1..(n + b) -> newVars \cup BavNames]
    BY <1>10
  <1>14. Len(Decls) = n + b
    BY <1>6, <1>8
  <1> HIDE DEF name
  <1> QED
    BY <1>10, <1>11, <1>12, <1>13, <1>14

\* A declaration speaks of no name but the one it introduces.
LEMMA DeclareNames ==
    ASSUME NEW x
    PROVE  /\ DeclareConst(x).kind = "declare" /\ DeclareConst(x).term = <<>>
           /\ Introduces(DeclareConst(x)) = {x}
           /\ Uses(DeclareConst(x)) = {}
  <1> QED
    BY NoLabels DEF DeclareConst, Cmd, Introduces, Uses

\* In the order in which the insertion loop leaves them.
LEMMA DeclNames ==
    ASSUME TypeOK
    PROVE  LET t == Reverse(Decls)
           IN  /\ t \in Seq(Command) /\ Len(t) = Len(Decls)
               /\ \A p \in 1..Len(t) :
                    t[p].kind = "declare" /\ t[p].term = <<>> /\ Uses(t[p]) = {}
               /\ \A p, q \in 1..Len(t) : Introduces(t[p]) \cap Introduces(t[q]) # {} => p = q
               /\ NamesOf(t) = newVars \cup BavNames
  <1> DEFINE t == Reverse(Decls)
             n == Len(Decls)
  <1>1. PICK name \in [1..n -> newVars \cup BavNames] :
             /\ \A p \in 1..n : Decls[p] = DeclareConst(name[p])
             /\ \A p, q \in 1..n : name[p] = name[q] => p = q
             /\ \A x \in newVars \cup BavNames : \E p \in 1..n : name[p] = x
    BY DeclItems
  <1>2. Decls \in Seq(Command) /\ n \in Nat
    BY DeclsType, LenProperties
  <1>3. /\ t \in Seq(Command) /\ Len(t) = n
        /\ \A k \in 1..n : t[k] = Decls[n + 1 - k] /\ n + 1 - k \in 1..n
    BY <1>2, ReverseItems
  <1> HIDE DEF t, n
  <1>4. ASSUME NEW k \in 1..n
        PROVE  t[k] = DeclareConst(name[n + 1 - k])
    BY <1>1, <1>3
  <1>5. ASSUME NEW k \in 1..n
        PROVE  /\ t[k].kind = "declare" /\ t[k].term = <<>> /\ Uses(t[k]) = {}
               /\ Introduces(t[k]) = {name[n + 1 - k]}
    BY <1>4, DeclareNames
  <1>6. ASSUME NEW p \in 1..n, NEW q \in 1..n, Introduces(t[p]) \cap Introduces(t[q]) # {}
        PROVE  p = q
    <2>1. name[n + 1 - p] = name[n + 1 - q]
      BY <1>5, <1>6
    <2>2. n + 1 - p = n + 1 - q
      BY <1>1, <1>3, <2>1
    <2> QED
      BY <1>2, <2>2
  <1>7. ASSUME NEW x \in NamesOf(t) PROVE x \in newVars \cup BavNames
    <2>1. PICK p \in 1..n : x \in Introduces(t[p])
      BY <1>3 DEF NamesOf
    <2> QED
      BY <1>1, <1>3, <1>5, <2>1
  <1>8. ASSUME NEW x \in newVars \cup BavNames PROVE x \in NamesOf(t)
    <2>1. PICK p \in 1..n : name[p] = x
      BY <1>1
    <2>2. n + 1 - p \in 1..n /\ n + 1 - (n + 1 - p) = p
      BY <1>2
    <2>3. x \in Introduces(t[n + 1 - p])
      BY <1>5, <2>1, <2>2
    <2> QED
      BY <1>3, <2>2, <2>3 DEF NamesOf
  <1> QED
    BY <1>3, <1>5, <1>6, <1>7, <1>8 DEF t, n

-----------------------------------------------------------------------------
(* What the parser makes of an ordinary sample.                            *)

\* Only the terms' nodes differ.
LEMMA ParsedShape ==
    ASSUME TypeOK, NEW w, Parsed(w)
    PROVE  /\ SameShape(w, source)
           /\ \A c \in 1..Len(source) : /\ source[c].term \in Seq(Node)
                                        /\ w[c].term \in Seq(Node)
                                        /\ Len(w[c].term) = Len(source[c].term)
  <1>1. /\ source \in Seq(Command) /\ w \in Seq(Command) /\ DOMAIN w = DOMAIN source
        /\ \A c \in DOMAIN source :
             /\ DOMAIN w[c].term = DOMAIN source[c].term
             /\ w[c] = [source[c] EXCEPT !.term = w[c].term]
    BY SourceType DEF Parsed
  <1>2. Len(w) = Len(source) /\ DOMAIN source = 1..Len(source)
    <2>1. /\ DOMAIN w = 1..Len(w) /\ DOMAIN source = 1..Len(source)
          /\ Len(w) \in Nat /\ Len(source) \in Nat
      BY <1>1, LenProperties
    <2>2. 1..Len(w) = 1..Len(source)
      BY <1>1, <2>1
    <2> QED
      BY <2>1, <2>2, SameInterval
  <1>3. ASSUME NEW c \in 1..Len(source)
        PROVE  /\ w[c].kind = source[c].kind /\ w[c].sym = source[c].sym
               /\ w[c].params = source[c].params
               /\ source[c].term \in Seq(Node) /\ w[c].term \in Seq(Node)
               /\ Len(w[c].term) = Len(source[c].term)
    <2>1. source[c] \in Command /\ w[c] \in Command
      BY <1>1, <1>2, ElementOfSeq
    <2>2. source[c].term \in Seq(Node) /\ w[c].term \in Seq(Node)
      BY <2>1 DEF Command
    <2>3. Len(w[c].term) = Len(source[c].term)
      <3>1. /\ DOMAIN w[c].term = 1..Len(w[c].term) /\ Len(w[c].term) \in Nat
            /\ DOMAIN source[c].term = 1..Len(source[c].term)
            /\ Len(source[c].term) \in Nat
        BY <2>2, LenProperties
      <3>2. 1..Len(w[c].term) = 1..Len(source[c].term)
        BY <1>1, <1>2, <3>1
      <3> QED
        BY <3>1, <3>2, SameInterval
    <2>4. w[c] = [source[c] EXCEPT !.term = w[c].term]
      BY <1>1, <1>2
    <2>5. \A x : LET y == [source[c] EXCEPT !.term = x]
                 IN  /\ y.kind = source[c].kind /\ y.sym = source[c].sym
                     /\ y.params = source[c].params
      BY <2>1 DEF Command
    <2> QED
      BY <2>2, <2>3, <2>4, <2>5
  <1>4. ASSUME NEW c \in 1..Len(source)
        PROVE  w[c].term = <<>> <=> source[c].term = <<>>
    <2>1. \A t \in Seq(Node) : t = <<>> <=> Len(t) = 0
      BY EmptySeq
    <2> QED
      BY <1>3, <2>1
  <1>5. ASSUME NEW c \in 1..Len(source)
        PROVE  /\ Labels(w[c].term) = Labels(source[c].term)
               /\ NamedOnce(w[c].term) <=> NamedOnce(source[c].term)
    <2> DEFINE t == source[c].term
               u == w[c].term
    <2>1. ASSUME NEW n \in 1..Len(t)
          PROVE  IF t[n].kind \in Constants THEN \E g : u[n] = Leaf(g) ELSE u[n] = t[n]
      <3>1. <<c, n>> \in Nodes(source)
        <4>1. c \in DOMAIN source /\ n \in DOMAIN t
          BY <1>2, <1>3, LenProperties
        <4> QED
          BY <4>1, NodesElim
      <3>2. /\ NodeAt(source, <<c, n>>) = t[n] /\ NodeAt(w, <<c, n>>) = u[n]
            /\ IsConstant(source, <<c, n>>) <=> t[n].kind \in Constants
        BY DEF NodeAt, IsConstant
      <3>3. IF IsConstant(source, <<c, n>>)
            THEN \E k \in 1..counter : NodeAt(w, <<c, n>>) = Leaf(GenName(k))
            ELSE NodeAt(w, <<c, n>>) = NodeAt(source, <<c, n>>)
        BY <3>1 DEF Parsed
      <3> QED
        BY <3>2, <3>3
    <2>2. t \in Seq(Node) /\ u \in Seq(Node) /\ Len(u) = Len(t)
      BY <1>3
    <2> HIDE DEF t, u
    <2>3. Labels(u) = Labels(t) /\ (NamedOnce(u) <=> NamedOnce(t))
      BY <2>1, <2>2, LabelsRenamed
    <2> QED
      BY <2>3 DEF t, u
  <1> QED
    BY <1>1, <1>2, <1>3, <1>4, <1>5 DEF SameShape

\* The names that are made up are no words of the language.
LEMMA GeneratedApart == (GenNames \cup BavNames) \cap Builtin = {}
  BY DEF GenNames, BavNames, GenName, BavName, Builtin, Op, OpNames

\* The constants of every term are renamed, to names no binder captures: an
\* integer to one that is declared, any other to one that is not.
LEMMA ParsedTerms ==
    ASSUME TypeOK, Ordinary, NEW w, Parsed(w), NEW c \in 1..Len(source)
    PROVE  /\ Renamed(source[c].term, w[c].term, GenNames)
           /\ NewNames(source[c].term, w[c].term) \subseteq GenNames
           /\ \A n \in 1..Len(source[c].term) :
                /\ source[c].term[n].kind = "numeral" => w[c].term[n].sym \in newVars
                /\ source[c].term[n].kind = "constant" =>
                     w[c].term[n].sym \in GenNames \ newVars
  <1> DEFINE t == source[c].term
             u == w[c].term
  <1>1. t \in Seq(Node) /\ u \in Seq(Node) /\ Len(u) = Len(t)
    BY ParsedShape
  <1>2. c \in DOMAIN source /\ DOMAIN t = 1..Len(t)
    <2>1. source \in Seq(Command)
      BY SourceType
    <2> QED
      BY <1>1, <2>1, LenProperties
  <1>3. ASSUME NEW n \in 1..Len(t)
        PROVE  /\ <<c, n>> \in Nodes(source)
               /\ NodeAt(source, <<c, n>>) = t[n] /\ NodeAt(w, <<c, n>>) = u[n]
               /\ IsConstant(source, <<c, n>>) <=> t[n].kind \in Constants
    <2>1. <<c, n>> \in Nodes(source)
      BY <1>2, NodesElim
    <2> QED
      BY <2>1 DEF NodeAt, IsConstant
  <1>4. ASSUME NEW n \in 1..Len(t)
        PROVE  /\ t[n].bound \cap GenNames = {}
               /\ t[n].kind \in Constants => t[n].size = 1
    <2>1. t[n] \in ToSet(t)
      BY <1>2 DEF ToSet
    <2>2. t[n].bound \subseteq BoundNames(c)
      BY <2>1 DEF BoundNames
    <2>3. BoundNames(c) \cap (GenNames \cup BavNames) = {}
      BY <1>2 DEF Ordinary
    <2>4. t[n].kind \in Constants => t[n].size = 1
      BY <1>2, <1>3, SourceType
    <2> QED
      BY <2>2, <2>3, <2>4
  <1>5. ASSUME NEW n \in 1..Len(t)
        PROVE  IF t[n].kind \in Constants THEN \E g \in GenNames : u[n] = Leaf(g)
                                          ELSE u[n] = t[n]
    <2>1. IF IsConstant(source, <<c, n>>)
          THEN \E k \in 1..counter : NodeAt(w, <<c, n>>) = Leaf(GenName(k))
          ELSE NodeAt(w, <<c, n>>) = NodeAt(source, <<c, n>>)
      BY <1>3 DEF Parsed
    <2> QED
      BY <1>3, <2>1 DEF GenNames
  <1>6. \A g : Leaf(g).sym = g
    BY DEF Leaf
  <1>7. ASSUME NEW n \in 1..Len(t), t[n].kind = "numeral" PROVE u[n].sym \in newVars
    <2>1. newVars = {NodeAt(w, p).sym :
                       p \in {p \in Nodes(source) : NodeAt(source, p).kind = "numeral"}}
      BY DEF Parsed
    <2>2. /\ <<c, n>> \in {p \in Nodes(source) : NodeAt(source, p).kind = "numeral"}
          /\ NodeAt(w, <<c, n>>).sym = u[n].sym
      BY <1>3, <1>7
    <2> QED
      BY <2>1, <2>2
  <1>8. ASSUME NEW n \in 1..Len(t), t[n].kind = "constant", u[n].sym \in newVars
        PROVE  FALSE
    <2>1. newVars = {NodeAt(w, p).sym :
                       p \in {p \in Nodes(source) : NodeAt(source, p).kind = "numeral"}}
      BY DEF Parsed
    <2>2. PICK p \in Nodes(source) : /\ NodeAt(source, p).kind = "numeral"
                                     /\ NodeAt(w, p).sym = u[n].sym
      BY <1>8, <2>1
    <2>3. IsConstant(source, p) /\ IsConstant(source, <<c, n>>)
      BY <1>3, <1>8, <2>2 DEF IsConstant, Constants
    <2>4. PICK k \in 1..counter : NodeAt(w, p) = Leaf(GenName(k))
      BY <2>3 DEF Parsed
    <2>5. PICK g \in GenNames : u[n] = Leaf(g)
      BY <1>5, <1>8 DEF Constants
    <2>6. NodeAt(w, p) = NodeAt(w, <<c, n>>)
      BY <1>3, <1>6, <2>2, <2>4, <2>5
    <2>7. p = <<c, n>>
      BY <1>3, <2>3, <2>6 DEF Parsed
    <2> QED
      BY <1>3, <1>8, <2>2, <2>7
  <1>9. Renamed(t, u, GenNames)
    <2>1. GenNames \cap Builtin = {}
      BY GeneratedApart
    <2> QED
      BY <1>1, <1>4, <1>5, <2>1 DEF Renamed
  <1>10. NewNames(t, u) \subseteq GenNames
    BY <1>5, <1>6 DEF NewNames
  <1>11. ASSUME NEW n \in 1..Len(t), t[n].kind = "constant"
         PROVE  u[n].sym \in GenNames \ newVars
    <2>1. u[n].sym \in NewNames(t, u)
      BY <1>11 DEF NewNames, Constants
    <2> QED
      BY <1>8, <1>10, <1>11, <2>1
  <1> QED
    BY <1>7, <1>9, <1>10, <1>11

\* A command uses its own names and those of its constants.
LEMMA ParsedUses ==
    ASSUME TypeOK, Ordinary, NEW w, Parsed(w), NEW c \in 1..Len(source)
    PROVE  /\ Uses(w[c]) = Uses(source[c]) \cup NewNames(source[c].term, w[c].term)
           /\ Introduces(w[c]) = Introduces(source[c])
  <1> DEFINE t == source[c].term
             u == w[c].term
  <1>1. Free(u) = Free(t) \cup NewNames(t, u)
    <2>1. Renamed(t, u, GenNames)
      BY ParsedTerms
    <2> HIDE DEF t, u
    <2> QED
      BY <2>1, FreeRenamed
  <1>2. NewNames(t, u) \subseteq GenNames
    BY ParsedTerms
  <1>3. source[c].params \cap GenNames = {}
    <2>1. source \in Seq(Command)
      BY SourceType
    <2>2. c \in DOMAIN source
      BY <2>1, LenProperties
    <2> QED
      BY <2>2 DEF Ordinary, BoundNames
  <1>4. /\ w[c].params = source[c].params /\ w[c].kind = source[c].kind
        /\ w[c].sym = source[c].sym /\ Labels(w[c].term) = Labels(source[c].term)
    BY ParsedShape DEF SameShape
  <1> QED
    BY <1>1, <1>2, <1>3, <1>4 DEF Uses, Introduces

\* If there are only integers, every name that was made up is declared.
LEMMA NumeralsOnly ==
    ASSUME TypeOK, Ordinary, NEW w, Parsed(w), NEW c \in 1..Len(source), ~Unsupported
    PROVE  NewNames(source[c].term, w[c].term) \subseteq newVars
  <1> DEFINE t == source[c].term
             u == w[c].term
  <1>1. t \in Seq(Node) /\ source \in Seq(Command)
    BY ParsedShape, SourceType
  <1>2. ASSUME NEW n \in 1..Len(t), t[n].kind \in Constants PROVE u[n].sym \in newVars
    <2>1. c \in DOMAIN source /\ n \in DOMAIN t
      BY <1>1, LenProperties
    <2>2. <<c, n>> \in Nodes(source) /\ NodeAt(source, <<c, n>>) = t[n]
      BY <2>1, NodesElim DEF NodeAt
    <2>3. t[n].kind = "numeral"
      BY <1>2, <2>2 DEF Unsupported, Constants
    <2> QED
      BY <2>3, ParsedTerms
  <1> QED
    BY <1>2 DEF NewNames

-----------------------------------------------------------------------------
(* What the copied terms are.                                              *)

\* The nodes of a subtree are nodes of the term.
LEMMA SubtreeNodes ==
    ASSUME NEW t \in Seq(Node), NEW i \in 1..Len(t), t[i].size \in 1..i
    PROVE  \A k \in DOMAIN Subtree(t, i) : \E n \in 1..Len(t) : Subtree(t, i)[k] = t[n]
  <1>1. Len(t) \in Nat
    BY LenProperties
  <1>2. \A k \in 1..t[i].size : i - t[i].size + k \in 1..Len(t)
    BY <1>1
  <1> QED
    BY <1>2 DEF Subtree

\* A copied term speaks of what its original speaks of and of names that were
\* made up, and binds no name of a copied term.
LEMMA CopiedTerm ==
    ASSUME TypeOK, Ordinary, NEW w, Parsed(w), NEW p \in Nodes(source)
    PROVE  /\ SubtreeAt(w, p) \in Seq(Node)
           /\ \E G \in SUBSET NewNames(source[p[1]].term, w[p[1]].term) :
                Free(SubtreeAt(w, p)) = Free(SubtreeAt(source, p)) \cup G
           /\ \A b \in 1..Len(SubtreeAt(w, p)) :
                SubtreeAt(w, p)[b].bound \cap BavNames = {}
  <1> DEFINE c == p[1]
             i == p[2]
             t == source[c].term
             u == w[c].term
             a == Subtree(t, i)
             b == Subtree(u, i)
  <1>1. c \in DOMAIN source /\ i \in DOMAIN t
    BY NodesElim
  <1>2. c \in 1..Len(source) /\ i \in 1..Len(t) /\ t \in Seq(Node) /\ t[i].size \in 1..i
    <2>1. source \in Seq(Command) /\ t \in Seq(Node) /\ t[i].size \in 1..i
      BY <1>1, SourceType
    <2> QED
      BY <1>1, <2>1, LenProperties
  <1>3. Renamed(t, u, GenNames)
    BY <1>2, ParsedTerms
  <1>4. \A n \in 1..Len(t) : t[n].bound \cap BavNames = {}
    <2>1. ASSUME NEW n \in 1..Len(t) PROVE t[n].bound \subseteq BoundNames(c)
      <3>1. t[n] \in ToSet(t)
        BY <1>2, LenProperties DEF ToSet
      <3> QED
        BY <3>1 DEF BoundNames
    <2>2. BoundNames(c) \cap (GenNames \cup BavNames) = {}
      BY <1>1 DEF Ordinary
    <2> QED
      BY <2>1, <2>2
  <1>5. SubtreeAt(w, p) = b /\ SubtreeAt(source, p) = a
    BY DEF SubtreeAt
  <1> HIDE DEF t, u, c, i
  <1>6. Renamed(a, b, GenNames) /\ NewNames(a, b) \subseteq NewNames(t, u)
    <2>1. t[i].size <= i
      BY <1>2
    <2> QED
      BY <1>2, <1>3, <2>1, RenamedSubtree
  <1>7. Free(b) = Free(a) \cup NewNames(a, b)
    <2> HIDE DEF a, b
    <2> QED
      BY <1>6, FreeRenamed
  <1>8. ASSUME NEW k \in 1..Len(b) PROVE b[k].bound \cap BavNames = {}
    <2>1. a \in Seq(Node) /\ Len(b) = Len(a)
      BY <1>6 DEF Renamed
    <2>2. PICK n \in 1..Len(t) : a[k] = t[n]
      <3>1. k \in DOMAIN a
        BY <1>8, <2>1, LenProperties
      <3> QED
        BY <1>2, <3>1, SubtreeNodes
    <2>3. a[k].bound \cap BavNames = {}
      BY <1>4, <2>2
    <2>4. CASE a[k].kind \in Constants
      <3>1. PICK g \in GenNames : b[k] = Leaf(g)
        BY <1>6, <1>8, <2>1, <2>4 DEF Renamed
      <3> QED
        BY <3>1 DEF Leaf
    <2>5. CASE a[k].kind \notin Constants
      <3>1. b[k] = a[k]
        BY <1>6, <1>8, <2>1, <2>5 DEF Renamed
      <3> QED
        BY <2>3, <3>1
    <2> QED
      BY <2>4, <2>5
  <1>9. b \in Seq(Node)
    BY <1>6 DEF Renamed
  <1> QED
    BY <1>5, <1>6, <1>7, <1>8, <1>9 DEF t, u, c

\* Unless the sample declares a name that was made up for it, none of its
\* terms speaks of one.
LEMMA OwnNames ==
    ASSUME TypeOK, Ordinary, SourceNames \cap (newVars \cup BavNames) = {},
           NEW p \in Nodes(source)
    PROVE  Free(SubtreeAt(source, p)) \cap (newVars \cup BavNames) = {}
  <1> DEFINE c == p[1]
             i == p[2]
             t == source[c].term
  <1>1. c \in DOMAIN source /\ i \in DOMAIN t
    BY NodesElim
  <1>2. /\ source \in Seq(Command) /\ DOMAIN source = 1..Len(source)
        /\ i \in 1..Len(t) /\ t \in Seq(Node) /\ t[i].size <= i
    <2>1. source \in Seq(Command) /\ t \in Seq(Node) /\ t[i].size \in 1..i
      BY <1>1, SourceType
    <2>2. i \in 1..Len(t)
      BY <1>1, <2>1, LenProperties
    <2> QED
      BY <2>1, <2>2, LenProperties
  <1>3. newVars \subseteq GenNames
    BY DEF TypeOK
  <1>4. BoundNames(c) \cap (GenNames \cup BavNames) = {}
    BY <1>1 DEF Ordinary
  <1>5. \A n \in 1..Len(t) : t[n].bound \subseteq BoundNames(c)
    BY <1>2, LenProperties DEF BoundNames, ToSet
  <1>6. Free(t) \subseteq SourceNames \cup BoundNames(c)
    <2>1. Uses(source[c]) \subseteq InForce(source, c)
      BY <1>1, <1>2, LegalParts DEF Ordinary, NamesFit, Fits
    <2>2. InForce(source, c) \subseteq SourceNames
      BY DEF InForce, SourceNames
    <2> QED
      BY <2>1, <2>2 DEF Uses, BoundNames
  <1>7. SubtreeAt(source, p) = Subtree(t, i)
    BY DEF SubtreeAt
  <1> HIDE DEF t, c, i
  <1>8. \A x \in Free(Subtree(t, i)) :
           x \in Free(t) \/ \E n \in 1..Len(t) : x \in t[n].bound
    BY <1>2, FreeSubtree
  <1>9. Free(Subtree(t, i)) \subseteq SourceNames \cup BoundNames(c)
    BY <1>5, <1>6, <1>8
  <1> QED
    BY <1>3, <1>4, <1>7, <1>9

\* What is inserted before the first check-sat: the truth assertion and the
\* equations, in the opposite order.
LEMMA QueryItems ==
    ASSUME TypeOK, NEW x \in Command
    PROVE  LET t == Reverse(Append(Inits, x))
           IN  /\ t \in Seq(Command)
               /\ \A p \in 1..Len(t) : t[p] = x \/ \E k \in 1..NumBavs : t[p] = BavInit(k)
               /\ \E p \in 1..Len(t) : t[p] = x
               /\ \A k \in 1..NumBavs : \E p \in 1..Len(t) : t[p] = BavInit(k)
  <1> DEFINE a == Append(Inits, x)
             t == Reverse(a)
             n == NumBavs
  <1>1. /\ n \in Nat /\ Inits \in Seq(Command) /\ Len(Inits) = n
        /\ \A k \in 1..n : Inits[k] = BavInit(k)
    BY PartsType
  <1>2. /\ a \in Seq(Command) /\ Len(a) = n + 1 /\ a[n + 1] = x
        /\ \A k \in 1..n : a[k] = Inits[k]
    BY <1>1, AppendProperties
  <1> HIDE DEF a, n
  <1>3. /\ t \in Seq(Command) /\ Len(t) = n + 1
        /\ \A p \in 1..(n + 1) : t[p] = a[(n + 1) + 1 - p]
    BY <1>2, ReverseItems
  <1> HIDE DEF t
  <1>4. ASSUME NEW p \in 1..(n + 1) PROVE t[p] = x \/ \E k \in 1..n : t[p] = BavInit(k)
    <2>1. (n + 1) + 1 - p = n + 1 \/ (n + 1) + 1 - p \in 1..n
      BY <1>1
    <2> QED
      BY <1>1, <1>2, <1>3, <2>1
  <1>5. ASSUME NEW k \in 1..(n + 1) PROVE \E p \in 1..(n + 1) : t[p] = a[k]
    <2>1. (n + 1) + 1 - k \in 1..(n + 1) /\ (n + 1) + 1 - ((n + 1) + 1 - k) = k
      BY <1>1
    <2> QED
      BY <1>3, <2>1
  <1>6. n + 1 \in 1..(n + 1) /\ \A k \in 1..n : k \in 1..(n + 1)
    BY <1>1
  <1>7. \E p \in 1..(n + 1) : t[p] = x
    BY <1>2, <1>5, <1>6
  <1>8. \A k \in 1..n : \E p \in 1..(n + 1) : t[p] = BavInit(k)
    <2>1. \A k \in 1..n : a[k] = BavInit(k)
      BY <1>1, <1>2
    <2> QED
      BY <1>5, <1>6, <2>1
  <1> QED
    BY <1>3, <1>4, <1>7, <1>8 DEF t, a, n

-----------------------------------------------------------------------------
(* What terms mean.                                                        *)

\* The subtrees of a term fit in it.
WellSized(t) == \A i \in 1..Len(t) : t[i].size \in 1..i

LEMMA PlacesBehind ==
    ASSUME NEW t \in Seq(Node), WellSized(t), NEW i \in 1..Len(t),
           NEW r \in Places(t, i)
    PROVE  r \in Nat /\ i - r \in 1..(i - 1)
  <1>1. t[i].size \in 1..i /\ r \in 1..(t[i].size - 1) /\ Len(t) \in Nat
    BY LenProperties DEF WellSized, Places
  <1> QED
    BY <1>1

\* A node's value depends on those of earlier nodes only.
LEMMA NodeLocal ==
    ASSUME NEW t \in Seq(Node), WellSized(t), NEW i \in 1..Len(t),
           NEW f, NEW g, \A j \in 1..(i - 1) : f[j] = g[j], NEW e
    PROVE  NodeValue(t, i, f, e) = NodeValue(t, i, g, e)
  <1>1. \A r \in Places(t, i) : f[i - r] = g[i - r]
    BY PlacesBehind
  <1>2. [r \in Places(t, i) |-> f[i - r][e]] = [r \in Places(t, i) |-> g[i - r][e]]
    BY <1>1
  <1>3. (\A h \in [t[i].bound -> Domain], r \in Places(t, i) :
             f[i - r][Rebound(e, h)] = 1)
        <=> (\A h \in [t[i].bound -> Domain], r \in Places(t, i) :
             g[i - r][Rebound(e, h)] = 1)
    BY <1>1
  <1> QED
    BY <1>2, <1>3 DEF NodeValue, Bit

\* f gives the first m nodes of t their values.
Values(t, V, m, f) ==
    f = [i \in 1..m |-> [e \in [V -> Domain] |-> NodeValue(t, i, f, e)]]

LEMMA ValuesNext ==
    ASSUME NEW t \in Seq(Node), WellSized(t), NEW V, NEW m \in Nat, m < Len(t),
           NEW f, Values(t, V, m, f)
    PROVE  \E g : Values(t, V, m + 1, g)
  <1> DEFINE g == [i \in 1..(m + 1) |->
                      [e \in [V -> Domain] |-> NodeValue(t, i, f, e)]]
  <1>1. \A j \in 1..m : g[j] = f[j]
    <2> DEFINE Item(i) == [e \in [V -> Domain] |-> NodeValue(t, i, f, e)]
               h == [i \in 1..m |-> Item(i)]
    <2>1. f = h /\ g = [i \in 1..(m + 1) |-> Item(i)]
      BY DEF Values
    <2> HIDE DEF g, Item
    <2>2. \A j \in 1..m : h[j] = Item(j) /\ g[j] = Item(j)
      BY <2>1
    <2> HIDE DEF h
    <2> QED
      BY <2>1, <2>2
  <1>2. ASSUME NEW i \in 1..(m + 1), NEW e
        PROVE  NodeValue(t, i, g, e) = NodeValue(t, i, f, e)
    <2>1. i \in 1..Len(t) /\ \A j \in 1..(i - 1) : j \in 1..m
      BY LenProperties
    <2> HIDE DEF g
    <2> QED
      BY <1>1, <2>1, NodeLocal
  <1>3. g = [i \in 1..(m + 1) |-> [e \in [V -> Domain] |-> NodeValue(t, i, g, e)]]
    <2> DEFINE h == [i \in 1..(m + 1) |-> [e \in [V -> Domain] |-> NodeValue(t, i, g, e)]]
    <2>1. \A i \in 1..(m + 1) : g[i] = h[i]
      BY <1>2
    <2> QED
      BY <2>1, Zenon
  <1> QED
    BY <1>3 DEF Values

LEMMA ValuesExist ==
    ASSUME NEW t \in Seq(Node), WellSized(t), NEW V
    PROVE  \E f : Values(t, V, Len(t), f)
  <1> DEFINE T == {m \in 0..Len(t) : ~\E f : Values(t, V, m, f)}
  <1>1. Len(t) \in Nat
    BY LenProperties
  <1>2. SUFFICES ASSUME T # {} PROVE FALSE
    BY <1>1
  <1>3. PICK k \in T : \A j \in T : k <= j
    <2>1. T \subseteq Nat
      BY <1>1
    <2> HIDE DEF T
    <2> QED
      BY <1>2, <2>1, Least
  <1>4. k # 0
    <2>1. Values(t, V, 0, [i \in 1..0 |-> i])
      <3>1. \A f : [i \in 1..0 |-> [e \in [V -> Domain] |-> NodeValue(t, i, f, e)]]
                   = [i \in 1..0 |-> i]
        OBVIOUS
      <3> QED
        BY <3>1 DEF Values
    <2> QED
      BY <1>3, <2>1
  <1>5. k - 1 \in Nat /\ k - 1 < Len(t) /\ (k - 1) + 1 = k /\ k - 1 \notin T
    BY <1>1, <1>3, <1>4
  <1>6. PICK f : Values(t, V, k - 1, f)
    BY <1>1, <1>5
  <1>7. \E g : Values(t, V, (k - 1) + 1, g)
    <2> HIDE DEF T
    <2> QED
      BY <1>5, <1>6, ValuesNext
  <1> QED
    BY <1>3, <1>5, <1>7

LEMMA ValuationDef ==
    ASSUME NEW t \in Seq(Node), WellSized(t), NEW V,
           NEW i \in 1..Len(t), NEW e \in [V -> Domain]
    PROVE  Valuation(t, V)[i][e] = NodeValue(t, i, Valuation(t, V), e)
  <1> DEFINE v == Valuation(t, V)
  <1>1. DOMAIN t = 1..Len(t)
    BY LenProperties
  <1>2. v = CHOOSE f : Values(t, V, Len(t), f)
    BY <1>1 DEF Valuation, Values
  <1>3. Values(t, V, Len(t), v)
    BY <1>2, ValuesExist
  <1> HIDE DEF v
  <1>4. v = [j \in 1..Len(t) |-> [d \in [V -> Domain] |-> NodeValue(t, j, v, d)]]
    BY <1>3 DEF Values
  <1>5. v[i] = [d \in [V -> Domain] |-> NodeValue(t, i, v, d)]
    BY <1>4
  <1>6. v[i][e] = NodeValue(t, i, v, e)
    BY <1>5
  <1> QED
    BY <1>6 DEF v

\* From place d on, s has the nodes of t, with names for some constants that
\* no binder of t binds.
Follows(t, s, d, V, W) ==
    \A i \in 1..Len(t) :
        \/ /\ s[d + i] = t[i]
           /\ t[i].kind = "symbol" => t[i].sym \in Builtin \cup V
        \/ /\ t[i].kind \in Constants /\ t[i].size = 1
           /\ \E g \in W \ Builtin : /\ s[d + i] = Leaf(g)
                                     /\ \A k \in 1..Len(t) : g \notin t[k].bound

\* The environment f gives those names the constants' values, and others the
\* same values as e.
Agree(t, s, d, e, f) ==
    /\ \A x \in DOMAIN e : f[x] = e[x]
    /\ \A i \in 1..Len(t) :
         t[i].kind \in Constants /\ s[d + i].kind = "symbol" =>
            f[s[d + i].sym] = t[i].sym[2]

LEMMA PlacesFollow ==
    ASSUME NEW t \in Seq(Node), NEW s \in Seq(Node), WellSized(t), NEW d \in Nat,
           \A i \in 1..Len(t) : s[d + i].size = t[i].size,
           NEW i \in 1..Len(t)
    PROVE  Places(s, d + i) = Places(t, i)
  <1>1. t[i].size \in 1..i /\ i \in Nat /\ Len(t) \in Nat
    BY LenProperties DEF WellSized
  <1>2. \A r \in 1..(t[i].size - 1), q \in 1..(t[i].size - 1) :
          (d + i) - r \in SpanOf(s, (d + i) - q) <=> i - r \in SpanOf(t, i - q)
    <2> SUFFICES ASSUME NEW r \in 1..(t[i].size - 1), NEW q \in 1..(t[i].size - 1)
                 PROVE  (d + i) - r \in SpanOf(s, (d + i) - q) <=> i - r \in SpanOf(t, i - q)
      OBVIOUS
    <2>1. /\ i - q \in 1..Len(t) /\ (d + i) - q = d + (i - q)
          /\ r \in Nat /\ q \in Nat
      BY <1>1
    <2>2. s[(d + i) - q].size = t[i - q].size /\ t[i - q].size \in 1..(i - q)
      BY <2>1 DEF WellSized
    <2>3. t[i - q].size \in Nat
      BY <1>1, <2>1, <2>2
    <2>4. /\ SpanOf(t, i - q) = (i - q - t[i - q].size + 1)..(i - q)
          /\ SpanOf(s, (d + i) - q) = ((d + i) - q - t[i - q].size + 1)..((d + i) - q)
      BY <2>2 DEF SpanOf
    <2>5. \A z \in Nat : (d + i) - r \in ((d + i) - q - z + 1)..((d + i) - q)
                          <=> i - r \in (i - q - z + 1)..(i - q)
      BY <1>1, <2>1
    <2> QED
      BY <2>3, <2>4, <2>5
  <1>3. \A r \in 1..(t[i].size - 1) : \A q \in 1..(r - 1) : q \in 1..(t[i].size - 1)
    BY <1>1
  <1> QED
    BY <1>2, <1>3 DEF Places

\* Where the environments agree, the nodes of t and s have the same values.
Simulated(t, s, d, V, W) ==
    \A i \in 1..Len(t) : \A e \in [V -> Domain], f \in [W -> Domain] :
        Agree(t, s, d, e, f) => Valuation(t, V)[i][e] = Valuation(s, W)[d + i][f]

\* A term that follows another has its value.
LEMMA Simulation ==
    ASSUME NEW t \in Seq(Node), NEW s \in Seq(Node), WellSized(t), WellSized(s),
           NEW d \in Nat, d + Len(t) <= Len(s),
           NEW V, NEW W, V \subseteq W, Follows(t, s, d, V, W)
    PROVE  Simulated(t, s, d, V, W)
  <1> DEFINE v == Valuation(t, V)
             w == Valuation(s, W)
             Same(i) == \A e \in [V -> Domain], f \in [W -> Domain] :
                            Agree(t, s, d, e, f) => v[i][e] = w[d + i][f]
             T == {i \in 1..Len(t) : ~Same(i)}
  <1>1. Len(t) \in Nat /\ Len(s) \in Nat
    BY LenProperties
  <1>2. \A i \in 1..Len(t) : s[d + i].size = t[i].size
    <2>1. ASSUME NEW g PROVE Leaf(g).size = 1
      BY DEF Leaf
    <2> QED
      BY <2>1 DEF Follows
  <1>3. \A i \in 1..Len(t) : Places(s, d + i) = Places(t, i)
    BY <1>2, PlacesFollow
  <1>4. ASSUME NEW i \in 1..Len(t), \A j \in 1..(i - 1) : Same(j) PROVE Same(i)
    <2> SUFFICES ASSUME NEW e \in [V -> Domain], NEW f \in [W -> Domain],
                        Agree(t, s, d, e, f)
                 PROVE  v[i][e] = w[d + i][f]
      OBVIOUS
    <2>1. d + i \in 1..Len(s)
      BY <1>1
    <2>2. v[i][e] = NodeValue(t, i, v, e) /\ w[d + i][f] = NodeValue(s, d + i, w, f)
      BY <2>1, ValuationDef
    <2>3. \A r \in Places(t, i) : i - r \in 1..(i - 1) /\ (d + i) - r = d + (i - r)
      <3>1. \A r \in Places(t, i) : r \in Nat /\ i - r \in 1..(i - 1)
        BY PlacesBehind
      <3> QED
        BY <1>1, <3>1
    <2> HIDE DEF v, w
    <2>4. ASSUME NEW r \in Places(t, i), NEW x \in [V -> Domain],
                 NEW y \in [W -> Domain], Agree(t, s, d, x, y)
          PROVE  v[i - r][x] = w[(d + i) - r][y]
      <3> DEFINE j == i - r
      <3>1. j \in 1..(i - 1) /\ (d + i) - r = d + j
        BY <2>3, <2>4
      <3>2. Same(j)
        BY <1>4, <3>1
      <3> HIDE DEF j
      <3>3. v[j][x] = w[d + j][y]
        BY <2>4, <3>2
      <3> QED
        BY <3>1, <3>3 DEF j
    <2>5. CASE s[d + i] = t[i] /\ (t[i].kind = "symbol" => t[i].sym \in Builtin \cup V)
      <3>1. CASE t[i].kind \in Constants
        <4>1. NodeValue(t, i, v, e) = t[i].sym[2]
          BY <3>1 DEF NodeValue, Constants
        <4>2. NodeValue(s, d + i, w, f) = t[i].sym[2]
          BY <2>5, <3>1 DEF NodeValue, Constants
        <4> QED
          BY <2>2, <4>1, <4>2
      <3>2. CASE t[i].kind = "binder"
        <4> DEFINE H == [t[i].bound -> Domain]
        <4>1. ASSUME NEW h \in H, NEW r \in Places(t, i)
              PROVE  v[i - r][Rebound(e, h)] = w[(d + i) - r][Rebound(f, h)]
          <5>1. Rebound(e, h) \in [V -> Domain] /\ Rebound(f, h) \in [W -> Domain]
            BY DEF Rebound
          <5>2. \A x \in DOMAIN Rebound(e, h) : Rebound(f, h)[x] = Rebound(e, h)[x]
            BY DEF Rebound, Agree
          <5>3. ASSUME NEW k \in 1..Len(t), t[k].kind \in Constants,
                       s[d + k].kind = "symbol"
                PROVE  Rebound(f, h)[s[d + k].sym] = t[k].sym[2]
            <6>1. s[d + k] # t[k]
              BY <5>3 DEF Constants
            <6>2. PICK g \in W : s[d + k] = Leaf(g) /\ g \notin t[i].bound
              BY <6>1 DEF Follows
            <6>3. s[d + k].sym = g /\ f[g] = t[k].sym[2]
              BY <5>3, <6>2 DEF Leaf, Agree
            <6> QED
              BY <6>2, <6>3 DEF Rebound
          <5>4. Agree(t, s, d, Rebound(e, h), Rebound(f, h))
            BY <5>2, <5>3 DEF Agree
          <5> QED
            BY <2>4, <5>1, <5>4
        <4> DEFINE P == \A h \in H, r \in Places(t, i) : v[i - r][Rebound(e, h)] = 1
                   Q == \A h \in H, r \in Places(t, i) : w[(d + i) - r][Rebound(f, h)] = 1
        <4>2. P <=> Q
          <5> DEFINE A(h, r) == v[i - r][Rebound(e, h)]
                     B(h, r) == w[(d + i) - r][Rebound(f, h)]
          <5>1. \A h \in H, r \in Places(t, i) : A(h, r) = B(h, r)
            BY <4>1
          <5>2. /\ P <=> \A h \in H, r \in Places(t, i) : A(h, r) = 1
                /\ Q <=> \A h \in H, r \in Places(t, i) : B(h, r) = 1
            OBVIOUS
          <5> HIDE DEF A, B, P, Q, H
          <5> QED
            BY <5>1, <5>2
        <4>3. t[i].kind \notin Constants
          BY <3>2 DEF Constants
        <4>4. NodeValue(t, i, v, e) = Bit(P)
          BY <3>2, <4>3 DEF NodeValue
        <4>5. NodeValue(s, d + i, w, f) = Bit(Q)
          BY <1>3, <2>5, <3>2, <4>3 DEF NodeValue
        <4> QED
          BY <2>2, <4>2, <4>4, <4>5 DEF Bit
      <3>6. Arguments(t, i, v, e) = Arguments(s, d + i, w, f)
        BY <1>3, <2>4 DEF Arguments
      <3>3. CASE t[i].kind = "symbol" /\ t[i].sym \in Builtin
        <4>1. NodeValue(t, i, v, e) = Meaning(t[i].sym, Arguments(t, i, v, e))
          BY <3>3 DEF NodeValue, Constants
        <4>2. NodeValue(s, d + i, w, f) = Meaning(t[i].sym, Arguments(s, d + i, w, f))
          BY <2>5, <3>3 DEF NodeValue, Constants
        <4> QED
          BY <2>2, <3>6, <4>1, <4>2
      <3>4. CASE t[i].kind = "symbol" /\ t[i].sym \notin Builtin
        <4>1. NodeValue(t, i, v, e) = e[t[i].sym] /\ NodeValue(s, d + i, w, f) = f[t[i].sym]
          BY <2>5, <3>4 DEF NodeValue, Constants
        <4>2. t[i].sym \in V /\ DOMAIN e = V
          BY <2>5, <3>4
        <4>3. f[t[i].sym] = e[t[i].sym]
          BY <4>2 DEF Agree
        <4> QED
          BY <2>2, <4>1, <4>3
      <3>5. t[i].kind \in Constants \cup {"symbol", "binder", "named"}
        <4>1. t[i] \in Node
          BY ElementOfSeq
        <4> QED
          BY <4>1 DEF Node
      <3>7. CASE t[i].kind = "named"
        <4>1. NodeValue(t, i, v, e) = Arguments(t, i, v, e)[1]
          BY <3>7 DEF NodeValue, Constants
        <4>2. NodeValue(s, d + i, w, f) = Arguments(s, d + i, w, f)[1]
          BY <2>5, <3>7 DEF NodeValue, Constants
        <4> QED
          BY <2>2, <3>6, <4>1, <4>2
      <3> QED
        BY <3>1, <3>2, <3>3, <3>4, <3>5, <3>7
    <2>6. CASE /\ t[i].kind \in Constants /\ t[i].size = 1
               /\ \E g \in W \ Builtin : s[d + i] = Leaf(g)
      <3>1. PICK g \in W \ Builtin : s[d + i] = Leaf(g)
        BY <2>6
      <3>2. s[d + i].kind = "symbol" /\ s[d + i].sym = g /\ g \notin Builtin
        BY <3>1 DEF Leaf
      <3>3. NodeValue(s, d + i, w, f) = f[g] /\ NodeValue(t, i, v, e) = t[i].sym[2]
        BY <2>6, <3>2 DEF NodeValue, Constants
      <3>4. f[g] = t[i].sym[2]
        BY <2>6, <3>2 DEF Agree
      <3> QED
        BY <2>2, <3>3, <3>4
    <2> QED
      BY <2>5, <2>6 DEF Follows
  <1>5. SUFFICES ASSUME T # {} PROVE FALSE
    BY DEF T, Simulated
  <1>6. PICK k \in T : \A j \in T : k <= j
    <2>1. T \subseteq Nat
      BY <1>1
    <2> HIDE DEF T
    <2> QED
      BY <1>5, <2>1, Least
  <1> HIDE DEF Same
  <1>7. \A j \in 1..(k - 1) : Same(j)
    <2>1. k \in 1..Len(t) /\ ~Same(k)
      BY <1>6
    <2>2. ASSUME NEW j \in 1..(k - 1) PROVE j \notin T /\ j \in 1..Len(t)
      BY <1>1, <1>6, <2>1
    <2> QED
      BY <2>2
  <1> QED
    BY <1>4, <1>6, <1>7

\* The value of a name, and of a word of the language.
LEMMA NameValue ==
    ASSUME NEW t \in Seq(Node), WellSized(t), NEW V, NEW e \in [V -> Domain],
           NEW i \in 1..Len(t), t[i].kind = "symbol", t[i].sym \notin Builtin
    PROVE  Valuation(t, V)[i][e] = e[t[i].sym]
  <1>1. Valuation(t, V)[i][e] = NodeValue(t, i, Valuation(t, V), e)
    BY ValuationDef
  <1> QED
    BY <1>1 DEF NodeValue, Constants

\* a has the values of the arguments of node i.
Collects(a, t, i, val, e) ==
    /\ DOMAIN a = Places(t, i)
    /\ \A r \in Places(t, i) : a[r] = val[i - r][e]

LEMMA OpValue ==
    ASSUME NEW t \in Seq(Node), WellSized(t), NEW V, NEW e \in [V -> Domain],
           NEW i \in 1..Len(t), t[i].kind = "symbol", t[i].sym \in Builtin
    PROVE  \E a : /\ Collects(a, t, i, Valuation(t, V), e)
                  /\ Valuation(t, V)[i][e] = Meaning(t[i].sym, a)
  <1> DEFINE v == Valuation(t, V)
             a == Arguments(t, i, v, e)
  <1>1. v[i][e] = NodeValue(t, i, v, e)
    BY ValuationDef
  <1>2. NodeValue(t, i, v, e) = Meaning(t[i].sym, a)
    BY DEF NodeValue, Constants
  <1>3. Collects(a, t, i, v, e)
    BY DEF Collects, Arguments
  <1> QED
    BY <1>1, <1>2, <1>3

\* Node i has the value of an operator applied to the arguments' values.
Applied(t, i, op, V, e) ==
    \E a : Collects(a, t, i, Valuation(t, V), e) /\ Valuation(t, V)[i][e] = Meaning(op, a)

LEMMA AppliedValue ==
    ASSUME NEW t \in Seq(Node), WellSized(t), NEW V, NEW e \in [V -> Domain],
           NEW i \in 1..Len(t), NEW op \in Builtin, NEW k, t[i] = Apply(op, k)
    PROVE  Applied(t, i, op, V, e)
  <1>1. t[i].kind = "symbol" /\ t[i].sym = op /\ t[i].sym \in Builtin
    BY DEF Apply
  <1>2. PICK a : /\ Collects(a, t, i, Valuation(t, V), e)
                 /\ Valuation(t, V)[i][e] = Meaning(t[i].sym, a)
    BY <1>1, OpValue
  <1> QED
    BY <1>1, <1>2 DEF Applied

LEMMA Meanings ==
    ASSUME NEW a
    PROVE  /\ Meaning(Op("true"), a) = 1
           /\ Meaning(Op("false"), a) = 0
           /\ Meaning(Op("and"), a) = Bit(\A r \in DOMAIN a : a[r] = 1)
           /\ Meaning(Op("="), a) = Bit(\A q, r \in DOMAIN a : a[q] = a[r])
  BY DEF Meaning, Op

\* The names a term needs have values.
Speaks(t, V) == \A i \in 1..Len(t) : t[i].kind = "symbol" => t[i].sym \in Builtin \cup V

\* (= v t) holds where v has the value of t.
LEMMA EquationValue ==
    ASSUME NEW t \in Seq(Node), Len(t) >= 1, WellSized(t), t[Len(t)].size = Len(t),
           NEW V, Speaks(t, V), NEW x \in V \cap Symbol, x \notin Builtin, NEW e \in [V -> Domain]
    PROVE  Value(<<Leaf(x)>> \o t \o <<Apply(Op("="), Len(t) + 2)>>, e) = 1
            <=> e[x] = Value(t, e)
  <1> DEFINE s == <<Leaf(x)>> \o t \o <<Apply(Op("="), Len(t) + 2)>>
             n == Len(t)
             w == Valuation(s, V)
             i == n + 2
  <1>1. n \in Nat /\ DOMAIN e = V
    BY LenProperties
  <1>2. Leaf(x) \in Node /\ Apply(Op("="), n + 2) \in Node
    BY <1>1, LeafType, OpType
  <1>3. /\ s \in Seq(Node) /\ Len(s) = n + 2 /\ s[1] = Leaf(x)
        /\ \A k \in 1..n : s[1 + k] = t[k]
        /\ s[i] = Apply(Op("="), n + 2)
    BY <1>1, <1>2
  <1> HIDE DEF s, w
  <1>4. WellSized(s)
    <2>1. ASSUME NEW k \in 1..(n + 2) PROVE s[k].size \in 1..k
      <3>1. CASE k = 1
        BY <1>3, <3>1 DEF Leaf
      <3>2. CASE k = n + 2
        BY <1>1, <1>3, <3>2 DEF Apply
      <3>3. CASE k - 1 \in 1..n /\ 1 + (k - 1) = k
        <4>1. s[k] = t[k - 1] /\ t[k - 1].size \in 1..(k - 1)
          BY <1>3, <3>3 DEF WellSized
        <4> QED
          BY <1>1, <3>3, <4>1
      <3> QED
        BY <1>1, <3>1, <3>2, <3>3
    <2> QED
      BY <1>3, <2>1 DEF WellSized
  <1>5. w[1 + n][e] = Value(t, e)
    <2>1. Follows(t, s, 1, V, V)
      BY <1>3 DEF Follows, Speaks
    <2>2. Agree(t, s, 1, e, e)
      <3>1. \A k \in 1..n : t[k].kind \in Constants => s[1 + k].kind # "symbol"
        BY <1>3 DEF Constants
      <3> QED
        BY <3>1 DEF Agree
    <2>3. 1 \in Nat /\ 1 + Len(t) <= Len(s) /\ n \in 1..Len(t)
      BY <1>1, <1>3
    <2>4. Valuation(t, V)[n][e] = Valuation(s, V)[1 + n][e]
      <3>1. Simulated(t, s, 1, V, V)
        BY <1>3, <1>4, <2>1, <2>3, Simulation
      <3> QED
        BY <2>2, <2>3, <3>1 DEF Simulated
    <2> QED
      BY <1>1, <2>4 DEF Value, w
  <1>6. w[1][e] = e[x]
    <2>1. 1 \in 1..Len(s) /\ s[1].kind = "symbol" /\ s[1].sym = x /\ s \in Seq(Node)
      BY <1>1, <1>3 DEF Leaf
    <2>2. Valuation(s, V)[1][e] = e[s[1].sym]
      BY <1>4, <2>1, NameValue
    <2> QED
      BY <2>1, <2>2 DEF w
  <1>7. Places(s, i) = {1, n + 1}
    <2>1. s[i].size - 1 = n + 1
      BY <1>1, <1>3 DEF Apply
    <2>2. \A q \in 1..n : i - q \in 1..Len(s) /\ 1 + (n + 1 - q) = i - q /\ n + 1 - q \in 1..n
      BY <1>1, <1>3
    <2>3. 1 \in Places(s, i)
      BY <1>1, <2>1 DEF Places
    <2>4. n + 1 \in Places(s, i)
      <3>1. ASSUME NEW q \in 1..n PROVE i - (n + 1) \notin SpanOf(s, i - q)
        <4>1. s[i - q] = t[n + 1 - q] /\ t[n + 1 - q].size \in 1..(n + 1 - q)
          BY <1>3, <2>2 DEF WellSized
        <4>2. t[n + 1 - q].size \in Nat
          BY <1>1, <2>2, <4>1
        <4> QED
          BY <1>1, <4>1, <4>2 DEF SpanOf
      <3> QED
        BY <1>1, <2>1, <3>1 DEF Places
    <2>5. ASSUME NEW r \in 2..n PROVE r \notin Places(s, i)
      <3>1. s[i - 1] = t[n] /\ s[i - 1].size = n
        BY <1>1, <1>3
      <3>2. i - r \in SpanOf(s, i - 1)
        BY <1>1, <3>1 DEF SpanOf
      <3>3. 1 \in 1..(r - 1)
        OBVIOUS
      <3> QED
        BY <3>2, <3>3 DEF Places
    <2>6. \A r \in Places(s, i) : r \in 1..(n + 1)
      BY <2>1 DEF Places
    <2>7. \A r \in 1..(n + 1) : r = 1 \/ r = n + 1 \/ r \in 2..n
      BY <1>1
    <2> QED
      BY <2>3, <2>4, <2>5, <2>6, <2>7
  <1>8. PICK a : Collects(a, s, i, w, e) /\ w[i][e] = Meaning(Op("="), a)
    <2>1. i \in 1..Len(s) /\ s[i] = Apply(Op("="), i)
      BY <1>1, <1>3
    <2>2. Op("=") \in Builtin /\ s \in Seq(Node)
      BY <1>3 DEF Builtin, OpNames
    <2>3. Applied(s, i, Op("="), V, e)
      <3> HIDE DEF i, s
      <3> QED
        BY <1>4, <2>1, <2>2, AppliedValue
    <2> QED
      BY <2>3 DEF Applied, w
  <1>9. DOMAIN a = {1, n + 1} /\ a[1] = Value(t, e) /\ a[n + 1] = e[x]
    <2>1. i - 1 = 1 + n /\ i - (n + 1) = 1
      BY <1>1
    <2> QED
      BY <1>5, <1>6, <1>7, <1>8, <2>1 DEF Collects
  <1>10. Value(s, e) = w[i][e]
    BY <1>1, <1>3 DEF Value, w
  <1>11. Value(s, e) = Bit(\A q, r \in DOMAIN a : a[q] = a[r])
    BY <1>8, <1>10, Meanings
  <1>12. (\A q, r \in DOMAIN a : a[q] = a[r]) <=> e[x] = Value(t, e)
    BY <1>9
  <1> QED
    BY <1>11, <1>12 DEF s, Bit

\* The nodes of a truth assertion: n equations, and n conjunctions.
LaidOut(b, f, n) ==
    /\ Len(b) = 4 * n
    /\ \A k \in 1..n : /\ b[3 * k - 2] = Leaf(BavName(k))
                       /\ b[3 * k - 1] = Leaf(Truth(f[k]))
                       /\ b[3 * k] = Apply(Op("="), 3)
                       /\ b[3 * n + k] = Apply(Op("and"), 4 * k)

LEMMA BamItems ==
    ASSUME NEW f \in Seq(BOOLEAN)
    PROVE  LaidOut(BamTerm(f), f, Len(f))
  <1> DEFINE n == Len(f)
             Equation(k, j) == CASE j = 0 -> Leaf(BavName(k))
                                 [] j = 1 -> Leaf(Truth(f[k]))
                                 [] j = 2 -> Apply(Op("="), 3)
             At(i) == IF i <= 3 * n THEN Equation(((i - 1) \div 3) + 1, (i - 1) % 3)
                                    ELSE Apply(Op("and"), 4 * (i - 3 * n))
             b == BamTerm(f)
  <1>1. n \in Nat /\ b \in Seq(Node)
    BY BamType, LenProperties
  <1>2. b = [i \in 1..(4 * n) |-> At(i)]
    BY DEF BamTerm
  <1>3. Len(b) = 4 * n
    <2>1. DOMAIN b = 1..Len(b) /\ Len(b) \in Nat /\ 4 * n \in Nat
      BY <1>1, LenProperties
    <2> HIDE DEF b, At, n
    <2>2. 1..Len(b) = 1..(4 * n)
      BY <1>2, <2>1
    <2> QED
      BY <2>1, <2>2, SameInterval
  <1>4. \A i \in 1..(4 * n) : b[i] = At(i)
    BY <1>2
  <1>5. ASSUME NEW k \in 1..n, NEW j \in 0..2
        PROVE  b[3 * k - 2 + j] = Equation(k, j)
    <2>1. 3 * k - 2 + j \in 1..(4 * n) /\ 3 * k - 2 + j <= 3 * n
      BY <1>1
    <2>2. (((3 * k - 2 + j) - 1) \div 3) + 1 = k /\ ((3 * k - 2 + j) - 1) % 3 = j
      BY <1>1
    <2>3. b[3 * k - 2 + j] = At(3 * k - 2 + j)
      BY <1>4, <2>1
    <2> HIDE DEF b, Equation
    <2>4. \A i : i <= 3 * n => At(i) = Equation(((i - 1) \div 3) + 1, (i - 1) % 3)
      OBVIOUS
    <2> HIDE DEF At
    <2> QED
      BY <2>1, <2>2, <2>3, <2>4
  <1>6. ASSUME NEW k \in 1..n
        PROVE  b[3 * n + k] = Apply(Op("and"), 4 * k)
    <2>1. 3 * n + k \in 1..(4 * n) /\ ~(3 * n + k <= 3 * n) /\ (3 * n + k) - 3 * n = k
      BY <1>1
    <2>2. b[3 * n + k] = At(3 * n + k)
      BY <1>4, <2>1
    <2> HIDE DEF b
    <2> QED
      BY <2>1, <2>2
  <1>7. ASSUME NEW k \in 1..n
        PROVE  /\ b[3 * k - 2] = Leaf(BavName(k))
               /\ b[3 * k - 1] = Leaf(Truth(f[k]))
               /\ b[3 * k] = Apply(Op("="), 3)
    <2>1. 3 * k - 2 + 0 = 3 * k - 2 /\ 3 * k - 2 + 1 = 3 * k - 1 /\ 3 * k - 2 + 2 = 3 * k
      BY <1>1
    <2>2. /\ Equation(k, 0) = Leaf(BavName(k))
          /\ Equation(k, 1) = Leaf(Truth(f[k]))
          /\ Equation(k, 2) = Apply(Op("="), 3)
      OBVIOUS
    <2> HIDE DEF b, Equation
    <2>3. /\ b[3 * k - 2 + 0] = Equation(k, 0)
          /\ b[3 * k - 2 + 1] = Equation(k, 1)
          /\ b[3 * k - 2 + 2] = Equation(k, 2)
      BY <1>5
    <2> QED
      BY <2>1, <2>2, <2>3
  <1> HIDE DEF b
  <1> QED
    BY <1>3, <1>6, <1>7 DEF LaidOut, b

\* Every node of a truth assertion is in an equation or a conjunction.
LEMMA BamNode ==
    ASSUME NEW n \in Nat, NEW i \in 1..(4 * n)
    PROVE  \E k \in 1..n : \/ i = 3 * k - 2 \/ i = 3 * k - 1 \/ i = 3 * k
                         \/ i = 3 * n + k
  <1>1. CASE i <= 3 * n
    <2>1. (i + 2) \div 3 \in 1..n
      BY <1>1
    <2>2. LET k == (i + 2) \div 3 IN i = 3 * k - 2 \/ i = 3 * k - 1 \/ i = 3 * k
      OBVIOUS
    <2> QED
      BY <2>1, <2>2
  <1>2. CASE ~(i <= 3 * n)
    <2>1. i - 3 * n \in 1..n /\ i = 3 * n + (i - 3 * n)
      BY <1>2
    <2> QED
      BY <2>1
  <1> QED
    BY <1>1, <1>2

\* The truth assertion holds where the names have the truth values.
LEMMA BamValue ==
    ASSUME NEW f \in Seq(BOOLEAN), Len(f) >= 1,
           NEW V, \A k \in 1..Len(f) : BavName(k) \in V,
           NEW e \in [V -> Domain]
    PROVE  Value(BamTerm(f), e) = 1
            <=> \A k \in 1..Len(f) : e[BavName(k)] = Bit(f[k])
  <1> DEFINE n == Len(f)
             b == BamTerm(f)
             v == Valuation(b, V)
             Holds(m) == v[3 * n + m][e] = 1
                           <=> \A k \in (n - m + 1)..n : e[BavName(k)] = Bit(f[k])
  <1>1. n \in Nat /\ b \in Seq(Node) /\ LaidOut(b, f, n) /\ DOMAIN e = V
    BY BamType, BamItems, LenProperties
  <1> HIDE DEF b
  <1>2. /\ Len(b) = 4 * n
        /\ \A k \in 1..n : /\ b[3 * k - 2] = Leaf(BavName(k))
                           /\ b[3 * k - 1] = Leaf(Truth(f[k]))
                           /\ b[3 * k] = Apply(Op("="), 3)
                           /\ b[3 * n + k] = Apply(Op("and"), 4 * k)
    BY <1>1 DEF LaidOut
  <1>3. \A k \in 1..n : /\ b[3 * k - 2].size = 1 /\ b[3 * k - 1].size = 1
                        /\ b[3 * k].size = 3 /\ b[3 * n + k].size = 4 * k
    <2>1. \A x, k : Leaf(x).size = 1 /\ Apply(x, k).size = k
      BY DEF Leaf, Apply
    <2> QED
      BY <1>2, <2>1
  <1>4. \A k \in 1..n : /\ 3 * k - 2 \in 1..Len(b) /\ 3 * k - 1 \in 1..Len(b)
                        /\ 3 * k \in 1..Len(b) /\ 3 * n + k \in 1..Len(b)
    BY <1>1, <1>2
  <1>5. WellSized(b)
    <2>1. ASSUME NEW i \in 1..(4 * n) PROVE b[i].size \in 1..i
      <3>1. PICK k \in 1..n : \/ i = 3 * k - 2 \/ i = 3 * k - 1 \/ i = 3 * k
                             \/ i = 3 * n + k
        BY <1>1, BamNode
      <3>2. k \in Nat /\ k >= 1 /\ k <= n
        BY <1>1
      <3>3. b[i].size \in {1} \/ (i = 3 * k /\ b[i].size = 3) \/ (i = 3 * n + k /\ b[i].size = 4 * k)
        BY <1>3, <3>1
      <3> QED
        BY <1>1, <3>2, <3>3
    <2> QED
      BY <1>2, <2>1 DEF WellSized
  <1>6. ASSUME NEW k \in 1..n
        PROVE  v[3 * k][e] = 1 <=> e[BavName(k)] = Bit(f[k])
    <2>1. k \in Nat
      BY <1>1
    <2>2. v[3 * k - 2][e] = e[BavName(k)]
      <3> DEFINE i == 3 * k - 2
      <3>1. i \in 1..Len(b) /\ b[i] = Leaf(BavName(k))
        BY <1>2, <1>4
      <3>2. b[i].kind = "symbol" /\ b[i].sym = BavName(k) /\ BavName(k) \notin Builtin
        BY <3>1 DEF Leaf, BavName, Builtin, Op, OpNames
      <3>3. b \in Seq(Node)
        BY <1>1
      <3> HIDE DEF i, v, Holds, n
      <3>4. Valuation(b, V)[i][e] = e[b[i].sym]
        BY <1>5, <3>1, <3>2, <3>3, NameValue
      <3> QED
        BY <3>2, <3>4 DEF i, v
    <2>3. v[3 * k - 1][e] = Bit(f[k])
      <3> DEFINE i == 3 * k - 1
      <3>0. f[k] \in BOOLEAN
        BY ElementOfSeq
      <3>1. i \in 1..Len(b) /\ b[i] = Leaf(Truth(f[k]))
        BY <1>2, <1>4
      <3>2. b[i].kind = "symbol" /\ b[i].sym = Truth(f[k]) /\ Truth(f[k]) \in Builtin
        BY <3>0, <3>1 DEF Leaf, Truth, Builtin, OpNames
      <3>3. b \in Seq(Node)
        BY <1>1
      <3> HIDE DEF i, v, Holds, n
      <3>4. \E a : Valuation(b, V)[i][e] = Meaning(b[i].sym, a)
        BY <1>5, <3>1, <3>2, <3>3, OpValue
      <3> QED
        BY <3>0, <3>2, <3>4, Meanings DEF i, v, Truth, Bit
    <2>4. Places(b, 3 * k) = {1, 2}
      <3>1. b[3 * k].size = 3 /\ b[3 * k - 1].size = 1
        BY <1>3
      <3>2. 3 * k - 2 \notin SpanOf(b, 3 * k - 1)
        BY <2>1, <3>1 DEF SpanOf
      <3> QED
        BY <3>1, <3>2 DEF Places
    <2>5. PICK a : Collects(a, b, 3 * k, v, e) /\ v[3 * k][e] = Meaning(Op("="), a)
      <3> DEFINE i == 3 * k
      <3>1. i \in 1..Len(b) /\ b[i] = Apply(Op("="), 3)
        BY <1>2, <1>4
      <3>2. Op("=") \in Builtin /\ b \in Seq(Node)
        BY <1>1 DEF Builtin, OpNames
      <3> HIDE DEF i, v, Holds, n
      <3>3. Applied(b, i, Op("="), V, e)
        BY <1>5, <3>1, <3>2, AppliedValue
      <3> QED
        BY <3>3 DEF Applied, v, i
    <2>6. DOMAIN a = {1, 2} /\ a[1] = Bit(f[k]) /\ a[2] = e[BavName(k)]
      BY <2>2, <2>3, <2>4, <2>5 DEF Collects
    <2>7. (\A q, r \in DOMAIN a : a[q] = a[r]) <=> e[BavName(k)] = Bit(f[k])
      BY <2>6
    <2> QED
      BY <2>5, <2>7, Meanings DEF Bit
  <1>7. ASSUME NEW m \in 1..n PROVE Places(b, 3 * n + m) = {1, 4 * m - 3}
    <2>1. m \in Nat /\ 1 <= m /\ m <= n
      BY <1>1
    <2> DEFINE i == 3 * n + m
    <2>2. i \in Nat /\ b[i].size = 4 * m
      BY <1>1, <1>3, <2>1
    <2>3. ASSUME NEW q \in 1..(4 * m - 4) PROVE i - (4 * m - 3) \notin SpanOf(b, i - q)
      <3>1. i - q \in 1..(4 * n)
        BY <1>1, <2>1
      <3>2. PICK k \in 1..n : \/ i - q = 3 * k - 2 \/ i - q = 3 * k - 1 \/ i - q = 3 * k
                             \/ i - q = 3 * n + k
        BY <1>1, <3>1, BamNode
      <3>3. k \in Nat /\ q \in Nat /\ i - q > i - (4 * m - 3) /\ i - (4 * m - 3) = 3 * (n - m + 1)
        BY <1>1, <2>1
      <3>4. CASE i - q = 3 * k - 2 /\ b[i - q].size = 1
        BY <1>1, <2>1, <3>3, <3>4 DEF SpanOf
      <3>5. CASE i - q = 3 * k - 1 /\ b[i - q].size = 1
        BY <1>1, <2>1, <3>3, <3>5 DEF SpanOf
      <3>6. CASE i - q = 3 * k /\ b[i - q].size = 3
        <4>1. k > n - m + 1
          BY <1>1, <2>1, <3>3, <3>6
        <4> QED
          BY <1>1, <2>1, <3>3, <3>6, <4>1 DEF SpanOf
      <3>7. CASE i - q = 3 * n + k /\ b[i - q].size = 4 * k
        <4>1. k <= m - 1
          BY <1>1, <2>1, <3>3, <3>7
        <4> QED
          BY <1>1, <2>1, <3>3, <3>7, <4>1 DEF SpanOf
      <3> QED
        BY <1>3, <3>2, <3>4, <3>5, <3>6, <3>7
    <2>4. ASSUME NEW r \in 2..(4 * m - 4) PROVE i - r \in SpanOf(b, i - 1)
      <3>1. m - 1 \in 1..n /\ i - 1 = 3 * n + (m - 1)
        BY <1>1, <2>1
      <3>2. b[i - 1].size = 4 * (m - 1)
        BY <1>3, <3>1
      <3> QED
        BY <1>1, <2>1, <3>2 DEF SpanOf
    <2>5. ASSUME NEW r \in {4 * m - 2, 4 * m - 1} PROVE i - r \in SpanOf(b, i - (4 * m - 3))
      <3>1. n - m + 1 \in 1..n /\ i - (4 * m - 3) = 3 * (n - m + 1)
        BY <1>1, <2>1
      <3>2. b[i - (4 * m - 3)].size = 3
        BY <1>3, <3>1
      <3> QED
        BY <1>1, <2>1, <3>2 DEF SpanOf
    <2>6. \A r \in Places(b, i) : r \in 1..(4 * m - 1)
      BY <2>2 DEF Places
    <2>7. \A r \in 1..(4 * m - 1) : \/ r = 1 \/ r = 4 * m - 3 \/ r \in 2..(4 * m - 4)
                                   \/ r \in {4 * m - 2, 4 * m - 1}
      BY <2>1
    <2>8. 1 \in Places(b, i) /\ 4 * m - 3 \in Places(b, i)
      BY <2>1, <2>2, <2>3 DEF Places
    <2>9. \A r \in 2..(4 * m - 4) : r \notin Places(b, i)
      <3>1. \A r \in 2..(4 * m - 4) : 1 \in 1..(r - 1)
        BY <2>1
      <3> QED
        BY <2>4, <3>1 DEF Places
    <2>10. \A r \in {4 * m - 2, 4 * m - 1} : r \notin Places(b, i)
      <3>1. \A r \in {4 * m - 2, 4 * m - 1} : 4 * m - 3 \in 1..(r - 1)
        BY <2>1
      <3> QED
        BY <2>5, <3>1 DEF Places
    <2> HIDE DEF i
    <2>11. Places(b, i) = {1, 4 * m - 3}
      BY <2>6, <2>7, <2>8, <2>9, <2>10
    <2> QED
      BY <2>11 DEF i
  <1>8. ASSUME NEW m \in 1..n, m > 1 => Holds(m - 1) PROVE Holds(m)
    <2> DEFINE i == 3 * n + m
               j == n - m + 1
    <2>1. m \in Nat /\ 1 <= m /\ m <= n /\ j \in 1..n
      BY <1>1
    <2>2. PICK a : Collects(a, b, i, v, e) /\ v[i][e] = Meaning(Op("and"), a)
      <3>1. i \in 1..Len(b) /\ b[i] = Apply(Op("and"), 4 * m)
        BY <1>2, <1>4
      <3>2. Op("and") \in Builtin /\ b \in Seq(Node)
        BY <1>1 DEF Builtin, OpNames
      <3> HIDE DEF i, v, Holds, n
      <3>3. Applied(b, i, Op("and"), V, e)
        BY <1>5, <3>1, <3>2, AppliedValue
      <3> QED
        BY <3>3 DEF Applied, v
    <2>3. DOMAIN a = {1, 4 * m - 3} /\ a[1] = v[i - 1][e] /\ a[4 * m - 3] = v[3 * j][e]
      <3>1. i - (4 * m - 3) = 3 * j
        BY <1>1, <2>1
      <3>2. Places(b, i) = {1, 4 * m - 3}
        BY <1>7
      <3> QED
        BY <2>2, <3>1, <3>2 DEF Collects
    <2>4. v[i][e] = 1 <=> v[i - 1][e] = 1 /\ v[3 * j][e] = 1
      BY <2>2, <2>3, Meanings DEF Bit
    <2>5. v[3 * j][e] = 1 <=> e[BavName(j)] = Bit(f[j])
      BY <1>6, <2>1
    <2> HIDE DEF v
    <2>6. CASE m = 1
      <3>1. i - 1 = 3 * j /\ j \in j..n /\ \A k \in j..n : k = j
        BY <1>1, <2>6
      <3> QED
        BY <2>1, <2>4, <2>5, <3>1
    <2>7. CASE m > 1
      <3>1. i - 1 = 3 * n + (m - 1) /\ n - (m - 1) + 1 = j + 1
        BY <1>1, <2>1
      <3>2. v[i - 1][e] = 1 <=> \A k \in (j + 1)..n : e[BavName(k)] = Bit(f[k])
        BY <1>8, <2>7, <3>1
      <3>3. \A k \in j..n : k = j \/ k \in (j + 1)..n
        BY <1>1, <2>1
      <3>4. \A k \in (j + 1)..n : k \in j..n
        BY <1>1, <2>1
      <3>5. j \in j..n
        BY <1>1, <2>1
      <3> QED
        BY <2>4, <2>5, <3>2, <3>3, <3>4, <3>5
    <2> QED
      BY <2>1, <2>6, <2>7
  <1>9. Holds(n)
    <2> DEFINE T == {m \in 1..n : ~Holds(m)}
    <2> HIDE DEF Holds
    <2>1. SUFFICES ASSUME T # {} PROVE FALSE
      BY <1>1
    <2>2. PICK m \in T : \A k \in T : m <= k
      <3>1. T \subseteq Nat
        BY <1>1
      <3> HIDE DEF T
      <3> QED
        BY <2>1, <3>1, Least
    <2>3. m \in 1..n /\ ~Holds(m)
      BY <2>2
    <2>4. m > 1 => Holds(m - 1)
      <3>1. m > 1 => m - 1 \in 1..n /\ ~(m <= m - 1)
        BY <1>1, <2>3
      <3> QED
        BY <2>2, <3>1
    <2> QED
      BY <1>8, <2>3, <2>4
  <1>10. Value(b, e) = v[3 * n + n][e]
    <2>1. 3 * n + n = Len(b)
      BY <1>1, <1>2
    <2> QED
      BY <1>1, <2>1 DEF Value
  <1>11. n - n + 1 = 1
    BY <1>1
  <1> QED
    BY <1>9, <1>10, <1>11 DEF b

\* f gives the names in V the values they have in e.
Extends(f, e, V) == \A x \in V : f[x] = e[x]

\* A term that follows another node by node has its value.
LEMMA FollowedValue ==
    ASSUME NEW t \in Seq(Node), NEW u \in Seq(Node), WellSized(t), WellSized(u),
           Len(t) >= 1, Len(u) = Len(t),
           NEW V, NEW W, V \subseteq W, Follows(t, u, 0, V, W),
           NEW e \in [V -> Domain], NEW f \in [W -> Domain], Agree(t, u, 0, e, f)
    PROVE  Value(u, f) = Value(t, e)
  <1>1. Len(t) \in Nat /\ 0 + Len(t) = Len(t) /\ Len(t) \in 1..Len(t)
        /\ 0 \in Nat /\ 0 + Len(t) <= Len(u)
    BY LenProperties
  <1>2. Simulated(t, u, 0, V, W)
    <2>1. 0 \in Nat /\ 0 + Len(t) <= Len(u)
      BY <1>1
    <2> QED
      BY <2>1, Simulation
  <1>3. Valuation(t, V)[Len(t)][e] = Valuation(u, W)[0 + Len(t)][f]
    BY <1>1, <1>2 DEF Simulated
  <1>4. DOMAIN e = V /\ DOMAIN f = W
    OBVIOUS
  <1> QED
    BY <1>1, <1>3, <1>4 DEF Value

\* A term that needs no other names has one value in both environments.
LEMMA Coincidence ==
    ASSUME NEW t \in Seq(Node), Len(t) >= 1, WellSized(t),
           NEW V, NEW W, V \subseteq W, Speaks(t, V),
           NEW e \in Environments(V), NEW f \in Environments(W), Extends(f, e, V)
    PROVE  Value(t, e) = Value(t, f)
  <1>0. e \in [V -> Domain] /\ f \in [W -> Domain] /\ \A x \in V : f[x] = e[x]
    BY DEF Environments, Extends
  <1>1. Len(t) \in Nat /\ \A i \in 1..Len(t) : 0 + i = i
    BY LenProperties
  <1>2. Follows(t, t, 0, V, W)
    BY <1>1 DEF Follows, Speaks
  <1>3. Agree(t, t, 0, e, f)
    <2>1. \A i \in 1..Len(t) : t[i].kind \in Constants => t[0 + i].kind # "symbol"
      BY <1>1 DEF Constants
    <2> QED
      BY <1>0, <2>1 DEF Agree
  <1> QED
    BY <1>0, <1>1, <1>2, <1>3, FollowedValue

-----------------------------------------------------------------------------
(* Terms as trees.                                                         *)

\* The subtrees of a term fit into each other.
Tree(t) ==
    \A i \in 1..Len(t) : /\ t[i].size \in 1..i
                        /\ \A j \in SpanOf(t, i) : i - t[i].size <= j - t[j].size

LEMMA SourceTrees ==
    ASSUME TypeOK, NEW c \in 1..Len(source)
    PROVE  source[c].term \in Seq(Node) /\ Tree(source[c].term)
  <1> DEFINE t == source[c].term
  <1>1. c \in DOMAIN source /\ t \in Seq(Node)
    BY SourceType, LenProperties
  <1>2. DOMAIN t = 1..Len(t) /\ Len(t) \in Nat
    BY <1>1, LenProperties
  <1>3. \A i \in 1..Len(t) : t[i].size \in 1..i
    BY <1>1, <1>2, SourceType
  <1>4. ASSUME NEW i \in 1..Len(t), NEW j \in SpanOf(t, i)
        PROVE  i - t[i].size <= j - t[j].size
    <2>1. SpanOf(t, j) \subseteq SpanOf(t, i)
      BY <1>1, <1>2, ScriptsAssumption DEF TypeOK
    <2> HIDE DEF t
    <2>2. t[i].size \in 1..i /\ i \in Nat /\ i <= Len(t)
      BY <1>2, <1>3
    <2>3. j \in Nat /\ j \in 1..Len(t)
      BY <1>2, <2>2 DEF SpanOf
    <2>4. t[j].size \in 1..j
      BY <1>3, <2>3
    <2>5. j - t[j].size + 1 \in SpanOf(t, j)
      BY <2>3, <2>4 DEF SpanOf
    <2>6. j - t[j].size + 1 \in SpanOf(t, i)
      BY <2>1, <2>5
    <2> QED
      BY <2>2, <2>3, <2>4, <2>6 DEF SpanOf
  <1> QED
    BY <1>1, <1>3, <1>4 DEF Tree

\* A node is as the sample has it, or a name for a constant.
LEMMA ParsedNodes ==
    ASSUME TypeOK, NEW w, Parsed(w), NEW c \in 1..Len(source)
    PROVE  /\ source[c].term \in Seq(Node) /\ w[c].term \in Seq(Node)
           /\ Len(w[c].term) = Len(source[c].term)
           /\ \A i \in 1..Len(source[c].term) :
                IF source[c].term[i].kind \in Constants
                THEN /\ source[c].term[i].size = 1
                     /\ \E k \in 1..counter : w[c].term[i] = Leaf(GenName(k))
                ELSE w[c].term[i] = source[c].term[i]
  <1>1. /\ source[c].term \in Seq(Node) /\ w[c].term \in Seq(Node)
        /\ Len(w[c].term) = Len(source[c].term)
    BY ParsedShape
  <1>2. c \in DOMAIN source
    BY SourceType, LenProperties
  <1>3. ASSUME NEW i \in 1..Len(source[c].term)
        PROVE  IF source[c].term[i].kind \in Constants
               THEN /\ source[c].term[i].size = 1
                    /\ \E k \in 1..counter : w[c].term[i] = Leaf(GenName(k))
               ELSE w[c].term[i] = source[c].term[i]
    <2>1. i \in DOMAIN source[c].term
      BY <1>1, LenProperties
    <2>2. /\ <<c, i>> \in Nodes(source)
          /\ NodeAt(source, <<c, i>>) = source[c].term[i]
          /\ NodeAt(w, <<c, i>>) = w[c].term[i]
      BY <1>2, <2>1 DEF Nodes, NodeAt
    <2>3. IsConstant(source, <<c, i>>) <=> source[c].term[i].kind \in Constants
      BY <2>2 DEF IsConstant
    <2>4. IF IsConstant(source, <<c, i>>)
          THEN \E k \in 1..counter : NodeAt(w, <<c, i>>) = Leaf(GenName(k))
          ELSE NodeAt(w, <<c, i>>) = NodeAt(source, <<c, i>>)
      BY <2>2 DEF Parsed
    <2>5. source[c].term[i].kind \in Constants => source[c].term[i].size = 1
      BY <1>2, <2>1, <2>3, SourceType
    <2> QED
      BY <2>2, <2>3, <2>4, <2>5
  <1> QED
    BY <1>1, <1>3

LEMMA ParsedTrees ==
    ASSUME TypeOK, NEW w, Parsed(w), NEW c \in 1..Len(source)
    PROVE  Tree(w[c].term)
  <1> DEFINE t == source[c].term
             u == w[c].term
  <1>1. Len(u) = Len(t) /\ Tree(t) /\ Len(t) \in Nat
    BY ParsedNodes, SourceTrees, LenProperties
  <1>2. \A i \in 1..Len(t) : u[i].size = t[i].size
    <2>1. \A x : Leaf(x).size = 1
      BY DEF Leaf
    <2> QED
      BY <2>1, ParsedNodes
  <1> HIDE DEF t, u
  <1>3. ASSUME NEW i \in 1..Len(t), NEW j \in SpanOf(u, i)
        PROVE  i - u[i].size <= j - u[j].size
    <2>1. u[i].size = t[i].size /\ t[i].size \in 1..i /\ i \in Nat
      BY <1>1, <1>2 DEF Tree
    <2>2. j \in SpanOf(t, i)
      BY <2>1 DEF SpanOf
    <2>3. j \in 1..Len(t)
      BY <1>1, <2>1, <2>2 DEF SpanOf
    <2>4. i - t[i].size <= j - t[j].size
      BY <1>1, <2>2 DEF Tree
    <2> QED
      BY <1>2, <2>1, <2>3, <2>4
  <1> QED
    BY <1>1, <1>2, <1>3 DEF Tree, u, t

LEMMA SubtreeTree ==
    ASSUME NEW t \in Seq(Node), Tree(t), NEW i \in 1..Len(t)
    PROVE  /\ Subtree(t, i) \in Seq(Node)
           /\ Len(Subtree(t, i)) = t[i].size
           /\ t[i].size \in 1..i
           /\ \A k \in 1..t[i].size : Subtree(t, i)[k] = t[i - t[i].size + k]
           /\ WellSized(Subtree(t, i))
           /\ Subtree(t, i)[t[i].size] = t[i]
  <1> DEFINE a == Subtree(t, i)
             n == t[i].size
  <1>1. n \in 1..i /\ i \in Nat /\ i <= Len(t) /\ Len(t) \in Nat
    BY LenProperties DEF Tree
  <1>2. a \in Seq(Node)
    BY <1>1, SubtreeType, LenProperties
  <1>3. a = [k \in 1..n |-> t[i - n + k]]
    BY DEF Subtree
  <1> HIDE DEF a, n
  <1>4. Len(a) = n
    <2>1. DOMAIN a = 1..Len(a) /\ Len(a) \in Nat /\ n \in Nat
      BY <1>1, <1>2, LenProperties
    <2>2. 1..Len(a) = 1..n
      BY <1>3, <2>1
    <2> QED
      BY <2>1, <2>2, SameInterval
  <1>5. \A k \in 1..n : a[k] = t[i - n + k]
    BY <1>3
  <1>6. WellSized(a)
    <2>1. ASSUME NEW k \in 1..n PROVE a[k].size \in 1..k
      <3>1. i - n + k \in 1..Len(t) /\ i - n + k \in SpanOf(t, i)
        BY <1>1 DEF SpanOf, n
      <3> DEFINE j == i - n + k
      <3>2. t[j].size \in 1..j /\ i - n <= j - t[j].size
        BY <3>1 DEF Tree, n
      <3>3. a[k].size = t[j].size
        BY <1>5
      <3> QED
        BY <1>1, <3>1, <3>2, <3>3
    <2> QED
      BY <1>4, <2>1 DEF WellSized
  <1>7. n \in 1..n /\ i - n + n = i
    BY <1>1
  <1> QED
    BY <1>1, <1>2, <1>4, <1>5, <1>6, <1>7 DEF a, n

-----------------------------------------------------------------------------
(* What a variant asserts.                                                 *)

\* A copied term is a tree, and needs names of the sample and made up ones.
LEMMA CopyTree ==
    ASSUME TypeOK, NEW w, Parsed(w), NEW k \in 1..NumBavs
    PROVE  LET t == bexps[k]
           IN  /\ t \in Seq(Node) /\ Len(t) >= 1 /\ WellSized(t)
               /\ t[Len(t)].size = Len(t)
               /\ Speaks(t, Unknowns \cup GenNames)
  <1>1. bexps \in Seq(Seq(Node)) /\ k \in DOMAIN bexps
    BY LenProperties DEF TypeOK, NumBavs
  <1>2. bexps[k] \in ToSet(bexps)
    BY <1>1 DEF ToSet
  <1>3. PICK p \in Nodes(source) : bexps[k] = SubtreeAt(w, p)
    BY <1>2 DEF Parsed
  <1> DEFINE c == p[1]
             i == p[2]
             t == source[c].term
             u == w[c].term
             a == Subtree(u, i)
  <1>4. c \in DOMAIN source /\ i \in DOMAIN t
    BY NodesElim
  <1>symbols. SymbolsOf(t) \subseteq Builtin \cup Unknowns
    <2> HIDE DEF c
    <2> QED
      BY <1>4 DEF Unknowns
  <1>5. c \in 1..Len(source) /\ t \in Seq(Node) /\ u \in Seq(Node) /\ i \in 1..Len(u)
        /\ Len(u) = Len(t)
    <2>1. c \in 1..Len(source)
      BY <1>4, SourceType, LenProperties
    <2>2. t \in Seq(Node) /\ u \in Seq(Node) /\ Len(u) = Len(t)
      BY <2>1, ParsedNodes
    <2>3. i \in 1..Len(t)
      BY <1>4, <2>2, LenProperties
    <2> QED
      BY <2>1, <2>2, <2>3
  <1>6. Tree(u)
    BY <1>5, ParsedTrees
  <1>7. bexps[k] = a
    BY <1>3 DEF SubtreeAt
  <1>8. \A j \in 1..Len(u) : u[j].kind = "symbol" => u[j].sym \in Builtin \cup Unknowns \cup GenNames
    <2>0. SUFFICES ASSUME NEW j \in 1..Len(u), u[j].kind = "symbol"
                   PROVE  u[j].sym \in Builtin \cup Unknowns \cup GenNames
      OBVIOUS
    <2>1. CASE t[j].kind \in Constants
      <3>1. PICK g \in 1..counter : u[j] = Leaf(GenName(g))
        BY <1>5, <2>1, ParsedNodes
      <3> QED
        BY <3>1 DEF Leaf, GenNames
    <2>2. CASE t[j].kind \notin Constants
      <3>1. u[j] = t[j] /\ j \in DOMAIN t
        BY <1>5, <2>2, ParsedNodes, LenProperties
      <3>2. t[j].sym \in SymbolsOf(t)
        BY <3>1, <2>0 DEF SymbolsOf
      <3> QED
        BY <1>symbols, <3>1, <3>2
    <2> QED
      BY <2>1, <2>2
  <1> HIDE DEF u, t, i, c
  <1>9. /\ a \in Seq(Node) /\ Len(a) = u[i].size /\ u[i].size \in 1..i /\ WellSized(a)
        /\ \A n \in 1..u[i].size : a[n] = u[i - u[i].size + n]
        /\ a[u[i].size] = u[i]
    BY <1>5, <1>6, SubtreeTree
  <1>10. \A n \in 1..u[i].size : i - u[i].size + n \in 1..Len(u)
    <2>1. Len(u) \in Nat /\ i \in 1..Len(u) /\ u[i].size \in 1..i
      BY <1>5, <1>9, LenProperties
    <2> QED
      BY <2>1
  <1>11. Speaks(a, Unknowns \cup GenNames)
    BY <1>8, <1>9, <1>10 DEF Speaks
  <1>12. Len(a) >= 1 /\ a[Len(a)].size = Len(a)
    BY <1>5, <1>9
  <1> QED
    BY <1>7, <1>9, <1>11, <1>12

\* The truth assertion and the equations are in force at the first query.
LEMMA InsertedAsserted ==
    ASSUME TypeOK, Built, phase = "ready"
    PROVE  /\ NumBavs >= 1 => BamTerm(values) \in Asserted(script, FirstQuery(script))
           /\ \A k \in 1..NumBavs :
                BavInit(k).term \in Asserted(script, FirstQuery(script))
  <1> DEFINE b == BeforeInits
             x == script[endAt]
             n == NumBavs
             q == FirstQuery(script)
  <1>1. /\ b \in Seq(Command) /\ endAt \in 1..(Len(b) + 1) /\ x \in Command
        /\ script \in Seq(Command)
    BY BuiltParts
  <1>2. /\ Inits \in Seq(Command) /\ Len(Inits) = n /\ n \in Nat
        /\ \A k \in 1..n : Inits[k] = BavInit(k)
    BY PartsType
  <1>3. /\ q = endAt + n + 1 /\ endAt \in Nat /\ endAt >= 1 /\ endAt + n <= Len(script)
        /\ \A m \in endAt..(endAt + n) : script[m].kind = "assert"
    BY QueryAt
  <1>4. InsertedLast(script, b, endAt, Inits, x)
    <2>1. script = InsertEach(b, endAt, Append(Inits, x))
      BY DEF Built
    <2> HIDE DEF b, x
    <2> QED
      BY <1>1, <1>2, <2>1, InsertLast
  <1>5. ASSUME NEW m \in endAt..(endAt + n), script[m].term # <<>>
        PROVE  script[m].term \in Asserted(script, q)
    <2>1. m \in DOMAIN script /\ m \in Nat /\ m < q /\ q - 1 = endAt + n
      BY <1>1, <1>2, <1>3, LenProperties
    <2>2. ASSUME NEW j \in m..(q - 1) PROVE Depth(script, j) >= Depth(script, m)
      <3>1. j \in Nat /\ m <= j
        BY <2>1
      <3>2. \A l \in (m + 1)..j : l \in endAt..(endAt + n)
        BY <1>2, <1>3, <2>1
      <3>3. \A l \in (m + 1)..j : script[l].kind \notin {"push", "pop"}
        BY <1>3, <3>2
      <3>4. Depth(script, j) = Depth(script, m)
        BY <2>1, <3>1, <3>3, DepthFlat
      <3>5. Depth(script, m) \in Int
        BY <2>1, DepthType
      <3> QED
        BY <3>4, <3>5
    <2>5. NoReset(script, m, q - 1)
      <3>1. \A l \in m..(q - 1) : l \in endAt..(endAt + n)
        BY <1>2, <1>3, <2>1
      <3> QED
        BY <1>3, <3>1 DEF NoReset, Resets
    <2> HIDE DEF q
    <2>3. Survives(script, m, q)
      BY <2>1, <2>2, <2>5 DEF Survives
    <2>4. script[m].kind = "assert"
      BY <1>3
    <2> QED
      BY <1>5, <2>1, <2>3, <2>4 DEF Asserted
  <1>6. ASSUME n >= 1 PROVE BamTerm(values) \in Asserted(script, q)
    <2>1. script[endAt].term = BamTerm(values) /\ values \in [1..n -> BOOLEAN]
      BY DEF Built, Assignments
    <2>2. values \in Seq(BOOLEAN) /\ Len(values) = n
      BY <1>2, <2>1
    <2>3. BamTerm(values) # <<>>
      BY <1>6, <2>2, FreeBam
    <2>4. endAt \in endAt..(endAt + n)
      BY <1>2, <1>3
    <2> QED
      BY <1>5, <2>1, <2>3, <2>4
  <1>7. ASSUME NEW k \in 1..n PROVE BavInit(k).term \in Asserted(script, q)
    <2>1. n + 1 - k \in 1..n /\ n + 1 - (n + 1 - k) = k
          /\ endAt + (n + 1 - k) \in endAt..(endAt + n)
      BY <1>2, <1>3
    <2>2. script[endAt + (n + 1 - k)] = BavInit(k)
      BY <1>2, <1>4, <2>1 DEF InsertedLast
    <2>3. BavInit(k).term # <<>>
      <3>1. bexps[k] \in Seq(Node)
        BY LenProperties, ElementOfSeq DEF TypeOK, NumBavs
      <3>2. BavInit(k).term = <<Leaf(BavName(k))>> \o bexps[k]
                                \o <<Apply(Op("="), Len(bexps[k]) + 2)>>
        BY DEF BavInit, AssertThat, Cmd
      <3>3. Leaf(BavName(k)) \in Node /\ Apply(Op("="), Len(bexps[k]) + 2) \in Node
        BY <1>2, <3>1, LeafType, NameType, OpType, LenProperties
      <3>4. Len(BavInit(k).term) = Len(bexps[k]) + 2
        BY <3>1, <3>2, <3>3
      <3>5. Len(<<>>) = 0 /\ Len(bexps[k]) \in Nat
        BY <3>1, LenProperties
      <3> QED
        BY <3>4, <3>5
    <2> QED
      BY <1>5, <2>1, <2>2, <2>3
  <1> QED
    BY <1>6, <1>7

\* An environment that is extended has values for both sets of names.
LEMMA ExtendedType ==
    ASSUME NEW V, NEW W, NEW e \in Environments(V), NEW h \in Environments(W)
    PROVE  /\ Extended(e, h) \in Environments(V \cup W)
           /\ Extends(Extended(e, h), e, V)
  <1>1. DOMAIN e = V /\ DOMAIN h = W
    BY DEF Environments
  <1> QED
    BY <1>1 DEF Extended, Extends, Environments

\* Where a variant is satisfied, every boolean operation has the truth value
\* of its name, and the name that of the variant.
LEMMA CopyDecided ==
    ASSUME TypeOK, Built, phase = "ready",
           NEW env \in Environments(Unknowns \cup GenNames),
           NEW b \in Environments(BavNames),
           Satisfies(Extended(env, b), script, FirstQuery(script)),
           NEW k \in 1..NumBavs
    PROVE  (Value(bexps[k], env) = 1) = values[k]
  <1> DEFINE U == Unknowns \cup GenNames
             e == Extended(env, b)
             V == U \cup BavNames
             t == bexps[k]
             x == BavName(k)
  <1>1. e \in Environments(V) /\ Extends(e, env, U) /\ e \in [V -> Domain]
    <2>1. e \in Environments(V) /\ Extends(e, env, U)
      BY ExtendedType
    <2> QED
      BY <2>1 DEF Environments
  <1>2. /\ t \in Seq(Node) /\ Len(t) >= 1 /\ WellSized(t)
        /\ t[Len(t)].size = Len(t) /\ Speaks(t, U)
    <2>1. Parsed(BeforeDecls)
      BY DEF Built
    <2> QED
      BY <2>1, CopyTree
  <1>3. values \in Seq(BOOLEAN) /\ Len(values) = NumBavs /\ NumBavs >= 1 /\ k \in Nat
    <2>1. values \in [1..NumBavs -> BOOLEAN]
      BY DEF Built, Assignments
    <2>2. NumBavs \in Nat
      BY PartsType
    <2> QED
      BY <2>1, <2>2
  <1>4. \A j \in 1..NumBavs : BavName(j) \in V
    BY DEF BavNames
  <1>5. x \in V \cap Symbol /\ x \notin Builtin
    <2>1. x \in Symbol
      BY <1>3, NameType
    <2>2. x \in BavNames
      BY DEF BavNames
    <2> QED
      BY <2>1, <2>2, GeneratedApart
  <1> HIDE DEF e, U, V, t, x
  <1>6. /\ BamTerm(values) \in Asserted(script, FirstQuery(script))
        /\ BavInit(k).term \in Asserted(script, FirstQuery(script))
    BY <1>3, InsertedAsserted
  <1>7. Value(BamTerm(values), e) = 1 /\ Value(BavInit(k).term, e) = 1
    BY <1>6 DEF Satisfies, e
  <1>8. e[x] = Bit(values[k])
    <2>1. \A j \in 1..Len(values) : e[BavName(j)] = Bit(values[j])
      BY <1>1, <1>3, <1>4, <1>7, BamValue
    <2> QED
      BY <1>3, <2>1 DEF x
  <1>9. e[x] = Value(t, e)
    <2>1. BavInit(k).term = <<Leaf(x)>> \o t \o <<Apply(Op("="), Len(t) + 2)>>
      BY DEF BavInit, AssertThat, Cmd, x, t
    <2>2. Speaks(t, V)
      BY <1>2 DEF Speaks, V
    <2> QED
      BY <1>1, <1>2, <1>5, <1>7, <2>1, <2>2, EquationValue
  <1>10. Value(t, env) = Value(t, e)
    <2>1. U \subseteq V /\ env \in Environments(U)
      BY DEF U, V
    <2>2. e \in Environments(V) /\ Extends(e, env, U)
      BY <1>1
    <2>3. t \in Seq(Node) /\ Len(t) >= 1 /\ WellSized(t) /\ Speaks(t, U)
      BY <1>2
    <2> QED
      BY <2>1, <2>2, <2>3, Coincidence
  <1>11. values[k] \in BOOLEAN
    BY <1>3
  <1> QED
    BY <1>8, <1>9, <1>10, <1>11 DEF Bit, t

\* Every environment is a model of one variant at most: of the one whose
\* truth values its boolean operations have.
THEOREM Disjoint == Spec => []VariantsDisjoint
  <1>1. TypeOK /\ Built => VariantsDisjoint
    <2> SUFFICES ASSUME TypeOK, Built, Meaningful,
                        NEW env \in Environments(Unknowns \cup GenNames), Accepts(env),
                        NEW k \in 1..NumBavs
                 PROVE  (Value(bexps[k], env) = 1) = values[k]
      BY DEF VariantsDisjoint
    <2>1. PICK b \in Environments(BavNames) :
            Satisfies(Extended(env, b), script, FirstQuery(script))
      BY DEF Accepts
    <2> QED
      BY <2>1, CopyDecided DEF Meaningful
  <1> QED
    BY <1>1, TypeCorrect, WellBuilt, PTL

-----------------------------------------------------------------------------
(* The numbers of constants and boolean operations.                        *)

\* A sample has finitely many nodes, at positions of commands and terms.
LEMMA FiniteNodes ==
    ASSUME TypeOK
    PROVE  IsFiniteSet(Nodes(source)) /\ Nodes(source) \subseteq Nat \X Nat
  <1> DEFINE D == DOMAIN source
             Row(c) == {c} \X DOMAIN source[c].term
             f == [c \in D |-> Row(c)]
             T == {Row(c) : c \in D}
  <1>1. D = 1..Len(source) /\ Len(source) \in Nat
    BY SourceType, LenProperties
  <1>2. IsFiniteSet(D)
    BY <1>1, FS_Interval
  <1>3. ASSUME NEW c \in D PROVE IsFiniteSet(Row(c)) /\ Row(c) \subseteq Nat \X Nat
    <2>1. source[c].term \in Seq(Node)
      BY SourceType
    <2>2. DOMAIN source[c].term = 1..Len(source[c].term) /\ Len(source[c].term) \in Nat
      BY <2>1, LenProperties
    <2>3. IsFiniteSet(DOMAIN source[c].term) /\ DOMAIN source[c].term \subseteq Nat
      BY <2>2, FS_Interval
    <2>4. IsFiniteSet({c})
      BY FS_Singleton, Zenon
    <2>5. {c} \subseteq Nat
      BY <1>1
    <2> QED
      BY <2>3, <2>4, <2>5, FS_Product
  <1>4. f \in Surjection(D, T)
    BY DEF Surjection
  <1>5. IsFiniteSet(T)
    BY <1>2, <1>4, FS_Surjection
  <1>6. \A R \in T : IsFiniteSet(R) /\ R \subseteq Nat \X Nat
    BY <1>3
  <1>7. Nodes(source) = UNION T
    BY DEF Nodes
  <1> HIDE DEF T
  <1> QED
    BY <1>5, <1>6, <1>7, FS_UNION

\* The nodes are in line.
LEMMA BeforeOrders ==
    ASSUME NEW p \in Nat \X Nat, NEW q \in Nat \X Nat
    PROVE  /\ p = q \/ Before(p, q) \/ Before(q, p)
           /\ ~Before(p, p)
           /\ \A r \in Nat \X Nat : Before(r, p) /\ Before(p, q) => Before(r, q)
  BY DEF Before

\* Each of some nodes has its number, and each number its node.
LEMMA Numbering ==
    ASSUME NEW S \in SUBSET (Nat \X Nat), IsFiniteSet(S)
    PROVE  /\ \A p \in S : Number(p, S) \in 1..Cardinality(S)
           /\ \A p, q \in S : Number(p, S) = Number(q, S) => p = q
           /\ \A k \in 1..Cardinality(S) : Nth(S, k) \in S /\ Number(Nth(S, k), S) = k
           /\ \A p \in S : Nth(S, Number(p, S)) = p
  <1> DEFINE n == Cardinality(S)
             Below(p) == {q \in S : Before(q, p)}
  <1>1. n \in Nat
    BY FS_CardinalityType
  <1>2. ASSUME NEW p \in S
        PROVE  /\ IsFiniteSet(Below(p)) /\ Cardinality(Below(p)) \in Nat
               /\ Cardinality(Below(p) \cup {p}) = Cardinality(Below(p)) + 1
               /\ IsFiniteSet(Below(p) \cup {p})
    <2>1. Below(p) \in SUBSET S /\ p \notin Below(p)
      BY BeforeOrders
    <2>2. IsFiniteSet(Below(p))
      BY <2>1, FS_Subset
    <2> HIDE DEF Below
    <2> QED
      BY <2>1, <2>2, FS_CardinalityType, FS_AddElement
  <1>3. ASSUME NEW p \in S PROVE Number(p, S) \in 1..n
    <2>1. Below(p) \cup {p} \in SUBSET S
      OBVIOUS
    <2>2. Cardinality(Below(p) \cup {p}) <= n
      BY <2>1, FS_Subset
    <2>3. Number(p, S) = Cardinality(Below(p)) + 1
      BY DEF Number
    <2> HIDE DEF Below, n
    <2> QED
      BY <1>1, <1>2, <2>2, <2>3
  <1>4. ASSUME NEW p \in S, NEW q \in S, Before(p, q) PROVE Number(p, S) # Number(q, S)
    <2>1. Below(p) \cup {p} \in SUBSET Below(q)
      BY <1>4, BeforeOrders
    <2>2. Cardinality(Below(p) \cup {p}) <= Cardinality(Below(q))
      BY <1>2, <2>1, FS_Subset
    <2>3. Number(p, S) = Cardinality(Below(p)) + 1 /\ Number(q, S) = Cardinality(Below(q)) + 1
      BY DEF Number
    <2>4. /\ Cardinality(Below(p)) \in Nat /\ Cardinality(Below(q)) \in Nat
          /\ Cardinality(Below(p) \cup {p}) = Cardinality(Below(p)) + 1
      BY <1>2
    <2> HIDE DEF Below
    <2> QED
      BY <2>2, <2>3, <2>4
  <1>5. ASSUME NEW p \in S, NEW q \in S, Number(p, S) = Number(q, S) PROVE p = q
    BY <1>4, <1>5, BeforeOrders
  <1>6. ASSUME NEW k \in 1..n PROVE \E p \in S : Number(p, S) = k
    <2> DEFINE f == [p \in S |-> Number(p, S)]
    <2>1. f \in Injection(S, 1..n)
      BY <1>3, <1>5 DEF Injection, IsInjective
    <2>2. IsFiniteSet(1..n) /\ Cardinality(1..n) = n
      BY <1>1, FS_Interval
    <2> HIDE DEF f
    <2>3. f \in Surjection(S, 1..n)
      BY <2>1, <2>2, FS_Injection
    <2> QED
      BY <2>3 DEF Surjection, f
  <1>7. \A k \in 1..n : Nth(S, k) \in S /\ Number(Nth(S, k), S) = k
    BY <1>6 DEF Nth
  <1> QED
    BY <1>3, <1>5, <1>7

\* The number of the current node is one more than those of its kind left.
LEMMA NumberHere ==
    ASSUME IInv, ExitTerm, NEW S \in SUBSET Nodes(source)
    PROVE  LET here == <<cmd, node>>
               n == Cardinality(S \cap ExitedNodes)
           IN  /\ n \in Nat
               /\ Number(here, S) = n + 1
               /\ here \in S => Cardinality(S \cap ExitedNodes') = n + 1
               /\ here \notin S => S \cap ExitedNodes' = S \cap ExitedNodes
               /\ S \cap ExitedNodes' \subseteq (S \cap ExitedNodes) \cup {here}
  <1> DEFINE here == <<cmd, node>>
             E == S \cap ExitedNodes
  <1>1. IsFiniteSet(S) /\ S \subseteq Nodes(source)
    BY FiniteNodes, FS_Subset DEF IInv
  <1>2. IsFiniteSet(E) /\ Cardinality(E) \in Nat
    <2>1. E \in SUBSET S
      OBVIOUS
    <2> QED
      BY <1>1, <2>1, FS_Subset, FS_CardinalityType
  <1>3. {q \in S : Before(q, here)} = E
    <2>1. here[1] = cmd /\ here[2] = node
      OBVIOUS
    <2>2. \A q : Before(q, here) <=> Exited(q[1], q[2])
      BY <2>1 DEF Before, Exited
    <2> QED
      BY <1>1, <2>2 DEF ExitedNodes
  <1>4. ExitedNodes' = ExitedNodes \cup {here} /\ here \notin ExitedNodes
    BY ExitedGrows, AtNode DEF ExitTerm
  <1>5. ASSUME here \in S PROVE Cardinality(S \cap ExitedNodes') = Cardinality(E) + 1
    <2>1. S \cap ExitedNodes' = E \cup {here} /\ here \notin E
      BY <1>4, <1>5
    <2> HIDE DEF E
    <2> QED
      BY <1>2, <2>1, FS_AddElement
  <1> QED
    BY <1>2, <1>3, <1>4, <1>5 DEF Number

\* The kinds of the nodes of the sample do not change.
LEMMA KindsStay ==
    ASSUME source' = source
    PROVE  /\ SourceConstants' = SourceConstants /\ SourceBools' = SourceBools
           /\ \A p, S : Number(p, S)' = Number(p, S)
  BY DEF SourceConstants, SourceBools, Nodes, IsConstant, IsBoolOp, NodeAt, Number, Before

LEMMA KindsOfNodes ==
    /\ SourceConstants \in SUBSET Nodes(source)
    /\ SourceBools \in SUBSET Nodes(source)
    /\ SourceConstants \cap SourceBools = {}
  BY DEF SourceConstants, SourceBools, IsConstant, IsBoolOp, Constants

\* Replacing a constant leaves what the parser has left before.
LEMMA ReplaceStep ==
    ASSUME IInv, ExitTerm, ReplaceConstant
    PROVE  LET here == <<cmd, node>>
           IN  /\ here \in SourceConstants /\ here \notin SourceBools
               /\ NodeAt(script', here) = Leaf(GenName(counter + 1))
               /\ \A p \in ExitedNodes : NodeAt(script', p) = NodeAt(script, p)
               /\ \A p \in SourceBools \cap ExitedNodes :
                    SubtreeAt(script', p) = SubtreeAt(script, p)
  <1> DEFINE here == <<cmd, node>>
  <1>1. /\ cmd \in DOMAIN source /\ node \in DOMAIN source[cmd].term
        /\ Current = source[cmd].term[node]
        /\ here \in Nodes(source) /\ here \notin ExitedNodes
        /\ phase = "parse"
    BY AtNode DEF ExitTerm, Parsing
  <1>2. here \in SourceConstants /\ here \notin SourceBools
    <2>1. IsConstant(source, here)
      BY <1>1 DEF ReplaceConstant, IsConstant, NodeAt
    <2> QED
      BY <1>1, <2>1, KindsOfNodes DEF SourceConstants
  <1>3. script' = Replaced(counter + 1) /\ counter + 1 \in Nat
    BY DEF ReplaceConstant, IInv, TypeOK
  <1>4. /\ DOMAIN script = DOMAIN source
        /\ \A c \in DOMAIN source : DOMAIN script[c].term = DOMAIN source[c].term
    BY <1>1 DEF IInv, OnlyConstantsReplaced
  <1>5. \A c \in DOMAIN source : \A n \in DOMAIN source[c].term :
           script'[c].term[n] = IF c = cmd /\ n = node THEN Leaf(GenName(counter + 1))
                                ELSE script[c].term[n]
    <2>1. TypeOK /\ cmd \in DOMAIN script /\ node \in DOMAIN script[cmd].term
      BY <1>1, <1>4 DEF IInv
    <2> DEFINE k == counter + 1
    <2>2. k \in Nat
      BY <1>3
    <2> HIDE DEF k
    <2>3. \A c \in DOMAIN script : \A n \in DOMAIN script[c].term :
             Replaced(k)[c].term[n] = IF c = cmd /\ n = node THEN Leaf(GenName(k))
                                                          ELSE script[c].term[n]
      BY <2>1, <2>2, ReplacedNodes
    <2> QED
      BY <1>3, <1>4, <2>3 DEF k
  <1>6. NodeAt(script', here) = Leaf(GenName(counter + 1))
    BY <1>1, <1>5 DEF NodeAt
  <1>7. ASSUME NEW p \in ExitedNodes PROVE NodeAt(script', p) = NodeAt(script, p)
    <2>1. p \in Nodes(source) /\ p # here
      BY <1>1 DEF ExitedNodes
    <2> QED
      BY <1>5, <2>1, NodesElim DEF NodeAt
  <1>8. ASSUME NEW p \in SourceBools \cap ExitedNodes
        PROVE  SubtreeAt(script', p) = SubtreeAt(script, p)
    <2>1. ChangedHere(script')
      BY <1>5 DEF ChangedHere
    <2>2. p \in ExitedNodes /\ IsBoolOp(source, p)
      BY DEF SourceBools
    <2> QED
      BY <1>1, <2>1, <2>2, SubtreeKept
  <1> QED
    BY <1>2, <1>6, <1>7, <1>8

LEMMA ReplaceNumbered ==
    ASSUME IInv, Numbered, ExitTerm, ReplaceConstant
    PROVE  Numbered'
  <1> DEFINE here == <<cmd, node>>
             C == SourceConstants
             B == SourceBools
             E == ExitedNodes
  <1>1. /\ phase = "parse" /\ phase' = "parse" /\ source' = source /\ bexps' = bexps
        /\ counter' = counter + 1
    BY DEF ExitTerm, Parsing, ReplaceConstant
  <1>2. /\ BeforeDecls = script /\ BeforeDecls' = script' /\ NumBavs' = NumBavs
        /\ C' = C /\ B' = B
    BY <1>1, KindsStay DEF BeforeDecls, NumBavs
  <1>3. /\ counter = Cardinality(C \cap E) /\ NumBavs = Cardinality(B \cap E)
        /\ \A p \in C \cap E : NodeAt(script, p) = Leaf(GenName(Number(p, C)))
        /\ \A p \in B \cap E : bexps[Number(p, B)] = SubtreeAt(script, p)
    BY <1>2 DEF Numbered
  <1>4. /\ here \in C /\ here \notin B
        /\ NodeAt(script', here) = Leaf(GenName(counter + 1))
        /\ \A p \in E : NodeAt(script', p) = NodeAt(script, p)
        /\ \A p \in B \cap E : SubtreeAt(script', p) = SubtreeAt(script, p)
    BY ReplaceStep
  <1>5. /\ Number(here, C) = counter + 1
        /\ Cardinality(C \cap E') = counter + 1
        /\ C \cap E' \subseteq (C \cap E) \cup {here}
    BY <1>3, <1>4, NumberHere, KindsOfNodes
  <1>6. B \cap E' = B \cap E
    BY <1>4, NumberHere, KindsOfNodes
  <1>7. \A p \in C \cap E' : NodeAt(script', p) = Leaf(GenName(Number(p, C)))
    BY <1>3, <1>4, <1>5
  <1>8. \A p \in B \cap E' : bexps'[Number(p, B)] = SubtreeAt(script', p)
    BY <1>1, <1>3, <1>4, <1>6
  <1>9. \A p, S : Number(p, S)' = Number(p, S)
    BY <1>1, KindsStay
  <1>10. /\ \A p \in C' \cap E' : NodeAt(BeforeDecls', p) = Leaf(GenName(Number(p, C')))
         /\ \A p \in B' \cap E' : bexps'[Number(p, B')] = SubtreeAt(BeforeDecls', p)
         /\ counter' = Cardinality(C' \cap E') /\ NumBavs' = Cardinality(B' \cap E')
    BY <1>1, <1>2, <1>3, <1>5, <1>6, <1>7, <1>8
  <1> QED
    BY <1>1, <1>10 DEF Numbered, NodeAt, SubtreeAt, Number, Before

LEMMA CopyNumbered ==
    ASSUME IInv, Numbered, ExitTerm, CopyTerm
    PROVE  Numbered'
  <1> DEFINE here == <<cmd, node>>
             C == SourceConstants
             B == SourceBools
             E == ExitedNodes
             t == SubtreeAt(script, here)
  <1>1. /\ phase = "parse" /\ phase' = "parse" /\ source' = source /\ script' = script
        /\ counter' = counter /\ bexps' = Append(bexps, t)
    BY DEF ExitTerm, Parsing, CopyTerm, SubtreeAt
  <1>2. /\ BeforeDecls = script /\ BeforeDecls' = script /\ C' = C /\ B' = B
    BY <1>1, KindsStay DEF BeforeDecls
  <1>3. /\ counter = Cardinality(C \cap E) /\ NumBavs = Cardinality(B \cap E)
        /\ \A p \in C \cap E : NodeAt(script, p) = Leaf(GenName(Number(p, C)))
        /\ \A p \in B \cap E : bexps[Number(p, B)] = SubtreeAt(script, p)
    BY <1>2 DEF Numbered
  <1>4. here \in B /\ here \notin C /\ here \notin E
    <2>1. /\ Current = source[cmd].term[node]
          /\ here \in Nodes(source) /\ here \notin E
      BY AtNode DEF ExitTerm
    <2>2. IsBoolOp(source, here)
      BY <2>1 DEF CopyTerm, IsBoolOp, NodeAt
    <2> QED
      BY <2>1, <2>2, KindsOfNodes DEF SourceBools
  <1>5. /\ Number(here, B) = NumBavs + 1 /\ NumBavs \in Nat
        /\ Cardinality(B \cap E') = NumBavs + 1
        /\ B \cap E' \subseteq (B \cap E) \cup {here}
    BY <1>3, <1>4, NumberHere, KindsOfNodes
  <1>6. C \cap E' = C \cap E
    BY <1>4, NumberHere, KindsOfNodes
  <1>7. /\ NumBavs' = NumBavs + 1 /\ bexps'[NumBavs + 1] = t
        /\ \A k \in 1..NumBavs : bexps'[k] = bexps[k]
    <2>1. /\ Len(Append(bexps, t)) = Len(bexps) + 1
          /\ Append(bexps, t)[Len(bexps) + 1] = t
          /\ \A k \in 1..Len(bexps) : Append(bexps, t)[k] = bexps[k]
      <3>1. bexps \in Seq(Seq(Node) \cup {t})
        BY DEF IInv, TypeOK
      <3> HIDE DEF t
      <3> QED
        BY <3>1, AppendProperties, LenProperties
    <2> QED
      BY <1>1, <2>1 DEF NumBavs
  <1>8. \A p \in B \cap E : Number(p, B) \in 1..NumBavs
    <2>1. B \in SUBSET (Nat \X Nat) /\ IsFiniteSet(B)
      BY KindsOfNodes, FiniteNodes, FS_Subset DEF IInv
    <2>2. \A p, q \in B : Number(p, B) \in Nat /\ Number(p, B) >= 1
      BY <2>1, Numbering, FS_CardinalityType
    <2>3. ASSUME NEW p \in B \cap E PROVE Number(p, B) <= NumBavs
      <3> DEFINE L == {q \in B : Before(q, p)}
      <3>1. L \cup {p} \in SUBSET (B \cap E)
        <4>1. p \in Nat \X Nat /\ cmd \in Nat /\ node \in Nat /\ p \in Nodes(source)
          BY <2>1 DEF IInv, TypeOK, ExitedNodes
        <4>2. Exited(p[1], p[2])
          BY DEF ExitedNodes
        <4>3. \A q \in L : q \in Nat \X Nat /\ q \in Nodes(source) /\ Before(q, p)
          BY <2>1, KindsOfNodes
        <4>4. \A q \in L : Exited(q[1], q[2])
          BY <4>1, <4>2, <4>3 DEF Exited, Before
        <4> QED
          BY <4>3, <4>4 DEF ExitedNodes
      <3>2. L \in SUBSET B /\ p \notin L
        BY <2>1, BeforeOrders
      <3>3. IsFiniteSet(L) /\ IsFiniteSet(B \cap E)
        BY <2>1, <3>2, FS_Subset, FS_Intersection
      <3>4. Number(p, B) = Cardinality(L) + 1
        BY DEF Number
      <3> HIDE DEF L, B, E
      <3>5. Cardinality(L \cup {p}) = Cardinality(L) + 1
        BY <3>2, <3>3, FS_AddElement
      <3>6. Cardinality(L \cup {p}) <= Cardinality(B \cap E)
        BY <3>1, <3>3, FS_Subset
      <3> QED
        BY <1>3, <3>4, <3>5, <3>6
    <2> QED
      BY <1>5, <2>2, <2>3
  <1>9. \A p \in B \cap E' : bexps'[Number(p, B)] = SubtreeAt(script, p)
    <2>1. ASSUME NEW p \in B \cap E PROVE bexps'[Number(p, B)] = SubtreeAt(script, p)
      BY <1>3, <1>7, <1>8
    <2>2. bexps'[Number(here, B)] = SubtreeAt(script, here)
      BY <1>5, <1>7
    <2> QED
      BY <1>5, <2>1, <2>2
  <1>10. /\ \A p \in C' \cap E' : NodeAt(BeforeDecls', p) = Leaf(GenName(Number(p, C')))
         /\ \A p \in B' \cap E' : bexps'[Number(p, B')] = SubtreeAt(BeforeDecls', p)
         /\ counter' = Cardinality(C' \cap E') /\ NumBavs' = Cardinality(B' \cap E')
    BY <1>1, <1>2, <1>3, <1>5, <1>6, <1>7, <1>9
  <1> QED
    BY <1>1, <1>10 DEF Numbered, NodeAt, SubtreeAt, Number, Before

\* What leaves no constant and no boolean operation, and keeps the tree.
LEMMA StayNumbered ==
    ASSUME Numbered, UNCHANGED <<source, counter, bexps>>, BeforeDecls' = BeforeDecls,
           SourceConstants \cap ExitedNodes' = SourceConstants \cap ExitedNodes,
           SourceBools \cap ExitedNodes' = SourceBools \cap ExitedNodes,
           phase' # "parse" => cmd' > Len(source)
    PROVE  Numbered'
  <1> DEFINE C == SourceConstants
             B == SourceBools
             d == BeforeDecls
  <1>1. C' = C /\ B' = B /\ NumBavs' = NumBavs /\ d' = d
    BY KindsStay DEF NumBavs
  <1>2. /\ counter = Cardinality(C \cap ExitedNodes) /\ NumBavs = Cardinality(B \cap ExitedNodes)
        /\ \A p \in C \cap ExitedNodes : NodeAt(d, p) = Leaf(GenName(Number(p, C)))
        /\ \A p \in B \cap ExitedNodes : bexps[Number(p, B)] = SubtreeAt(d, p)
    BY DEF Numbered
  <1> HIDE DEF C, B, d
  <1>3. /\ counter' = Cardinality(C' \cap ExitedNodes') /\ NumBavs' = Cardinality(B' \cap ExitedNodes')
        /\ \A p \in C' \cap ExitedNodes' : NodeAt(d', p) = Leaf(GenName(Number(p, C')))
        /\ \A p \in B' \cap ExitedNodes' : bexps'[Number(p, B')] = SubtreeAt(d', p)
    BY <1>1, <1>2 DEF C, B
  <1> QED
    BY <1>3 DEF Numbered, NodeAt, SubtreeAt, Number, Before, C, B, d

LEMMA NumberedNext == IInv /\ Built /\ Numbered /\ [Next]_vars => Numbered'
  <1> SUFFICES ASSUME IInv, Built, Numbered, [Next]_vars PROVE Numbered'
    OBVIOUS
  <1>1. CASE ExitTerm
    <2>1. CASE LeaveAlone
      <3>1. /\ phase = "parse" /\ phase' = "parse"
            /\ UNCHANGED <<source, script, counter, bexps>>
        BY <1>1, <2>1 DEF ExitTerm, Parsing, LeaveAlone
      <3>2. BeforeDecls' = BeforeDecls
        BY <3>1 DEF BeforeDecls
      <3>3. <<cmd, node>> \notin SourceConstants /\ <<cmd, node>> \notin SourceBools
        <4>1. Current = source[cmd].term[node]
          BY <1>1, AtNode DEF ExitTerm
        <4> QED
          BY <2>1, <4>1 DEF LeaveAlone, SourceConstants, SourceBools, IsConstant, IsBoolOp, NodeAt
      <3>4. /\ SourceConstants \cap ExitedNodes' = SourceConstants \cap ExitedNodes
            /\ SourceBools \cap ExitedNodes' = SourceBools \cap ExitedNodes
        BY <1>1, <3>3, NumberHere, KindsOfNodes
      <3> QED
        BY <3>1, <3>2, <3>4, StayNumbered
    <2> QED
      BY <1>1, <2>1, ReplaceNumbered, CopyNumbered DEF ExitTerm
  <1>2. CASE NextCommand
    <2>1. /\ phase = "parse" /\ phase' = "parse"
          /\ UNCHANGED <<source, script, counter, bexps>>
      BY <1>2 DEF NextCommand, Parsing
    <2>2. BeforeDecls' = BeforeDecls
      BY <2>1 DEF BeforeDecls
    <2>3. ExitedNodes' = ExitedNodes
      BY <1>2, NextExited
    <2> QED
      BY <2>1, <2>2, <2>3, StayNumbered
  <1>3. CASE InsertDecls \/ InsertInits \/ \E f \in Assignments : SetAssertion(f)
    <2>1. BeforeDecls' = BeforeDecls
      BY <1>3, BuiltDecls, BuiltInits, BuiltAssertion
    <2>2. UNCHANGED <<source, cmd, node, counter, bexps>>
      BY <1>3 DEF InsertDecls, InsertInits, SetAssertion
    <2>3. ExitedNodes' = ExitedNodes
      BY <2>2 DEF ExitedNodes, Exited, Nodes
    <2>4. cmd > Len(source)
      <3>1. CASE InsertDecls
        <4>1. /\ DOMAIN script = DOMAIN source /\ script \in Seq(Command)
              /\ source \in Seq(Command)
          BY <3>1, SourceType DEF InsertDecls, IInv, TypeOK, IsScript, OnlyConstantsReplaced
        <4>2. Len(script) = Len(source)
          BY <4>1
        <4> QED
          BY <3>1, <4>2 DEF InsertDecls
      <3>2. CASE InsertInits \/ \E f \in Assignments : SetAssertion(f)
        BY <3>2 DEF InsertInits, SetAssertion, Numbered
      <3> QED
        BY <1>3, <3>1, <3>2
    <2> QED
      BY <2>1, <2>2, <2>3, <2>4, StayNumbered
  <1>4. CASE UNCHANGED vars
    <2>1. UNCHANGED <<source, script, cmd, node, counter, bexps, phase, startAt, endAt, newVars>>
      BY <1>4 DEF vars
    <2>2. BeforeDecls' = BeforeDecls
      BY <2>1 DEF BeforeDecls, BeforeInits, Unsplice, NumBavs, Decls
    <2>3. ExitedNodes' = ExitedNodes
      BY <2>1 DEF ExitedNodes, Exited, Nodes
    <2>4. phase' # "parse" => cmd' > Len(source)
      BY <2>1 DEF Numbered
    <2> QED
      BY <2>1, <2>2, <2>3, <2>4, StayNumbered
  <1> QED
    BY <1>1, <1>2, <1>3, <1>4 DEF Next

\* The k-th constant has the k-th made up name, and the k-th copied term is
\* the k-th boolean operation (lib.rs:289-292, 313-335).
THEOREM InNumberedOrder == Spec => []Numbered
  <1>1. Init => Numbered
    <2> SUFFICES ASSUME Init PROVE Numbered
      OBVIOUS
    <2>1. ExitedNodes = {} /\ phase = "parse" /\ counter = 0 /\ bexps = <<>>
      BY InitExited DEF Init
    <2>2. NumBavs = 0
      BY <2>1 DEF NumBavs
    <2>3. Cardinality({}) = 0
      BY FS_EmptySet
    <2> QED
      BY <2>1, <2>2, <2>3 DEF Numbered
  <1> QED
    BY <1>1, Inductive, WellBuilt, NumberedNext, PTL DEF Spec

-----------------------------------------------------------------------------
(* What the sample's own assertions become.                                *)

\* An insertion adds its own assertions to those of a query.
LEMMA AssertedSpliced ==
    ASSUME NEW r, NEW s, NEW i, NEW t, Spliced(r, s, i, t), NEW m \in 1..(Len(r) + 1)
    PROVE  /\ Asserted(s, Origin(m, i, Len(t))) \subseteq Asserted(r, m)
           /\ \A x \in Asserted(r, m) :
                \/ x \in Asserted(s, Origin(m, i, Len(t)))
                \/ \E p \in 1..Len(t) : t[p].kind = "assert" /\ x = t[p].term
  <1> DEFINE n == Len(t)
             o == Origin(m, i, n)
  <1>1. DOMAIN s = 1..Len(s) /\ DOMAIN r = 1..Len(r)
    BY SplicedType
  <1>2. \A j \in 1..Len(s) : Survives(r, Shift(j, i, n), m) <=> Survives(s, j, o)
    BY SurvivesSpliced
  <1>3. /\ \A j \in 1..Len(s) : Shift(j, i, n) \in 1..Len(r) /\ r[Shift(j, i, n)] = s[j]
        /\ \A p \in 1..n : r[i - 1 + p] = t[p]
        /\ \A x \in 1..Len(r) : \/ \E j \in 1..Len(s) : x = Shift(j, i, n)
                                \/ \E p \in 1..n : x = i - 1 + p
    BY IndexSpliced
  <1> HIDE DEF n, o
  <1>4. ASSUME NEW y \in Asserted(s, o) PROVE y \in Asserted(r, m)
    <2>1. PICK j \in 1..Len(s) : /\ s[j].kind = "assert" /\ s[j].term # <<>>
                                 /\ Survives(s, j, o) /\ y = s[j].term
      BY <1>1 DEF Asserted
    <2> QED
      BY <1>1, <1>2, <1>3, <2>1 DEF Asserted
  <1>5. ASSUME NEW y \in Asserted(r, m)
        PROVE  \/ y \in Asserted(s, o)
               \/ \E p \in 1..n : t[p].kind = "assert" /\ y = t[p].term
    <2>1. PICK x \in 1..Len(r) : /\ r[x].kind = "assert" /\ r[x].term # <<>>
                                 /\ Survives(r, x, m) /\ y = r[x].term
      BY <1>1 DEF Asserted
    <2>2. ASSUME NEW j \in 1..Len(s), x = Shift(j, i, n) PROVE y \in Asserted(s, o)
      <3>1. r[x] = s[j] /\ Survives(s, j, o)
        BY <1>2, <1>3, <2>1, <2>2
      <3> QED
        BY <1>1, <2>1, <3>1 DEF Asserted
    <2>3. CASE \E p \in 1..n : x = i - 1 + p
      BY <1>3, <2>1, <2>3
    <2> QED
      BY <1>3, <2>2, <2>3
  <1> QED
    BY <1>4, <1>5 DEF n, o

\* An insertion without check-sat leaves the first query what it was.
LEMMA QuerySpliced ==
    ASSUME NEW r, NEW s, NEW i, NEW t, Spliced(r, s, i, t),
           \A p \in 1..Len(t) : t[p].kind # "check-sat"
    PROVE  /\ FirstQuery(r) \in 1..(Len(r) + 1)
           /\ Origin(FirstQuery(r), i, Len(t)) = FirstQuery(s)
           /\ FirstQuery(r) = Shift(FirstQuery(s), i, Len(t))
  <1> DEFINE n == Len(t)
             f == FirstQuery(s)
             q == IF f < i THEN f ELSE f + n
  <1>1. /\ Len(s) \in Nat /\ n \in Nat /\ Len(r) = Len(s) + n
        /\ i \in Nat /\ i >= 1 /\ i <= Len(s) + 1
        /\ s \in Seq(Command) /\ r \in Seq(Command)
    BY SplicedType DEF Spliced
  <1>2. /\ \A k \in 1..(i - 1) : r[k] = s[k]
        /\ \A k \in 1..n : r[i - 1 + k] = t[k]
        /\ \A k \in i..Len(s) : r[k + n] = s[k]
    BY DEF Spliced, Inserted
  <1>3. /\ f \in 1..(Len(s) + 1)
        /\ \A j \in 1..(f - 1) : s[j].kind # "check-sat"
        /\ f <= Len(s) => s[f].kind = "check-sat"
    BY <1>1, FirstQueryIs
  <1> HIDE DEF n, f
  <1>4. q \in 1..(Len(r) + 1) /\ q \in Nat
    BY <1>1, <1>3
  <1>5. ASSUME NEW j \in 1..(q - 1) PROVE r[j].kind # "check-sat"
    <2>1. CASE j < i
      <3>1. j \in 1..(i - 1) /\ j \in 1..(f - 1)
        BY <1>1, <1>3, <2>1
      <3> QED
        BY <1>2, <1>3, <3>1
    <2>2. CASE i <= j /\ j < i + n
      <3>1. j - (i - 1) \in 1..n /\ i - 1 + (j - (i - 1)) = j
        BY <1>1, <2>2
      <3> QED
        BY <1>2, <3>1 DEF n
    <2>3. CASE i + n <= j
      <3>1. ~(f < i)
        BY <1>1, <1>3, <2>3
      <3>2. j - n \in i..Len(s) /\ j - n \in 1..(f - 1) /\ (j - n) + n = j
        BY <1>1, <1>3, <2>3, <3>1
      <3> QED
        BY <1>2, <1>3, <3>2
    <2> QED
      BY <1>1, <1>4, <2>1, <2>2, <2>3
  <1>6. ASSUME q <= Len(r) PROVE r[q].kind = "check-sat"
    <2>1. CASE f < i
      <3>1. f \in 1..(i - 1) /\ f <= Len(s) /\ q = f
        BY <1>1, <1>3, <2>1
      <3> QED
        BY <1>2, <1>3, <3>1
    <2>2. CASE ~(f < i)
      <3>1. f \in i..Len(s) /\ f <= Len(s) /\ q = f + n
        BY <1>1, <1>3, <1>6, <2>2
      <3> QED
        BY <1>2, <1>3, <3>1
    <2> QED
      BY <2>1, <2>2
  <1>7. Origin(q, i, n) = f /\ q = Shift(f, i, n)
    BY <1>1, <1>3 DEF Origin, Shift
  <1> HIDE DEF q
  <1>8. FirstQuery(r) = q
    BY <1>1, <1>4, <1>5, <1>6, FirstQueryIs
  <1> QED
    BY <1>4, <1>7, <1>8 DEF n, f

\* The commands whose assertions the first check-sat of the sample is about.
Premises == {c \in 1..Len(source) : /\ source[c].kind = "assert"
                                    /\ source[c].term # <<>>
                                    /\ Survives(source, c, Query)}

\* In the parsed sample it is about the same commands.
LEMMA ParsedAsserts ==
    ASSUME TypeOK, NEW w, Parsed(w)
    PROVE  /\ FirstQuery(w) = Query /\ AfterLogic(w) = AfterLogic(source)
           /\ Asserted(w, Query) = {w[c].term : c \in Premises}
           /\ Asserted(source, Query) = {source[c].term : c \in Premises}
  <1>1. /\ source \in Seq(Command) /\ Len(source) \in Nat
        /\ w \in Seq(Command) /\ Len(w) = Len(source)
        /\ DOMAIN source = 1..Len(source) /\ DOMAIN w = 1..Len(source)
        /\ SameShape(w, source)
    BY SourceType, ParsedShape, LenProperties DEF SameShape
  <1>2. /\ \A j, m \in 1..(Len(source) + 1) : Survives(w, j, m) <=> Survives(source, j, m)
        /\ FirstQuery(w) = Query /\ AfterLogic(w) = AfterLogic(source)
    <2>3. SameScopes(w, source)
      BY <1>1, ShapeKept
    <2>1. \A j, m \in 1..(Len(source) + 1) : Survives(w, j, m) <=> Survives(source, j, m)
      BY <2>3 DEF SameScopes
    <2>2. FirstQuery(w) = Query /\ AfterLogic(w) = AfterLogic(source)
      BY <1>1, ShapeKept DEF Query
    <2> QED
      BY <2>1, <2>2
  <1>3. Query \in 1..(Len(source) + 1)
    BY <1>1, FirstQueryIs DEF Query
  <1>4. ASSUME NEW c \in 1..Len(source)
        PROVE  Survives(w, c, Query) <=> Survives(source, c, Query)
    <2>1. c \in 1..(Len(source) + 1)
      BY <1>1
    <2> QED
      BY <1>2, <1>3, <2>1
  <1>5. \A c \in 1..Len(source) : /\ w[c].kind = source[c].kind
                                  /\ w[c].term = <<>> <=> source[c].term = <<>>
    BY <1>1 DEF SameShape
  <1> QED
    BY <1>1, <1>2, <1>4, <1>5 DEF Asserted, Premises

\* The first query of a variant is about the sample's assertions, constants
\* replaced, and the inserted ones.
LEMMA VariantAsserts ==
    ASSUME TypeOK, Built, phase = "ready"
    PROVE  LET A == Asserted(script, FirstQuery(script))
           IN  /\ \A c \in Premises : BeforeDecls[c].term \in A
               /\ \A x \in A : \/ \E c \in Premises : x = BeforeDecls[c].term
                               \/ x = BamTerm(values)
                               \/ \E k \in 1..NumBavs : x = BavInit(k).term
  <1> DEFINE w == BeforeDecls
             d == BeforeInits
             y == script[endAt]
             g == Reverse(Decls)
             t == Reverse(Append(Inits, y))
             A == Asserted(script, FirstQuery(script))
  <1>1. /\ Parsed(w) /\ startAt = AfterLogic(w) /\ d = InsertEach(w, startAt, Decls)
        /\ endAt = FirstQuery(d) /\ y = AssertThat(BamTerm(values))
        /\ script = InsertEach(d, endAt, Append(Inits, y))
    BY DEF Built
  <1>2. /\ w \in Seq(Command) /\ startAt \in 1..(Len(w) + 1) /\ d \in Seq(Command)
        /\ endAt \in 1..(Len(d) + 1) /\ script \in Seq(Command) /\ y \in Command
    BY BuiltParts
  <1>3. /\ g \in Seq(Command) /\ \A p \in 1..Len(g) : g[p].kind = "declare"
        /\ Decls \in Seq(Command)
    BY DeclNames, DeclsType
  <1>4. /\ t \in Seq(Command)
        /\ \A p \in 1..Len(t) : t[p] = y \/ \E k \in 1..NumBavs : t[p] = BavInit(k)
    BY <1>2, QueryItems
  <1>5. Append(Inits, y) \in Seq(Command)
    BY <1>2, PartsType, AppendProperties
  <1>6. \A p \in 1..Len(t) : t[p].kind = "assert"
    <2>1. y.kind = "assert" /\ \A k : BavInit(k).kind = "assert"
      BY <1>1 DEF BavInit, AssertThat, Cmd
    <2> QED
      BY <1>4, <2>1
  <1>7. y.term = BamTerm(values)
    BY <1>1 DEF AssertThat, Cmd
  <1> HIDE DEF w, d, y
  <1>8. Spliced(d, w, startAt, g)
    <2>1. Inserted(InsertEach(w, startAt, Decls), w, startAt, Reverse(Decls))
      BY <1>2, <1>3, InsertItems
    <2> QED
      BY <1>1, <1>2, <1>3, <2>1 DEF Spliced, Resets
  <1>9. Spliced(script, d, endAt, t)
    <2>1. Inserted(InsertEach(d, endAt, Append(Inits, y)), d, endAt, Reverse(Append(Inits, y)))
      BY <1>2, <1>5, InsertItems
    <2> QED
      BY <1>1, <1>2, <1>4, <1>6, <2>1 DEF Spliced, Resets
  <1> HIDE DEF g, t
  <1>10. /\ FirstQuery(script) \in 1..(Len(script) + 1)
         /\ Origin(FirstQuery(script), endAt, Len(t)) = FirstQuery(d)
    BY <1>6, <1>9, QuerySpliced
  <1>11. /\ FirstQuery(d) \in 1..(Len(d) + 1)
         /\ Origin(FirstQuery(d), startAt, Len(g)) = FirstQuery(w)
    <2>1. \A p \in 1..Len(g) : g[p].kind # "check-sat"
      BY <1>3
    <2> QED
      BY <1>8, <2>1, QuerySpliced
  <1>12. /\ FirstQuery(w) = Query
         /\ Asserted(w, Query) = {w[c].term : c \in Premises}
    BY <1>1, ParsedAsserts
  <1>13. /\ Asserted(d, FirstQuery(d)) \subseteq A
         /\ \A x \in A : \/ x \in Asserted(d, FirstQuery(d))
                         \/ \E p \in 1..Len(t) : t[p].kind = "assert" /\ x = t[p].term
    BY <1>9, <1>10, AssertedSpliced
  <1>14. /\ Asserted(w, Query) \subseteq Asserted(d, FirstQuery(d))
         /\ \A x \in Asserted(d, FirstQuery(d)) :
              \/ x \in Asserted(w, Query)
              \/ \E p \in 1..Len(g) : g[p].kind = "assert" /\ x = g[p].term
    BY <1>8, <1>11, <1>12, AssertedSpliced
  <1>15. Asserted(d, FirstQuery(d)) = Asserted(w, Query)
    BY <1>3, <1>14
  <1>16. \A p \in 1..Len(t) : \/ t[p].term = BamTerm(values)
                              \/ \E k \in 1..NumBavs : t[p].term = BavInit(k).term
    BY <1>4, <1>7 DEF t
  <1> HIDE DEF A
  <1> QED
    BY <1>12, <1>13, <1>15, <1>16 DEF A, w

-----------------------------------------------------------------------------
(* What the sample's own terms mean where the constants have their values. *)

\* u is t with its constants replaced by names that have their values in f.
Restores(t, u, V, W, f) ==
    /\ Len(u) = Len(t)
    /\ \A i \in 1..Len(t) :
         IF t[i].kind \in Constants
         THEN /\ t[i].size = 1
              /\ \E g \in W \ Builtin : /\ u[i] = Leaf(g)
                                        /\ f[g] = t[i].sym[2]
                                        /\ \A k \in 1..Len(t) : g \notin t[k].bound
         ELSE /\ u[i] = t[i]
              /\ t[i].kind = "symbol" => t[i].sym \in Builtin \cup V

LEMMA LeafParts == \A g : Leaf(g).size = 1 /\ Leaf(g).sym = g
  BY DEF Leaf

\* Such a term has its value.
LEMMA RestoredValue ==
    ASSUME NEW t \in Seq(Node), NEW u \in Seq(Node), Len(t) >= 1,
           WellSized(t), WellSized(u), NEW V, NEW W, V \subseteq W,
           NEW e \in Environments(V), NEW f \in Environments(W), Extends(f, e, V),
           Restores(t, u, V, W, f)
    PROVE  Value(u, f) = Value(t, e)
  <1>0. e \in [V -> Domain] /\ f \in [W -> Domain] /\ \A x \in V : f[x] = e[x]
    BY DEF Environments, Extends
  <1>1. Len(t) \in Nat /\ Len(u) = Len(t) /\ \A i \in 1..Len(t) : 0 + i = i
    BY LenProperties DEF Restores
  <1>2. Follows(t, u, 0, V, W)
    BY <1>1 DEF Follows, Restores
  <1>3. Agree(t, u, 0, e, f)
    <2>1. ASSUME NEW i \in 1..Len(t), t[i].kind \in Constants
          PROVE  f[u[i].sym] = t[i].sym[2]
      <3>1. PICK g \in W \ Builtin : u[i] = Leaf(g) /\ f[g] = t[i].sym[2]
        BY <2>1 DEF Restores
      <3> QED
        BY <3>1, LeafParts
    <2> QED
      BY <1>0, <1>1, <2>1 DEF Agree
  <1> QED
    BY <1>0, <1>1, <1>2, <1>3, FollowedValue

\* And its subtrees have theirs.
LEMMA RestoredSubtree ==
    ASSUME NEW t \in Seq(Node), NEW u \in Seq(Node), Tree(t), Tree(u),
           NEW V, NEW W, NEW f, Restores(t, u, V, W, f), NEW i \in 1..Len(t)
    PROVE  Restores(Subtree(t, i), Subtree(u, i), V, W, f)
  <1> DEFINE a == Subtree(t, i)
             b == Subtree(u, i)
             n == t[i].size
  <1>1. Len(u) = Len(t) /\ Len(t) \in Nat /\ i \in Nat
    BY LenProperties DEF Restores
  <1>2. u[i].size = n
    <2>1. CASE t[i].kind \in Constants
      <3>1. t[i].size = 1 /\ \E g : u[i] = Leaf(g)
        BY <2>1 DEF Restores
      <3> QED
        BY <3>1, LeafParts
    <2>2. CASE t[i].kind \notin Constants
      <3>1. u[i] = t[i]
        BY <2>2 DEF Restores
      <3> QED
        BY <3>1
    <2> QED
      BY <2>1, <2>2
  <1>3. /\ Len(a) = n /\ n \in 1..i
        /\ \A k \in 1..n : a[k] = t[i - n + k]
    BY SubtreeTree
  <1>4. /\ Len(b) = n
        /\ \A k \in 1..n : b[k] = u[i - n + k]
    <2>1. i \in 1..Len(u)
      BY <1>1
    <2>2. /\ Len(b) = u[i].size
          /\ \A k \in 1..u[i].size : b[k] = u[i - u[i].size + k]
      BY <2>1, SubtreeTree
    <2> HIDE DEF b, n
    <2> QED
      BY <1>2, <2>2
  <1> HIDE DEF a, b, n
  <1>5. \A k \in 1..n : i - n + k \in 1..Len(t)
    BY <1>1, <1>3
  <1>6. ASSUME NEW k \in 1..n
        PROVE  IF a[k].kind \in Constants
               THEN /\ a[k].size = 1
                    /\ \E g \in W \ Builtin : /\ b[k] = Leaf(g)
                                              /\ f[g] = a[k].sym[2]
                                              /\ \A l \in 1..n : g \notin a[l].bound
               ELSE /\ b[k] = a[k]
                    /\ a[k].kind = "symbol" => a[k].sym \in Builtin \cup V
    <2> DEFINE j == i - n + k
    <2>1. j \in 1..Len(t) /\ a[k] = t[j] /\ b[k] = u[j]
      BY <1>3, <1>4, <1>5
    <2> HIDE DEF j
    <2>2. CASE t[j].kind \in Constants
      <3>1. PICK g \in W \ Builtin : /\ u[j] = Leaf(g) /\ f[g] = t[j].sym[2]
                                     /\ \A l \in 1..Len(t) : g \notin t[l].bound
        BY <2>1, <2>2 DEF Restores
      <3>2. \A l \in 1..n : g \notin a[l].bound
        BY <1>3, <1>5, <3>1
      <3>3. t[j].size = 1
        BY <2>1, <2>2 DEF Restores
      <3> QED
        BY <2>1, <2>2, <3>1, <3>2, <3>3
    <2>3. CASE t[j].kind \notin Constants
      BY <2>1, <2>3 DEF Restores
    <2> QED
      BY <2>2, <2>3
  <1> QED
    BY <1>3, <1>4, <1>6 DEF Restores, a, b

\* What a boolean operation makes of its arguments is a truth value.
LEMMA BoolMeaning ==
    ASSUME NEW op \in BoolOps, NEW a
    PROVE  Meaning(op, a) \in {0, 1}
  <1>1. \A p : Bit(p) \in {0, 1}
    BY DEF Bit
  <1>2. /\ Meaning(Op("or"), a) = Bit(\E r \in DOMAIN a : a[r] = 1)
        /\ Meaning(Op("<"), a) = Bit(\A q, r \in DOMAIN a : q < r => a[r] < a[q])
    BY DEF Meaning, Op
  <1>3. /\ Meaning(Op("and"), a) = Bit(\A r \in DOMAIN a : a[r] = 1)
        /\ Meaning(Op("="), a) = Bit(\A q, r \in DOMAIN a : a[q] = a[r])
    BY Meanings
  <1> QED
    BY <1>1, <1>2, <1>3 DEF BoolOps

LEMMA BoolValue ==
    ASSUME NEW t \in Seq(Node), WellSized(t), Len(t) >= 1, NEW V, NEW e \in Environments(V),
           t[Len(t)].kind = "symbol", t[Len(t)].sym \in BoolOps
    PROVE  Value(t, e) \in {0, 1}
  <1> DEFINE i == Len(t)
  <1>1. i \in 1..Len(t) /\ e \in [V -> Domain] /\ DOMAIN e = V
    BY LenProperties DEF Environments
  <1>2. t[i].sym \in Builtin
    BY DEF BoolOps, Builtin, OpNames
  <1>3. \E a : Valuation(t, V)[i][e] = Meaning(t[i].sym, a)
    BY <1>1, <1>2, OpValue
  <1> QED
    BY <1>1, <1>3, BoolMeaning DEF Value

-----------------------------------------------------------------------------
(* The models of a variant.                                                *)

\* When the parser is done, every constant has the name with its number, and
\* every boolean operation is the copy with its number.
LEMMA AllNumbered ==
    ASSUME TypeOK, Numbered, phase = "ready"
    PROVE  /\ counter = Cardinality(SourceConstants) /\ NumBavs = Cardinality(SourceBools)
           /\ \A p \in SourceConstants :
                NodeAt(BeforeDecls, p) = Leaf(GenName(Number(p, SourceConstants)))
           /\ \A p \in SourceBools :
                bexps[Number(p, SourceBools)] = SubtreeAt(BeforeDecls, p)
           /\ SourceConstants \in SUBSET (Nat \X Nat) /\ IsFiniteSet(SourceConstants)
           /\ SourceBools \in SUBSET (Nat \X Nat) /\ IsFiniteSet(SourceBools)
  <1>1. cmd > Len(source) /\ cmd \in Nat
    BY DEF Numbered, TypeOK
  <1>2. \A p \in Nodes(source) : Exited(p[1], p[2])
    <2>1. \A c \in DOMAIN source : c < cmd
      BY <1>1, SourceType, LenProperties
    <2>2. \A p \in Nodes(source) : p[1] \in DOMAIN source
      BY NodesElim
    <2> QED
      BY <2>1, <2>2 DEF Exited
  <1>3. ExitedNodes = Nodes(source)
    BY <1>2 DEF ExitedNodes
  <1>4. SourceConstants \cap ExitedNodes = SourceConstants
        /\ SourceBools \cap ExitedNodes = SourceBools
    BY <1>3, KindsOfNodes
  <1>5. /\ SourceConstants \in SUBSET (Nat \X Nat) /\ IsFiniteSet(SourceConstants)
        /\ SourceBools \in SUBSET (Nat \X Nat) /\ IsFiniteSet(SourceBools)
    BY FiniteNodes, KindsOfNodes, FS_Subset
  <1> QED
    BY <1>4, <1>5 DEF Numbered

\* The values of the made up names are those of the constants they replaced.
LEMMA OriginalsType ==
    ASSUME TypeOK, Numbered, phase = "ready", Fresh
    PROVE  /\ Originals \in Environments(GenNames)
           /\ \A p \in SourceConstants :
                LET g == GenName(Number(p, SourceConstants))
                IN  g \in GenNames /\ Originals[g] = NodeAt(source, p).sym[2]
  <1> DEFINE C == SourceConstants
  <1>1. /\ counter = Cardinality(C) /\ C \in SUBSET (Nat \X Nat) /\ IsFiniteSet(C)
    BY AllNumbered
  <1>2. /\ \A p \in C : Number(p, C) \in 1..counter
        /\ \A k \in 1..counter : Nth(C, k) \in C
        /\ \A p \in C : Nth(C, Number(p, C)) = p
    BY <1>1, Numbering
  <1>3. \A k : GenName(k)[2] = k
    BY DEF GenName
  <1>4. \A g \in GenNames : NodeAt(source, Nth(C, g[2])).sym[2] \in Domain
    <2>1. \A g \in GenNames : g[2] \in 1..counter
      BY <1>3 DEF GenNames
    <2> QED
      BY <1>2, <2>1 DEF Fresh
  <1>5. Originals \in Environments(GenNames)
    BY <1>4 DEF Originals, Environments
  <1>6. ASSUME NEW p \in C
        PROVE  /\ GenName(Number(p, C)) \in GenNames
               /\ Originals[GenName(Number(p, C))] = NodeAt(source, p).sym[2]
    <2>1. GenName(Number(p, C)) \in GenNames
      BY <1>2 DEF GenNames
    <2>2. GenName(Number(p, C))[2] = Number(p, C)
      BY <1>3
    <2> QED
      BY <1>2, <2>1, <2>2 DEF Originals
  <1> QED
    BY <1>5, <1>6

\* An environment of a variant that gives the sample's names the values they
\* have in env, and the made up names those of their constants.
Restoring(f, env) ==
    /\ env \in Environments(Unknowns)
    /\ f \in Environments(Unknowns \cup GenNames \cup BavNames)
    /\ Extends(f, env, Unknowns)
    /\ Extends(f, Originals, GenNames)

\* There the terms of the tree are what the sample's are in env.
LEMMA Restored ==
    ASSUME TypeOK, Built, Numbered, phase = "ready", Fresh,
           NEW env, NEW f, Restoring(f, env), NEW c \in 1..Len(source)
    PROVE  Restores(source[c].term, BeforeDecls[c].term, Unknowns,
                    Unknowns \cup GenNames \cup BavNames, f)
  <1> DEFINE t == source[c].term
             u == BeforeDecls[c].term
             W == Unknowns \cup GenNames \cup BavNames
  <1>1. Parsed(BeforeDecls)
    BY DEF Built
  <1>2. /\ t \in Seq(Node) /\ u \in Seq(Node) /\ Len(u) = Len(t)
        /\ \A i \in 1..Len(t) :
             IF t[i].kind \in Constants
             THEN t[i].size = 1 /\ \E k \in 1..counter : u[i] = Leaf(GenName(k))
             ELSE u[i] = t[i]
    BY <1>1, ParsedNodes
  <1>3. SymbolsOf(t) \subseteq Builtin \cup Unknowns
    <2>1. c \in DOMAIN source
      BY SourceType, LenProperties
    <2> QED
      BY <2>1 DEF Unknowns
  <1>4. ASSUME NEW i \in 1..Len(t)
        PROVE  /\ t[i].kind = "symbol" => t[i].sym \in Builtin \cup Unknowns
               /\ t[i].bound \subseteq Builtin \cup Unknowns
    <2>1. i \in DOMAIN t
      BY <1>2, LenProperties
    <2> HIDE DEF t
    <2>2. t[i].kind = "symbol" => t[i].sym \in SymbolsOf(t)
      BY <2>1 DEF SymbolsOf
    <2>3. t[i].bound \subseteq SymbolsOf(t)
      BY <2>1 DEF SymbolsOf
    <2> QED
      BY <1>3, <2>2, <2>3
  <1>5. ASSUME NEW i \in 1..Len(t), t[i].kind \in Constants
        PROVE  \E g \in W \ Builtin : /\ u[i] = Leaf(g)
                                      /\ f[g] = t[i].sym[2]
                                      /\ \A k \in 1..Len(t) : g \notin t[k].bound
    <2> DEFINE p == <<c, i>>
               g == GenName(Number(p, SourceConstants))
    <2>1. p \in Nodes(source) /\ NodeAt(source, p) = t[i] /\ NodeAt(BeforeDecls, p) = u[i]
      <3>1. c \in DOMAIN source /\ i \in DOMAIN t
        BY <1>2, SourceType, LenProperties
      <3> QED
        BY <3>1 DEF Nodes, NodeAt
    <2>2. p \in SourceConstants
      BY <1>5, <2>1 DEF SourceConstants, IsConstant
    <2> HIDE DEF t, u, p
    <2>3. u[i] = Leaf(g)
      BY <2>1, <2>2, AllNumbered
    <2>4. g \in GenNames /\ Originals[g] = t[i].sym[2]
      BY <2>1, <2>2, OriginalsType
    <2> HIDE DEF g
    <2>5. f[g] = t[i].sym[2]
      BY <2>4 DEF Restoring, Extends
    <2>6. g \notin Builtin /\ g \notin Unknowns
      BY <2>4, GeneratedApart DEF Fresh
    <2>7. \A k \in 1..Len(t) : g \notin t[k].bound
      BY <1>4, <2>6
    <2> QED
      BY <2>3, <2>4, <2>5, <2>6, <2>7
  <1> HIDE DEF t, u
  <1> QED
    BY <1>2, <1>4, <1>5 DEF Restores, t, u

\* So they have the values that the sample's terms have in env.
LEMMA TermValue ==
    ASSUME TypeOK, Built, Numbered, phase = "ready", Fresh,
           NEW env, NEW f, Restoring(f, env),
           NEW c \in 1..Len(source), source[c].term # <<>>
    PROVE  Value(BeforeDecls[c].term, f) = Value(source[c].term, env)
  <1> DEFINE t == source[c].term
             u == BeforeDecls[c].term
             W == Unknowns \cup GenNames \cup BavNames
  <1>1. /\ t \in Seq(Node) /\ u \in Seq(Node) /\ Tree(t) /\ Tree(u)
    <2>1. Parsed(BeforeDecls)
      BY DEF Built
    <2> QED
      BY <2>1, ParsedNodes, SourceTrees, ParsedTrees
  <1>2. Restores(t, u, Unknowns, W, f)
    BY Restored
  <1>3. /\ env \in Environments(Unknowns) /\ f \in Environments(W)
        /\ Extends(f, env, Unknowns) /\ Unknowns \subseteq W
    BY DEF Restoring
  <1>4. Len(t) >= 1
    BY <1>1, LenProperties, EmptySeq
  <1> HIDE DEF t, u, W
  <1>5. WellSized(t) /\ WellSized(u)
    BY <1>1 DEF WellSized, Tree
  <1>6. Value(u, f) = Value(t, env)
    BY <1>1, <1>2, <1>3, <1>4, <1>5, RestoredValue
  <1> QED
    BY <1>6 DEF t, u

LEMMA CopyValue ==
    ASSUME TypeOK, Built, Numbered, phase = "ready", Fresh,
           NEW env, NEW f, Restoring(f, env), NEW p \in SourceBools
    PROVE  /\ Value(SubtreeAt(BeforeDecls, p), f) = Value(SubtreeAt(source, p), env)
           /\ Value(SubtreeAt(source, p), env) \in {0, 1}
  <1> DEFINE c == p[1]
             i == p[2]
             t == source[c].term
             u == BeforeDecls[c].term
             a == Subtree(t, i)
             b == Subtree(u, i)
             W == Unknowns \cup GenNames \cup BavNames
  <1>1. c \in DOMAIN source /\ i \in DOMAIN t /\ IsBoolOp(source, p)
    BY NodesElim DEF SourceBools
  <1>2. c \in 1..Len(source)
    BY <1>1, SourceType, LenProperties
  <1>3. /\ t \in Seq(Node) /\ u \in Seq(Node) /\ Tree(t) /\ Tree(u) /\ Len(u) = Len(t)
    <2>1. Parsed(BeforeDecls)
      BY DEF Built
    <2> QED
      BY <1>2, <2>1, ParsedNodes, SourceTrees, ParsedTrees
  <1>4. i \in 1..Len(t)
    BY <1>1, <1>3, LenProperties
  <1>5. Restores(t, u, Unknowns, W, f)
    BY <1>2, Restored
  <1>6. /\ env \in Environments(Unknowns) /\ f \in Environments(W)
        /\ Extends(f, env, Unknowns) /\ Unknowns \subseteq W
    BY DEF Restoring
  <1>7. t[i].kind = "symbol" /\ t[i].sym \in BoolOps
    BY <1>1 DEF IsBoolOp, NodeAt
  <1>8. SubtreeAt(source, p) = a /\ SubtreeAt(BeforeDecls, p) = b
    BY DEF SubtreeAt
  <1> HIDE DEF t, u, W, i, c
  <1>9. Restores(a, b, Unknowns, W, f)
    BY <1>3, <1>4, <1>5, RestoredSubtree
  <1>10. /\ a \in Seq(Node) /\ Len(a) = t[i].size /\ t[i].size \in 1..i /\ WellSized(a)
         /\ a[t[i].size] = t[i]
    BY <1>3, <1>4, SubtreeTree
  <1>11. b \in Seq(Node) /\ WellSized(b)
    BY <1>3, <1>4, SubtreeTree
  <1>12. Len(a) >= 1
    BY <1>4, <1>10
  <1>13. a[Len(a)].kind = "symbol" /\ a[Len(a)].sym \in BoolOps
    BY <1>7, <1>10
  <1>14. a \in Seq(Node) /\ WellSized(a)
    BY <1>10
  <1> HIDE DEF a, b
  <1>15. Value(b, f) = Value(a, env)
    BY <1>6, <1>9, <1>11, <1>12, <1>14, RestoredValue
  <1>16. Value(a, env) \in {0, 1}
    BY <1>6, <1>12, <1>13, <1>14, BoolValue
  <1> QED
    BY <1>8, <1>15, <1>16

\* Such an environment is a model of the variant if and only if every made up
\* truth value is that of its operation and of the variant, and the sample's
\* assertions hold.
LEMMA VariantModel ==
    ASSUME TypeOK, Built, Numbered, phase = "ready", Fresh, NumBavs >= 1,
           NEW env, NEW f, Restoring(f, env)
    PROVE  Satisfies(f, script, FirstQuery(script)) <=>
             /\ Satisfies(env, source, Query)
             /\ \A k \in 1..NumBavs : /\ f[BavName(k)] = Bit(values[k])
                                      /\ f[BavName(k)] = Value(bexps[k], f)
  <1> DEFINE W == Unknowns \cup GenNames \cup BavNames
             w == BeforeDecls
             A == Asserted(script, FirstQuery(script))
  <1>1. f \in Environments(W) /\ f \in [W -> Domain]
    BY DEF Restoring, Environments
  <1>2. Parsed(w) /\ values \in Seq(BOOLEAN) /\ Len(values) = NumBavs /\ NumBavs \in Nat
    <2>1. values \in [1..NumBavs -> BOOLEAN]
      BY DEF Built, Assignments
    <2>2. NumBavs \in Nat
      BY PartsType
    <2> QED
      BY <2>1, <2>2 DEF Built
  <1>3. Value(BamTerm(values), f) = 1 <=> \A k \in 1..NumBavs : f[BavName(k)] = Bit(values[k])
    <2>1. \A k \in 1..Len(values) : BavName(k) \in W
      BY <1>2 DEF BavNames
    <2> HIDE DEF W
    <2> QED
      BY <1>1, <1>2, <2>1, BamValue
  <1>4. ASSUME NEW k \in 1..NumBavs
        PROVE  Value(BavInit(k).term, f) = 1 <=> f[BavName(k)] = Value(bexps[k], f)
    <2> DEFINE t == bexps[k]
               x == BavName(k)
    <2>1. /\ t \in Seq(Node) /\ Len(t) >= 1 /\ WellSized(t)
          /\ t[Len(t)].size = Len(t) /\ Speaks(t, Unknowns \cup GenNames)
      BY <1>2, CopyTree
    <2>2. Speaks(t, W)
      BY <2>1 DEF Speaks
    <2>3. x \in W \cap Symbol /\ x \notin Builtin
      <3>1. x \in Symbol /\ x \in BavNames
        BY <1>2, NameType DEF BavNames
      <3> QED
        BY <3>1, GeneratedApart
    <2>4. BavInit(k).term = <<Leaf(x)>> \o t \o <<Apply(Op("="), Len(t) + 2)>>
      BY DEF BavInit, AssertThat, Cmd
    <2> HIDE DEF t, x, W
    <2>5. Value(BavInit(k).term, f) = 1 <=> f[x] = Value(t, f)
      BY <1>1, <2>1, <2>2, <2>3, <2>4, EquationValue
    <2> QED
      BY <2>5 DEF t, x
  <1>5. /\ \A c \in Premises : w[c].term \in A
        /\ \A x \in A : \/ \E c \in Premises : x = w[c].term
                        \/ x = BamTerm(values)
                        \/ \E k \in 1..NumBavs : x = BavInit(k).term
    BY VariantAsserts
  <1>6. BamTerm(values) \in A /\ \A k \in 1..NumBavs : BavInit(k).term \in A
    BY InsertedAsserted
  <1>7. \A c \in Premises : Value(w[c].term, f) = Value(source[c].term, env)
    <2>1. \A c \in Premises : c \in 1..Len(source) /\ source[c].term # <<>>
      BY DEF Premises
    <2> QED
      BY <2>1, TermValue
  <1>8. Satisfies(env, source, Query) <=> \A c \in Premises : Value(source[c].term, env) = 1
    <2>1. Asserted(source, Query) = {source[c].term : c \in Premises}
      BY <1>2, ParsedAsserts
    <2> QED
      BY <2>1 DEF Satisfies
  <1> HIDE DEF w, W
  <1>9. Satisfies(f, script, FirstQuery(script)) <=> \A x \in A : Value(x, f) = 1
    BY DEF Satisfies
  <1> HIDE DEF A
  <1>10. (\A x \in A : Value(x, f) = 1) <=>
            /\ \A c \in Premises : Value(w[c].term, f) = 1
            /\ Value(BamTerm(values), f) = 1
            /\ \A k \in 1..NumBavs : Value(BavInit(k).term, f) = 1
    BY <1>5, <1>6
  <1> QED
    BY <1>3, <1>4, <1>7, <1>8, <1>9, <1>10

\* A truth value and the value it stands for.
LEMMA BitIs ==
    ASSUME NEW p \in BOOLEAN, NEW v \in {0, 1}
    PROVE  v = Bit(p) <=> (v = 1) = p
  BY DEF Bit

\* In a variant that is accepted, there is a truth assertion.
LEMMA LegalHasOperations ==
    ASSUME TypeOK, Built, phase = "ready", Legal(script)
    PROVE  NumBavs >= 1
  <1>1. /\ script[endAt].kind = "assert" /\ endAt \in DOMAIN script
        /\ script[endAt].term = BamTerm(values)
    BY DEF Built, AssertThat, Cmd
  <1>2. BamTerm(values) # <<>>
    BY <1>1 DEF Legal
  <1>3. values \in Seq(BOOLEAN) /\ Len(values) = NumBavs /\ NumBavs \in Nat
    <2>1. values \in [1..NumBavs -> BOOLEAN]
      BY DEF Built, Assignments
    <2>2. NumBavs \in Nat
      BY PartsType
    <2> QED
      BY <2>1, <2>2
  <1>4. Len(values) # 0
    BY <1>2, <1>3, FreeBam
  <1> QED
    BY <1>3, <1>4

\* The k-th copy, in such an environment, is the k-th boolean operation.
LEMMA ProfileIs ==
    ASSUME TypeOK, Built, Numbered, phase = "ready", Fresh,
           NEW env, NEW f, Restoring(f, env)
    PROVE  /\ \A k \in 1..NumBavs :
                /\ Value(bexps[k], f) \in {0, 1}
                /\ Profile(env)[k] = (Value(bexps[k], f) = 1)
           /\ Profile(env) = values <=>
                \A k \in 1..NumBavs : (Value(bexps[k], f) = 1) = values[k]
  <1> DEFINE B == SourceBools
             P == Profile(env)
  <1>1. /\ NumBavs = Cardinality(B)
        /\ \A p \in B : bexps[Number(p, B)] = SubtreeAt(BeforeDecls, p)
        /\ B \in SUBSET (Nat \X Nat) /\ IsFiniteSet(B)
    BY AllNumbered
  <1>2. \A k \in 1..NumBavs : Nth(B, k) \in B /\ Number(Nth(B, k), B) = k
    BY <1>1, Numbering
  <1>3. P = [k \in 1..NumBavs |-> Value(SubtreeAt(source, Nth(B, k)), env) = 1]
    BY <1>1 DEF Profile
  <1>4. ASSUME NEW k \in 1..NumBavs
        PROVE  /\ Value(bexps[k], f) \in {0, 1}
               /\ Value(SubtreeAt(source, Nth(B, k)), env) = Value(bexps[k], f)
    <2>1. Nth(B, k) \in B /\ bexps[k] = SubtreeAt(BeforeDecls, Nth(B, k))
      BY <1>1, <1>2
    <2> HIDE DEF B
    <2>2. Nth(B, k) \in SourceBools
      BY <2>1 DEF B
    <2> QED
      BY <2>1, <2>2, CopyValue
  <1>5. values \in [1..NumBavs -> BOOLEAN]
    BY DEF Built, Assignments
  <1> HIDE DEF B, P
  <1>6. \A k \in 1..NumBavs : P[k] = (Value(bexps[k], f) = 1)
    BY <1>3, <1>4
  <1>7. P = values <=> \A k \in 1..NumBavs : P[k] = values[k]
    BY <1>3, <1>5
  <1> QED
    BY <1>4, <1>6, <1>7 DEF P

\* An environment in which the made up names have their original values, and
\* the truth names any.
LEMMA ExtendedRestores ==
    ASSUME TypeOK, Numbered, phase = "ready", Fresh,
           NEW env \in Environments(Unknowns), NEW b \in Environments(BavNames)
    PROVE  LET f == Extended(Extended(env, Originals), b)
           IN  /\ Restoring(f, env)
               /\ \A x \in BavNames : f[x] = b[x]
  <1> DEFINE e == Extended(env, Originals)
             f == Extended(e, b)
             V == Unknowns \cup GenNames
  <1>1. Originals \in Environments(GenNames)
    BY OriginalsType
  <1>2. e \in Environments(V) /\ Extends(e, env, Unknowns)
    BY <1>1, ExtendedType
  <1>3. f \in Environments(V \cup BavNames) /\ Extends(f, e, V)
    BY <1>2, ExtendedType
  <1>4. /\ DOMAIN env = Unknowns /\ DOMAIN Originals = GenNames
        /\ DOMAIN e = V /\ DOMAIN b = BavNames
    BY <1>1, <1>2 DEF Environments
  <1>5. \A x \in GenNames : e[x] = Originals[x]
    BY <1>4 DEF Extended, Fresh
  <1>6. GenNames \cap BavNames = {}
    BY DEF GenNames, BavNames, GenName, BavName
  <1>7. \A x \in BavNames : f[x] = b[x]
    <2>1. \A x \in BavNames : x \notin V
      BY <1>6 DEF Fresh
    <2> HIDE DEF e, V
    <2> QED
      BY <1>4, <2>1 DEF Extended
  <1> HIDE DEF e, f
  <1>8. Restoring(f, env)
    BY <1>2, <1>3, <1>5 DEF Restoring, Extends
  <1> QED
    BY <1>7, <1>8 DEF f, e

\* The models of a variant, with the constants' values for their names, are
\* the models of the sample in which its boolean operations have the truth
\* values of this variant: no model is lost (lib.rs:79-88, 142-168, 227-238).
THEOREM Recovered == Spec => []OriginalRecovered
  <1>1. TypeOK /\ Built /\ Numbered => OriginalRecovered
    <2> SUFFICES ASSUME TypeOK, Built, Numbered, Meaningful, Fresh,
                        NEW env \in Environments(Unknowns)
                 PROVE  Accepts(Extended(env, Originals))
                        <=> Satisfies(env, source, Query) /\ Profile(env) = values
      BY DEF OriginalRecovered
    <2>1. phase = "ready" /\ NumBavs >= 1
      BY LegalHasOperations DEF Meaningful
    <2> DEFINE e == Extended(env, Originals)
    <2>2. \A k \in 1..NumBavs : values[k] \in BOOLEAN
      BY <2>1 DEF Built, Assignments
    <2>3. ASSUME Accepts(e)
          PROVE  Satisfies(env, source, Query) /\ Profile(env) = values
      <3>1. PICK b \in Environments(BavNames) :
              Satisfies(Extended(e, b), script, FirstQuery(script))
        BY <2>3 DEF Accepts
      <3> DEFINE f == Extended(e, b)
      <3>2. Restoring(f, env)
        BY <2>1, ExtendedRestores
      <3> HIDE DEF e, f
      <3>3. /\ Satisfies(env, source, Query)
            /\ \A k \in 1..NumBavs : /\ f[BavName(k)] = Bit(values[k])
                                     /\ f[BavName(k)] = Value(bexps[k], f)
        BY <2>1, <3>1, <3>2, VariantModel DEF f
      <3>4. /\ \A k \in 1..NumBavs : Value(bexps[k], f) \in {0, 1}
            /\ Profile(env) = values <=>
                 \A k \in 1..NumBavs : (Value(bexps[k], f) = 1) = values[k]
        BY <2>1, <3>2, ProfileIs
      <3>5. \A k \in 1..NumBavs : (Value(bexps[k], f) = 1) = values[k]
        BY <2>2, <3>3, <3>4, BitIs
      <3> QED
        BY <3>3, <3>4, <3>5
    <2>4. ASSUME Satisfies(env, source, Query), Profile(env) = values
          PROVE  Accepts(e)
      <3> DEFINE b == [x \in BavNames |-> Bit(values[x[2]])]
                 f == Extended(e, b)
      <3>1. /\ \A k \in 1..NumBavs : BavName(k) \in BavNames /\ b[BavName(k)] = Bit(values[k])
            /\ b \in Environments(BavNames)
        <4>1. \A k : BavName(k)[2] = k
          BY DEF BavName
        <4>2. \A x \in BavNames : Bit(values[x[2]]) \in Domain
          BY DomainAssumption DEF Bit
        <4> QED
          BY <4>1, <4>2 DEF BavNames, Environments
      <3> HIDE DEF b
      <3>2. Restoring(f, env) /\ \A x \in BavNames : f[x] = b[x]
        BY <2>1, <3>1, ExtendedRestores
      <3> HIDE DEF e, f
      <3>3. /\ \A k \in 1..NumBavs : Value(bexps[k], f) \in {0, 1}
            /\ Profile(env) = values <=>
                 \A k \in 1..NumBavs : (Value(bexps[k], f) = 1) = values[k]
        BY <2>1, <3>2, ProfileIs
      <3>4. \A k \in 1..NumBavs : Value(bexps[k], f) = Bit(values[k])
        BY <2>2, <2>4, <3>3, BitIs
      <3>5. \A k \in 1..NumBavs : f[BavName(k)] = Bit(values[k])
        BY <3>1, <3>2
      <3>6. Satisfies(f, script, FirstQuery(script))
        BY <2>1, <2>4, <3>2, <3>4, <3>5, VariantModel
      <3> QED
        BY <3>1, <3>6 DEF Accepts, f
    <2> QED
      BY <2>3, <2>4
  <1> QED
    BY <1>1, TypeCorrect, WellBuilt, InNumberedOrder, PTL

-----------------------------------------------------------------------------
(* Which variants a solver accepts.                                        *)

\* The names that are declared, and those in force in front of command c of
\* the sample when they are.
Made == newVars \cup BavNames
Offered(c) == InForce(source, c) \cup Given(source, AfterLogic(source), c, Made)

\* With the declarations, every command of the sample has the names they offer
\* it.  What is put in front of the first check-sat may offer it others, L.
LEMMA DeclsFit ==
    ASSUME TypeOK, Ordinary, NEW w, Parsed(w), NEW d,
           d = InsertEach(w, AfterLogic(w), Decls)
    PROVE  /\ d \in Seq(Command) /\ WellFormed(d)
           /\ FirstQuery(d) \in 1..(Len(d) + 1)
           /\ InForce(d, FirstQuery(d)) = Offered(Query)
           /\ \A L : FitWith(d, FirstQuery(d), L) =>
                \A c \in 1..Len(source) : \E G \in SUBSET L : Fits(w[c], Offered(c) \cup G)
           /\ AfterLogic(source) <= Query =>
                \A L : FitWith(d, FirstQuery(d), L) <=>
                  \A c \in 1..Len(source) :
                    Fits(w[c], Offered(c) \cup Given(source, Query, c, L))
  <1> DEFINE s == source
             a == AfterLogic(s)
             q == FirstQuery(s)
             t == Reverse(Decls)
             n == Len(t)
             e == FirstQuery(d)
  <1>1. s \in Seq(Command) /\ Len(s) \in Nat /\ Legal(s) /\ WellFormed(s)
    BY SourceType, LenProperties, LegalParts DEF Ordinary
  <1>2. a \in 1..(Len(s) + 1) /\ LogicBehind(s, a) /\ InForce(s, a) = {}
    BY <1>1, FrontOf DEF Ordinary
  <1>3. q \in 1..(Len(s) + 1)
    BY <1>1, FirstQueryIs
  <1>4. /\ SameShape(w, s) /\ w \in Seq(Command) /\ Len(w) = Len(s)
        /\ \A c \in 1..Len(s) : w[c].kind = s[c].kind
    BY ParsedShape DEF SameShape
  <1>5. /\ \A m \in 1..(Len(s) + 1) : InForce(w, m) = InForce(s, m)
        /\ SameScopes(w, s)
        /\ WellFormed(w) /\ AfterLogic(w) = a /\ FirstQuery(w) = q
    BY <1>1, <1>4, ShapeKept
  <1>6. /\ t \in Seq(Command) /\ n = Len(Decls) /\ n \in Nat
        /\ \A p \in 1..n : t[p].kind = "declare" /\ t[p].term = <<>> /\ Uses(t[p]) = {}
        /\ \A x, y \in 1..n : Introduces(t[x]) \cap Introduces(t[y]) # {} => x = y
        /\ NamesOf(t) = Made
    BY DeclNames, LenProperties DEF Made
  <1> HIDE DEF t
  <1>7. Spliced(d, w, a, t)
    <2>1. Decls \in Seq(Command)
      BY DeclsType
    <2>2. a \in 1..(Len(w) + 1)
      BY <1>2, <1>4
    <2> HIDE DEF a
    <2>3. InsertEach(w, a, Decls) \in Seq(Command)
          /\ Inserted(InsertEach(w, a, Decls), w, a, Reverse(Decls))
      BY <1>4, <2>1, <2>2, InsertItems
    <2>4. \A p \in 1..Len(t) : t[p].kind \notin {"push", "pop"} \cup Resets
      BY <1>6 DEF Resets
    <2> QED
      BY <1>4, <1>5, <1>6, <2>2, <2>3, <2>4 DEF Spliced, t
  <1> HIDE DEF a, q, s
  <1>8. WellFormed(d)
    <2>1. LogicBehind(w, a)
      <3>1. \A j \in a..Len(s) : /\ j \in 1..Len(s)
                                 /\ \A m \in a..(j - 1) : m \in 1..Len(s)
        BY <1>1, <1>2
      <3> QED
        BY <1>2, <1>4, <3>1 DEF LogicBehind
    <2>2. \A p \in 1..Len(t) : t[p].kind # "set-logic" /\ WellTermed(t[p])
      BY <1>6, NoLabels DEF WellTermed
    <2> QED
      BY <1>5, <1>7, <2>1, <2>2, WellFormedSpliced
  <1>9. e \in 1..(Len(d) + 1) /\ e = Shift(q, a, n)
    <2>1. \A p \in 1..Len(t) : t[p].kind # "check-sat"
      BY <1>6
    <2> QED
      BY <1>5, <1>7, <2>1, QuerySpliced
  <1>10. d \in Seq(Command) /\ Len(d) \in Nat
    BY <1>7, LenProperties DEF Spliced
  <1>11. /\ \A j \in 1..Len(s) : Shift(j, a, n) \in 1..Len(d) /\ d[Shift(j, a, n)] = w[j]
         /\ \A p \in 1..n : a - 1 + p \in 1..Len(d) /\ d[a - 1 + p] = t[p]
         /\ \A x \in 1..Len(d) : \/ \E j \in 1..Len(s) : x = Shift(j, a, n)
                                 \/ \E p \in 1..n : x = a - 1 + p
    <2>1. /\ \A j \in 1..Len(w) : Shift(j, a, n) \in 1..Len(d) /\ d[Shift(j, a, n)] = w[j]
          /\ \A p \in 1..n : a - 1 + p \in 1..Len(d) /\ d[a - 1 + p] = t[p]
          /\ \A x \in 1..Len(d) : \/ \E j \in 1..Len(w) : x = Shift(j, a, n)
                                  \/ \E p \in 1..n : x = a - 1 + p
      BY <1>7, IndexSpliced
    <2> QED
      BY <1>4, <2>1
  <1>12. \A j \in 1..(Len(s) + 1) : Given(w, a, j, Made) = Given(s, a, j, Made)
    BY <1>2, <1>5 DEF SameScopes, Given
  <1>13. \A j \in 1..(Len(s) + 1) : InForce(d, Shift(j, a, n)) = Offered(j)
    <2>1. \A j \in 1..(Len(w) + 1) :
            InForce(d, Shift(j, a, n)) = InForce(w, j) \cup Given(w, a, j, NamesOf(t))
      BY <1>7, NamesInserted
    <2> QED
      BY <1>4, <1>5, <1>6, <1>12, <2>1 DEF Offered, s, a
  <1>14. \A p \in 1..n : Fits(t[p], InForce(d, a - 1 + p))
    <2>1. \A p \in 1..n : InForce(d, a - 1 + p) = InForce(w, a) \cup NamesBefore(t, p)
      BY <1>7, NamesInserted
    <2>2. InForce(w, a) = {}
      BY <1>2, <1>5
    <2>3. ASSUME NEW p \in 1..n, NEW x \in NamesBefore(t, p) PROVE x \notin Introduces(t[p])
      <3>1. PICK y \in 1..(p - 1) : x \in Introduces(t[y])
        BY DEF NamesBefore
      <3>2. y \in 1..n /\ y # p
        BY <1>6
      <3> QED
        BY <1>6, <3>1, <3>2
    <2> QED
      BY <1>6, <2>1, <2>2, <2>3 DEF Fits
  <1>15. ASSUME NEW L, FitWith(d, e, L), NEW c \in 1..Len(s)
         PROVE  \E G \in SUBSET L : Fits(w[c], Offered(c) \cup G)
    <2>1. Fits(w[c], InForce(d, Shift(c, a, n)) \cup Given(d, e, Shift(c, a, n), L))
      BY <1>11, <1>15 DEF FitWith
    <2>2. InForce(d, Shift(c, a, n)) = Offered(c)
      BY <1>1, <1>13
    <2>3. Given(d, e, Shift(c, a, n), L) \in SUBSET L
      BY DEF Given
    <2> QED
      BY <2>1, <2>2, <2>3
  <1>16. ASSUME a <= q, NEW L, NEW c \in 1..Len(s)
         PROVE  Given(d, e, Shift(c, a, n), L) = Given(s, q, c, L)
    <2>1. CASE q <= c
      <3>1. Shift(c, a, n) = c + n /\ e = q + n /\ q \in a..(Len(w) + 1) /\ c \in q..(Len(w) + 1)
        BY <1>1, <1>2, <1>3, <1>4, <1>9, <1>16, <2>1 DEF Shift
      <3>2. Kept(d, q + n, c + n) <=> Kept(w, q, c)
        BY <1>7, <3>1, KeptSpliced
      <3>3. Kept(w, q, c) <=> Kept(s, q, c)
        <4>1. c \in 1..(Len(s) + 1)
          BY <1>1
        <4> QED
          BY <1>3, <1>5, <4>1 DEF SameScopes
      <3> QED
        BY <3>1, <3>2, <3>3 DEF Given
    <2>2. CASE ~(q <= c)
      <3>1. ~(e <= Shift(c, a, n))
        BY <1>1, <1>2, <1>3, <1>6, <1>9, <1>16, <2>2 DEF Shift
      <3> QED
        BY <2>2, <3>1 DEF Given, Kept
    <2> QED
      BY <2>1, <2>2
  <1>17. ASSUME a <= q, NEW L, FitWith(d, e, L), NEW c \in 1..Len(s)
         PROVE  Fits(w[c], Offered(c) \cup Given(s, q, c, L))
    <2>1. Fits(w[c], InForce(d, Shift(c, a, n)) \cup Given(d, e, Shift(c, a, n), L))
      BY <1>11, <1>17 DEF FitWith
    <2>2. InForce(d, Shift(c, a, n)) = Offered(c)
      BY <1>1, <1>13
    <2> QED
      BY <1>16, <1>17, <2>1, <2>2
  <1>18. ASSUME a <= q, NEW L,
                \A c \in 1..Len(s) : Fits(w[c], Offered(c) \cup Given(s, q, c, L)),
                NEW x \in 1..Len(d)
         PROVE  Fits(d[x], InForce(d, x) \cup Given(d, e, x, L))
    <2>1. ASSUME NEW c \in 1..Len(s), x = Shift(c, a, n)
          PROVE  Fits(d[x], InForce(d, x) \cup Given(d, e, x, L))
      <3>1. InForce(d, x) = Offered(c)
        BY <1>1, <1>13, <2>1
      <3>2. Given(d, e, x, L) = Given(s, q, c, L)
        BY <1>16, <1>18, <2>1
      <3>3. d[x] = w[c]
        BY <1>11, <2>1
      <3> QED
        BY <1>18, <3>1, <3>2, <3>3
    <2>2. ASSUME NEW p \in 1..n, x = a - 1 + p
          PROVE  Fits(d[x], InForce(d, x) \cup Given(d, e, x, L))
      <3>1. ~(e <= x)
        BY <1>1, <1>2, <1>3, <1>6, <1>9, <1>18, <2>2 DEF Shift
      <3>2. Given(d, e, x, L) = {}
        BY <3>1 DEF Given, Kept
      <3> QED
        BY <1>11, <1>14, <2>2, <3>2
    <2> QED
      BY <1>11, <2>1, <2>2
  <1>19. InForce(d, e) = Offered(q)
    BY <1>3, <1>9, <1>13
  <1> HIDE DEF e
  <1> QED
    BY <1>8, <1>9, <1>10, <1>15, <1>17, <1>18, <1>19 DEF Query, FitWith, s, a, q, e

\* A command of the parsed sample fits where the sample's names and those of F
\* are, if F has the names of its constants and none that it gives.
LEMMA CommandFits ==
    ASSUME TypeOK, Ordinary, NEW w, Parsed(w), NEW c \in 1..Len(source), NEW F
    PROVE  Fits(w[c], InForce(source, c) \cup F) <=>
             /\ NewNames(source[c].term, w[c].term) \subseteq InForce(source, c) \cup F
             /\ Introduces(source[c]) \cap F = {}
  <1>1. source \in Seq(Command) /\ NamesFit(source)
    BY SourceType, LegalParts DEF Ordinary
  <1>2. Fits(source[c], InForce(source, c))
    BY <1>1 DEF NamesFit
  <1>3. /\ Uses(w[c]) = Uses(source[c]) \cup NewNames(source[c].term, w[c].term)
        /\ Introduces(w[c]) = Introduces(source[c])
    BY ParsedUses
  <1> QED
    BY <1>2, <1>3 DEF Fits

\* The declarations do no harm only if the sample has none of their names.
LEMMA NamesClash ==
    ASSUME TypeOK, Ordinary,
           \A c \in 1..Len(source) :
             Introduces(source[c]) \cap Given(source, AfterLogic(source), c, Made) = {}
    PROVE  SourceNames \cap (GenNames \cup BavNames) = {}
  <1> DEFINE s == source
             a == AfterLogic(s)
  <1>1. s \in Seq(Command) /\ Len(s) \in Nat /\ DOMAIN s = 1..Len(s) /\ Legal(s)
    BY SourceType, LenProperties DEF Ordinary
  <1>2. /\ a \in 1..(Len(s) + 1)
        /\ NoReset(s, 1, Len(s)) =>
             /\ \A c \in 1..(a - 1) : Introduces(s[c]) = {}
             /\ \A c \in a..(Len(s) + 1) : Kept(s, a, c)
    BY <1>1, FrontOf DEF Ordinary
  <1>3. newVars \subseteq GenNames /\ SourceNames \cap (GenNames \ newVars) = {}
    BY DEF TypeOK, Ordinary
  <1> SUFFICES ASSUME NoReset(s, 1, Len(s)), NEW x \in SourceNames, x \in Made
               PROVE  FALSE
    BY <1>3 DEF Ordinary, Made
  <1>4. PICK c \in 1..Len(s) : x \in Introduces(s[c])
    BY <1>1 DEF SourceNames
  <1> HIDE DEF a, s
  <1>5. c \in a..(Len(s) + 1)
    <2>1. c \notin 1..(a - 1)
      BY <1>2, <1>4
    <2> QED
      BY <1>1, <1>2, <2>1
  <1>6. Given(s, a, c, Made) = Made
    BY <1>2, <1>5 DEF Given
  <1> QED
    BY <1>4, <1>6 DEF s, a

\* They suffice unless the sample has a constant that gets none, or one where
\* they are out of force.
LEMMA ConstantsFit ==
    ASSUME TypeOK, Ordinary, NEW w, Parsed(w)
    PROVE  (\A c \in 1..Len(source) :
               NewNames(source[c].term, w[c].term)
                 \subseteq Given(source, AfterLogic(source), c, Made))
           <=> ~Unsupported /\ \A p \in SourceConstants : Reached(p[1])
  <1> DEFINE s == source
             Has(c) == Given(s, AfterLogic(s), c, Made)
  <1>1. s \in Seq(Command) /\ DOMAIN s = 1..Len(s)
    BY SourceType, LenProperties
  <1>2. ASSUME \A c \in 1..Len(s) : NewNames(s[c].term, w[c].term) \subseteq Has(c),
               NEW p \in SourceConstants
        PROVE  Reached(p[1]) /\ NodeAt(s, p).kind # "constant"
    <2> DEFINE c == p[1]
               k == p[2]
               x == w[c].term[k].sym
    <2>1. p \in Nodes(s) /\ NodeAt(s, p).kind \in Constants
      BY DEF SourceConstants, IsConstant
    <2>2. c \in 1..Len(s) /\ k \in DOMAIN s[c].term
      BY <1>1, <2>1, NodesElim
    <2>3. k \in 1..Len(s[c].term)
      <3>1. s[c].term \in Seq(Node)
        BY <2>2, ParsedShape
      <3> QED
        BY <2>2, <3>1, LenProperties
    <2>4. s[c].term[k] = NodeAt(s, p)
      BY DEF NodeAt
    <2>5. x \in NewNames(s[c].term, w[c].term)
      BY <2>1, <2>3, <2>4 DEF NewNames
    <2>6. NewNames(s[c].term, w[c].term) \subseteq GenNames
      BY <2>2, ParsedTerms
    <2>7. s[c].term[k].kind = "constant" => x \in GenNames \ newVars
      BY <2>2, <2>3, ParsedTerms
    <2> HIDE DEF x, c, k
    <2>8. x \in Has(c)
      BY <1>2, <2>2, <2>5
    <2>9. x \in Made /\ Kept(s, AfterLogic(s), c)
      BY <2>8 DEF Given
    <2>10. x \notin BavNames
      BY <2>5, <2>6 DEF GenNames, BavNames, GenName, BavName
    <2>11. s[c].term[k].kind # "constant"
      BY <2>7, <2>9, <2>10 DEF Made
    <2> QED
      BY <2>4, <2>9, <2>11 DEF Reached, c
  <1>3. ASSUME ~Unsupported, \A p \in SourceConstants : Reached(p[1]), NEW c \in 1..Len(s)
        PROVE  NewNames(s[c].term, w[c].term) \subseteq Has(c)
    <2>1. NewNames(s[c].term, w[c].term) \subseteq Made
      BY <1>3, NumeralsOnly DEF Made
    <2>2. ASSUME NEW k \in 1..Len(s[c].term), s[c].term[k].kind \in Constants
          PROVE  Kept(s, AfterLogic(s), c)
      <3>1. k \in DOMAIN s[c].term /\ c \in DOMAIN s
        <4>1. s[c].term \in Seq(Node)
          BY ParsedShape
        <4> QED
          BY <1>1, <4>1, LenProperties
      <3>2. <<c, k>> \in Nodes(s)
        BY <3>1, NodesElim
      <3>3. <<c, k>> \in SourceConstants
        BY <2>2, <3>2 DEF SourceConstants, IsConstant, NodeAt
      <3>4. <<c, k>>[1] = c
        OBVIOUS
      <3> QED
        BY <1>3, <3>3, <3>4 DEF Reached
    <2>3. NewNames(s[c].term, w[c].term) # {} => Kept(s, AfterLogic(s), c)
      BY <2>2 DEF NewNames
    <2> QED
      BY <2>1, <2>3 DEF Given
  <1>4. Unsupported => \E p \in SourceConstants : NodeAt(s, p).kind = "constant"
    BY DEF Unsupported, SourceConstants, IsConstant, Constants
  <1> QED
    BY <1>2, <1>3, <1>4

\* The sample's commands fit between the declarations and what is put in front
\* of the first check-sat, with names of the sample.
LEMMA CommandsFit ==
    ASSUME TypeOK, Ordinary, NEW w, Parsed(w), NEW L \in SUBSET SourceNames
    PROVE  LET Supported == /\ ~Unsupported
                            /\ SourceNames \cap (GenNames \cup BavNames) = {}
                            /\ \A p \in SourceConstants : Reached(p[1])
           IN  /\ (\A c \in 1..Len(source) :
                     \E G \in SUBSET L : Fits(w[c], Offered(c) \cup G)) => Supported
               /\ Supported =>
                    \A c \in 1..Len(source) :
                      Fits(w[c], Offered(c) \cup Given(source, Query, c, L))
                      <=> Introduces(source[c]) \cap Given(source, Query, c, L) = {}
  <1> DEFINE New(c) == NewNames(source[c].term, w[c].term)
             Has(c) == Given(source, AfterLogic(source), c, Made)
             NoClash == SourceNames \cap (GenNames \cup BavNames) = {}
             Named == ~Unsupported /\ \A p \in SourceConstants : Reached(p[1])
  <1>1. \A c \in 1..Len(source) : InForce(source, c) \subseteq SourceNames
    BY DEF InForce, SourceNames
  <1>2. \A c \in 1..Len(source) : New(c) \subseteq GenNames
    BY ParsedTerms
  <1>3. (\A c \in 1..Len(source) : New(c) \subseteq Has(c)) <=> Named
    BY ConstantsFit
  <1>4. \A c \in 1..Len(source) : \A F :
          Fits(w[c], InForce(source, c) \cup F) <=>
             New(c) \subseteq InForce(source, c) \cup F /\ Introduces(source[c]) \cap F = {}
    BY CommandFits
  <1>5. \A c : Offered(c) = InForce(source, c) \cup Has(c)
    BY DEF Offered
  <1>6. (\A c \in 1..Len(source) : Introduces(source[c]) \cap Has(c) = {}) => NoClash
    BY NamesClash
  <1>7. /\ \A c \in 1..Len(source) : Introduces(source[c]) \subseteq SourceNames
        /\ \A c : Has(c) \subseteq GenNames \cup BavNames
    <2>1. DOMAIN source = 1..Len(source)
      BY SourceType, LenProperties
    <2>2. newVars \subseteq GenNames
      BY DEF TypeOK
    <2>3. \A c \in 1..Len(source) : Introduces(source[c]) \subseteq SourceNames
      BY <2>1 DEF SourceNames
    <2> QED
      BY <2>2, <2>3 DEF Given, Made
  <1> HIDE DEF New, Has, Named
  <1>8. ASSUME \A c \in 1..Len(source) : \E G \in SUBSET L : Fits(w[c], Offered(c) \cup G)
        PROVE  NoClash /\ Named
    <2>1. ASSUME NEW c \in 1..Len(source)
          PROVE  /\ Introduces(source[c]) \cap Has(c) = {}
                 /\ New(c) \subseteq SourceNames \cup Has(c)
      <3>1. PICK G \in SUBSET L : Fits(w[c], Offered(c) \cup G)
        BY <1>8
      <3>2. Fits(w[c], InForce(source, c) \cup (Has(c) \cup G))
        <4>1. Offered(c) \cup G = InForce(source, c) \cup (Has(c) \cup G)
          BY <1>5
        <4> QED
          BY <3>1, <4>1
      <3>3. /\ New(c) \subseteq InForce(source, c) \cup (Has(c) \cup G)
            /\ Introduces(source[c]) \cap (Has(c) \cup G) = {}
        BY <1>4, <3>2
      <3> QED
        BY <1>1, <3>3
    <2>2. NoClash
      BY <1>6, <2>1
    <2>3. \A c \in 1..Len(source) : New(c) \subseteq Has(c)
      BY <1>2, <2>1, <2>2
    <2> QED
      BY <1>3, <2>2, <2>3
  <1>9. ASSUME NoClash, Named, NEW c \in 1..Len(source), NEW G
        PROVE  Fits(w[c], Offered(c) \cup G) <=> Introduces(source[c]) \cap G = {}
    <2>1. Offered(c) \cup G = InForce(source, c) \cup (Has(c) \cup G)
      BY <1>5
    <2>2. New(c) \subseteq Has(c)
      BY <1>3, <1>9
    <2>3. Introduces(source[c]) \cap Has(c) = {}
      BY <1>7, <1>9
    <2>4. Fits(w[c], InForce(source, c) \cup (Has(c) \cup G)) <=>
            /\ New(c) \subseteq InForce(source, c) \cup (Has(c) \cup G)
            /\ Introduces(source[c]) \cap (Has(c) \cup G) = {}
      BY <1>4
    <2> QED
      BY <2>1, <2>2, <2>3, <2>4
  <1> QED
    BY <1>8, <1>9 DEF Named

\* Numbers follow the order in which the parser leaves the nodes.
LEMMA NumberOrders ==
    ASSUME NEW S \in SUBSET (Nat \X Nat), IsFiniteSet(S), NEW p \in S, NEW q \in S
    PROVE  Before(p, q) <=> Number(p, S) < Number(q, S)
  <1> DEFINE Behind(x) == {y \in S : Before(y, x)}
  <1>1. ASSUME NEW x \in S, NEW y \in S, Before(x, y) PROVE Number(x, S) < Number(y, S)
    <2>1. Behind(x) \in SUBSET S /\ x \notin Behind(x) /\ Behind(y) \in SUBSET S
      BY BeforeOrders
    <2>2. IsFiniteSet(Behind(x)) /\ IsFiniteSet(Behind(y))
      BY <2>1, FS_Subset
    <2>3. Behind(x) \cup {x} \in SUBSET Behind(y)
      BY <1>1, BeforeOrders
    <2>4. /\ Number(x, S) = Cardinality(Behind(x)) + 1
          /\ Number(y, S) = Cardinality(Behind(y)) + 1
      BY DEF Number
    <2> HIDE DEF Behind
    <2>5. /\ Cardinality(Behind(x) \cup {x}) = Cardinality(Behind(x)) + 1
          /\ Cardinality(Behind(x)) \in Nat /\ Cardinality(Behind(y)) \in Nat
      BY <2>1, <2>2, FS_AddElement, FS_CardinalityType
    <2>6. Cardinality(Behind(x) \cup {x}) <= Cardinality(Behind(y))
      BY <2>2, <2>3, FS_Subset
    <2> QED
      BY <2>4, <2>5, <2>6
  <1>2. Number(p, S) \in Nat /\ Number(q, S) \in Nat
    <2>1. Number(p, S) \in 1..Cardinality(S) /\ Number(q, S) \in 1..Cardinality(S)
      BY Numbering
    <2> QED
      BY <2>1
  <1>3. p = q \/ Before(p, q) \/ Before(q, p)
    BY BeforeOrders
  <1>4. ASSUME Before(q, p) PROVE ~(Number(p, S) < Number(q, S))
    BY <1>1, <1>2, <1>4
  <1>5. ASSUME p = q PROVE ~(Number(p, S) < Number(q, S)) /\ ~Before(p, q)
    BY <1>2, <1>5, BeforeOrders
  <1> QED
    BY <1>1, <1>3, <1>4, <1>5

\* An equation uses its own name, what the original speaks of and names that
\* were made up, and gives the names that the original gives.
LEMMA CopyParts ==
    ASSUME TypeOK, Ordinary, NEW w, Parsed(w), NEW k \in 1..NumBavs,
           NEW p \in Nodes(source), bexps[k] = SubtreeAt(w, p)
    PROVE  /\ \E G \in SUBSET NewNames(source[p[1]].term, w[p[1]].term) :
                Uses(BavInit(k)) = {BavName(k)} \cup Free(SubtreeAt(source, p)) \cup G
           /\ Introduces(BavInit(k)) = LabelsOf(p)
           /\ WellTermed(BavInit(k))
           /\ LabelsOf(p) \subseteq SourceNames
  <1> DEFINE v == BavName(k)
             b == SubtreeAt(w, p)
             e == <<Leaf(v)>> \o b \o <<Apply(Op("="), Len(b) + 2)>>
  <1>1. /\ b \in Seq(Node)
        /\ \E G \in SUBSET NewNames(source[p[1]].term, w[p[1]].term) :
             Free(b) = Free(SubtreeAt(source, p)) \cup G
        /\ \A n \in 1..Len(b) : b[n].bound \cap BavNames = {}
    BY CopiedTerm
  <1>2. v \in BavNames /\ v \in Symbol /\ v \notin Builtin
    <2>1. NumBavs \in Nat
      BY PartsType
    <2>2. v \in BavNames /\ v \in Symbol
      BY <2>1, NameType DEF BavNames
    <2> QED
      BY <2>2, GeneratedApart
  <1>3. Labels(b) = LabelsOf(p) /\ NamedOnce(b) /\ LabelsOf(p) \subseteq SourceNames
    <2> DEFINE c == p[1]
               i == p[2]
               t == source[c].term
               u == w[c].term
               a == SubtreeAt(source, p)
    <2>1. c \in DOMAIN source /\ i \in DOMAIN t
      BY NodesElim
    <2>2. /\ source \in Seq(Command) /\ c \in 1..Len(source)
          /\ i \in 1..Len(t) /\ t \in Seq(Node) /\ t[i].size \in 1..i
      <3>1. source \in Seq(Command) /\ t \in Seq(Node) /\ t[i].size \in 1..i
        BY <2>1, SourceType
      <3> QED
        BY <2>1, <3>1, LenProperties
    <2>3. Renamed(t, u, GenNames)
      BY <2>2, ParsedTerms
    <2>4. NamedOnce(t) /\ Labels(t) \subseteq SourceNames
      <3>1. WellTermed(source[c])
        BY <2>2, LegalParts DEF Ordinary, WellFormed
      <3> QED
        BY <2>1, <3>1 DEF WellTermed, SourceNames, Introduces
    <2>5. a = Subtree(t, i) /\ b = Subtree(u, i)
      BY DEF SubtreeAt
    <2> HIDE DEF t, u, c, i, a, b
    <2>6. t[i].size <= i
      BY <2>2
    <2>7. Renamed(a, b, GenNames)
      BY <2>2, <2>3, <2>5, <2>6, RenamedSubtree
    <2>8. Labels(b) = Labels(a) /\ (NamedOnce(b) <=> NamedOnce(a))
      <3>1. /\ a \in Seq(Node) /\ b \in Seq(Node) /\ Len(b) = Len(a)
            /\ \A n \in 1..Len(a) : IF a[n].kind \in Constants THEN \E g : b[n] = Leaf(g)
                                                              ELSE b[n] = a[n]
        BY <2>7 DEF Renamed
      <3> QED
        BY <3>1, LabelsRenamed
    <2>9. Labels(a) \subseteq Labels(t) /\ NamedOnce(a)
      BY <2>2, <2>4, <2>5, <2>6, LabelsSubtree
    <2> QED
      BY <2>4, <2>8, <2>9 DEF LabelsOf, a
  <1>4. BavInit(k) = AssertThat(e)
    BY DEF BavInit
  <1> HIDE DEF b, v
  <1>5. Free(e) = {v} \cup Free(b)
    <2>1. \A n \in 1..Len(b) : v \notin b[n].bound
      BY <1>1, <1>2
    <2> QED
      BY <1>1, <1>2, <2>1, FreeEquation
  <1>6. Labels(e) = Labels(b) /\ NamedOnce(e)
    BY <1>1, <1>2, <1>3, LabelsEquation
  <1>7. e # <<>>
    BY <1>5, NoLabels
  <1> HIDE DEF e
  <1>8. /\ AssertThat(e).term = e /\ AssertThat(e).params = {}
        /\ AssertThat(e).kind = "assert"
    BY DEF AssertThat, Cmd
  <1>9. Uses(BavInit(k)) = {v} \cup Free(b)
    BY <1>4, <1>5, <1>8 DEF Uses
  <1>10. Introduces(BavInit(k)) = LabelsOf(p) /\ WellTermed(BavInit(k))
    BY <1>3, <1>4, <1>6, <1>7, <1>8 DEF Introduces, WellTermed
  <1> QED
    BY <1>1, <1>3, <1>9, <1>10 DEF b, v

\* It fits behind the declarations if its original could have been written
\* there.
LEMMA InitFits ==
    ASSUME TypeOK, Ordinary, NEW w, Parsed(w), ~Unsupported,
           SourceNames \cap (GenNames \cup BavNames) = {},
           NEW k \in 1..NumBavs, NEW p \in Nodes(source), bexps[k] = SubtreeAt(w, p), NEW H
    PROVE  Fits(BavInit(k), Made \cup H) <=>
             Free(SubtreeAt(source, p)) \subseteq H /\ LabelsOf(p) \cap H = {}
  <1> DEFINE o == Free(SubtreeAt(source, p))
  <1>1. PICK G \in SUBSET NewNames(source[p[1]].term, w[p[1]].term) :
               Uses(BavInit(k)) = {BavName(k)} \cup o \cup G
    BY CopyParts
  <1>2. Introduces(BavInit(k)) = LabelsOf(p) /\ LabelsOf(p) \subseteq SourceNames
    BY CopyParts
  <1>3. G \subseteq newVars
    <2>1. p[1] \in 1..Len(source)
      <3>1. source \in Seq(Command) /\ p[1] \in DOMAIN source
        BY SourceType, NodesElim
      <3> QED
        BY <3>1, LenProperties
    <2> QED
      BY <2>1, NumeralsOnly
  <1>4. newVars \subseteq GenNames /\ BavName(k) \in BavNames
    BY DEF TypeOK, BavNames
  <1>5. o \cap Made = {}
    <2>1. SourceNames \cap (newVars \cup BavNames) = {}
      BY <1>4
    <2> QED
      BY <2>1, OwnNames DEF Made
  <1> QED
    BY <1>1, <1>2, <1>3, <1>4, <1>5 DEF Fits, Made

\* The names that the copied terms give, and those of the equations that stand
\* before the k-th.
CopyNames == UNION {LabelsOf(p) : p \in SourceBools}
LaterNames(k) == UNION {Introduces(BavInit(l)) : l \in (k + 1)..NumBavs}
NamesBehind(p) == UNION {LabelsOf(q) : q \in {q \in SourceBools : Before(p, q)}}

\* Number is a numbering of the boolean operations by their equations.
LEMMA CopiesNumbered ==
    ASSUME TypeOK, Ordinary, Numbered, phase = "ready", Parsed(BeforeDecls)
    PROVE  /\ \A p \in SourceBools : LET k == Number(p, SourceBools)
                                     IN  /\ k \in 1..NumBavs
                                         /\ bexps[k] = SubtreeAt(BeforeDecls, p)
                                         /\ LaterNames(k) = NamesBehind(p)
           /\ \A k \in 1..NumBavs : \E p \in SourceBools : k = Number(p, SourceBools)
           /\ \A k \in 1..NumBavs : WellTermed(BavInit(k))
           /\ UNION {Introduces(BavInit(k)) : k \in 1..NumBavs} = CopyNames
           /\ CopyNames \subseteq SourceNames
           /\ NumBavs # 0 <=> SourceBools # {}
  <1> DEFINE S == SourceBools
             num(p) == Number(p, S)
  <1>1. /\ NumBavs = Cardinality(S) /\ S \in SUBSET (Nat \X Nat) /\ IsFiniteSet(S)
        /\ \A p \in S : bexps[num(p)] = SubtreeAt(BeforeDecls, p)
        /\ S \subseteq Nodes(source)
    BY AllNumbered DEF SourceBools
  <1>2. /\ \A p \in S : num(p) \in 1..NumBavs
        /\ \A k \in 1..NumBavs : Nth(S, k) \in S /\ num(Nth(S, k)) = k
    BY <1>1, Numbering
  <1>3. \A k \in 1..NumBavs : \E p \in S : k = num(p)
    BY <1>2
  <1>4. \A p, q \in S : Before(p, q) <=> num(p) < num(q)
    BY <1>1, NumberOrders
  <1>5. NumBavs \in Nat
    BY PartsType
  <1>6. \A p \in S : /\ Introduces(BavInit(num(p))) = LabelsOf(p)
                     /\ WellTermed(BavInit(num(p)))
                     /\ LabelsOf(p) \subseteq SourceNames
    BY <1>1, <1>2, CopyParts
  <1> HIDE DEF num, S
  <1>7. ASSUME NEW p \in S PROVE LaterNames(num(p)) = NamesBehind(p)
    <2>1. ASSUME NEW x \in LaterNames(num(p)) PROVE x \in NamesBehind(p)
      <3>1. PICK l \in (num(p) + 1)..NumBavs : x \in Introduces(BavInit(l))
        BY DEF LaterNames
      <3>2. l \in 1..NumBavs /\ num(p) < l
        BY <1>2, <1>5
      <3>3. PICK q \in S : l = num(q)
        BY <1>3, <3>2
      <3>4. Before(p, q) /\ x \in LabelsOf(q)
        BY <1>4, <1>6, <3>1, <3>2, <3>3
      <3> QED
        BY <3>4 DEF NamesBehind, S
    <2>2. ASSUME NEW x \in NamesBehind(p) PROVE x \in LaterNames(num(p))
      <3>1. PICK q \in S : Before(p, q) /\ x \in LabelsOf(q)
        BY DEF NamesBehind, S
      <3>2. num(q) \in (num(p) + 1)..NumBavs
        BY <1>2, <1>4, <1>5, <3>1
      <3>3. x \in Introduces(BavInit(num(q)))
        BY <1>6, <3>1
      <3> QED
        BY <3>2, <3>3 DEF LaterNames
    <2> QED
      BY <2>1, <2>2
  <1>8. UNION {Introduces(BavInit(k)) : k \in 1..NumBavs} = CopyNames
    <2>1. \A k \in 1..NumBavs : \E p \in S : Introduces(BavInit(k)) = LabelsOf(p)
      BY <1>3, <1>6
    <2>2. \A p \in S : \E k \in 1..NumBavs : Introduces(BavInit(k)) = LabelsOf(p)
      BY <1>2, <1>6
    <2> QED
      BY <2>1, <2>2 DEF CopyNames, S
  <1>9. \A k \in 1..NumBavs : WellTermed(BavInit(k))
    BY <1>3, <1>6
  <1>10. CopyNames \subseteq SourceNames
    BY <1>6 DEF CopyNames, S
  <1>11. NumBavs # 0 <=> S # {}
    <2>1. NumBavs # 0 <=> \E k \in 1..NumBavs : TRUE
      BY <1>5
    <2> QED
      BY <1>2, <1>3, <2>1
  <1> QED
    BY <1>1, <1>2, <1>3, <1>7, <1>8, <1>9, <1>10, <1>11 DEF S, num

\* The equations fit behind the declarations if every copied term could have
\* been written there, and no two give the same name.
LEMMA CopiesFit ==
    ASSUME TypeOK, Ordinary, Numbered, phase = "ready", Parsed(BeforeDecls), ~Unsupported,
           SourceNames \cap (GenNames \cup BavNames) = {}
    PROVE  (\A k \in 1..NumBavs :
               Fits(BavInit(k), Made \cup (InForce(source, Query) \cup LaterNames(k))))
           <=> \A p \in SourceBools :
                 /\ Liftable(p)
                 /\ LabelsOf(p) \cap InForce(source, Query) = {}
                 /\ \A q \in SourceBools \ {p} : LabelsOf(p) \cap LabelsOf(q) = {}
  <1> DEFINE S == SourceBools
             num(p) == Number(p, S)
             F == InForce(source, Query)
             Fit(k) == Fits(BavInit(k), Made \cup (F \cup LaterNames(k)))
  <1>1. /\ \A p \in S : /\ num(p) \in 1..NumBavs
                        /\ bexps[num(p)] = SubtreeAt(BeforeDecls, p)
                        /\ LaterNames(num(p)) = NamesBehind(p)
        /\ \A k \in 1..NumBavs : \E p \in S : k = num(p)
    BY CopiesNumbered
  <1>2. S \subseteq Nodes(source) /\ S \subseteq Nat \X Nat
    BY AllNumbered DEF SourceBools
  <1>3. ASSUME NEW p \in S
        PROVE  Fit(num(p)) <=> Liftable(p) /\ LabelsOf(p) \cap (F \cup NamesBehind(p)) = {}
    <2> DEFINE H == F \cup NamesBehind(p)
    <2>1. Fits(BavInit(num(p)), Made \cup H) <=>
             Free(SubtreeAt(source, p)) \subseteq H /\ LabelsOf(p) \cap H = {}
      <3> HIDE DEF H, num
      <3> QED
        BY <1>1, <1>2, InitFits
    <2>2. Liftable(p) <=> Free(SubtreeAt(source, p)) \subseteq H
      BY DEF Liftable, NamesBehind
    <2> QED
      BY <1>1, <2>1, <2>2
  <1>4. \A p, q \in S : p = q \/ Before(p, q) \/ Before(q, p)
    BY <1>2, BeforeOrders
  <1>5. \A p \in S : ~Before(p, p)
    BY <1>2, BeforeOrders
  <1>6. (\A k \in 1..NumBavs : Fit(k)) <=> \A p \in S : Fit(num(p))
    BY <1>1
  <1>7. \A p \in S : LabelsOf(p) \cap NamesBehind(p) = {} <=>
                       \A q \in S : Before(p, q) => LabelsOf(p) \cap LabelsOf(q) = {}
    BY DEF NamesBehind
  <1>8. (\A p \in S : LabelsOf(p) \cap NamesBehind(p) = {})
           <=> \A p \in S : \A q \in S \ {p} : LabelsOf(p) \cap LabelsOf(q) = {}
    <2> HIDE DEF S
    <2> QED
      BY <1>4, <1>5, <1>7
  <1> HIDE DEF Fit, num, F, S
  <1>9. (\A p \in S : Fit(num(p))) <=>
          /\ \A p \in S : Liftable(p) /\ LabelsOf(p) \cap F = {}
          /\ \A p \in S : LabelsOf(p) \cap NamesBehind(p) = {}
    BY <1>3
  <1>10. (\A k \in 1..NumBavs : Fit(k)) <=>
          /\ \A p \in S : Liftable(p) /\ LabelsOf(p) \cap F = {}
          /\ \A p \in S : \A q \in S \ {p} : LabelsOf(p) \cap LabelsOf(q) = {}
    BY <1>6, <1>8, <1>9
  <1> QED
    BY <1>10 DEF Fit, F, S

\* What stands before the first check-sat at the end: the truth assertion and
\* the equations, the later ones first.
LEMMA QueryFits ==
    ASSUME TypeOK, NEW x \in Command, Introduces(x) = {}, NEW F
    PROVE  LET t == Reverse(Append(Inits, x))
           IN  /\ NamesOf(t) = UNION {Introduces(BavInit(k)) : k \in 1..NumBavs}
               /\ (\A p \in 1..Len(t) : Fits(t[p], F \cup NamesBefore(t, p))) <=>
                    /\ Fits(x, F)
                    /\ \A k \in 1..NumBavs : Fits(BavInit(k), F \cup LaterNames(k))
  <1> DEFINE a == Append(Inits, x)
             t == Reverse(a)
             n == NumBavs
             At(k) == n + 2 - k
  <1>1. /\ n \in Nat /\ Inits \in Seq(Command) /\ Len(Inits) = n
        /\ \A k \in 1..n : Inits[k] = BavInit(k)
    BY PartsType
  <1>2. /\ a \in Seq(Command) /\ Len(a) = n + 1 /\ a[n + 1] = x
        /\ \A k \in 1..n : a[k] = BavInit(k)
    BY <1>1, AppendProperties
  <1> HIDE DEF a, n
  <1>3. /\ Len(t) = n + 1
        /\ \A p \in 1..(n + 1) : t[p] = a[(n + 1) + 1 - p]
    BY <1>2, ReverseItems
  <1> HIDE DEF t
  <1>4. 1 \in 1..(n + 1) /\ t[1] = x
    <2>1. 1 \in 1..(n + 1) /\ (n + 1) + 1 - 1 = n + 1
      BY <1>1
    <2> QED
      BY <1>2, <1>3, <2>1
  <1>5. ASSUME NEW k \in 1..n
        PROVE  At(k) \in 2..(n + 1) /\ t[At(k)] = BavInit(k)
    <2>1. At(k) \in 2..(n + 1) /\ At(k) \in 1..(n + 1) /\ (n + 1) + 1 - At(k) = k
      BY <1>1
    <2> HIDE DEF At
    <2> QED
      BY <1>2, <1>3, <2>1
  <1>6. \A p \in 2..(n + 1) : \E k \in 1..n : p = At(k)
    <2> SUFFICES ASSUME NEW p \in 2..(n + 1) PROVE \E k \in 1..n : p = At(k)
      OBVIOUS
    <2>1. n + 2 - p \in 1..n /\ p = At(n + 2 - p)
      BY <1>1
    <2> QED
      BY <2>1
  <1>7. \A p \in 1..(n + 1) : p = 1 \/ p \in 2..(n + 1)
    BY <1>1
  <1>8. \A p \in 2..(n + 1) : p \in 1..(n + 1)
    BY <1>1
  <1>9. \A k, l \in 1..n : At(l) < At(k) <=> k < l
    BY <1>1
  <1> HIDE DEF At
  <1>10. NamesBefore(t, 1) = {}
    BY DEF NamesBefore
  <1>11. ASSUME NEW k \in 1..n PROVE NamesBefore(t, At(k)) = LaterNames(k)
    <2>1. ASSUME NEW y \in NamesBefore(t, At(k)) PROVE y \in LaterNames(k)
      <3>1. PICK p \in 1..(At(k) - 1) : y \in Introduces(t[p])
        BY DEF NamesBefore
      <3>2. p \in 2..(n + 1) /\ p < At(k)
        <4>1. p # 1
          BY <1>4, <3>1
        <4> QED
          BY <1>1, <1>5, <4>1
      <3>3. PICK l \in 1..n : p = At(l)
        BY <1>6, <3>2
      <3>4. k < l /\ y \in Introduces(BavInit(l))
        BY <1>5, <1>9, <3>1, <3>2, <3>3
      <3>5. l \in (k + 1)..n
        BY <1>1, <3>4
      <3> QED
        BY <3>4, <3>5 DEF LaterNames, n
    <2>2. ASSUME NEW y \in LaterNames(k) PROVE y \in NamesBefore(t, At(k))
      <3>1. PICK l \in (k + 1)..n : y \in Introduces(BavInit(l))
        BY DEF LaterNames, n
      <3>2. l \in 1..n /\ k < l
        BY <1>1
      <3>3. At(l) \in 2..(n + 1) /\ At(k) \in 2..(n + 1) /\ At(l) < At(k) /\ t[At(l)] = BavInit(l)
        BY <1>5, <1>9, <3>2
      <3>4. At(l) \in 1..(At(k) - 1)
        BY <1>1, <3>3
      <3> QED
        BY <3>1, <3>3, <3>4 DEF NamesBefore
    <2> QED
      BY <2>1, <2>2
  <1>12. NamesOf(t) = UNION {Introduces(BavInit(k)) : k \in 1..n}
    <2>1. \A p \in 1..(n + 1) : Introduces(t[p]) = {} \/
                                \E k \in 1..n : Introduces(t[p]) = Introduces(BavInit(k))
      BY <1>4, <1>5, <1>6, <1>7
    <2>2. \A k \in 1..n : \E p \in 1..(n + 1) : Introduces(t[p]) = Introduces(BavInit(k))
      BY <1>5, <1>8
    <2> QED
      BY <1>3, <2>1, <2>2 DEF NamesOf
  <1>13. ASSUME \A p \in 1..(n + 1) : Fits(t[p], F \cup NamesBefore(t, p))
         PROVE  /\ Fits(x, F)
                /\ \A k \in 1..n : Fits(BavInit(k), F \cup LaterNames(k))
    <2>1. Fits(x, F \cup {})
      BY <1>4, <1>10, <1>13
    <2>2. F \cup {} = F
      OBVIOUS
    <2>3. \A k \in 1..n : Fits(BavInit(k), F \cup LaterNames(k))
      BY <1>5, <1>8, <1>11, <1>13
    <2> QED
      BY <2>1, <2>2, <2>3
  <1>14. ASSUME Fits(x, F), \A k \in 1..n : Fits(BavInit(k), F \cup LaterNames(k)),
                NEW p \in 1..(n + 1)
         PROVE  Fits(t[p], F \cup NamesBefore(t, p))
    <2>1. CASE p = 1
      <3>1. F \cup {} = F
        OBVIOUS
      <3> QED
        BY <1>4, <1>10, <1>14, <2>1, <3>1
    <2>2. CASE p \in 2..(n + 1)
      <3>1. PICK k \in 1..n : p = At(k)
        BY <1>6, <2>2
      <3> QED
        BY <1>5, <1>11, <1>14, <3>1
    <2> QED
      BY <1>7, <2>1, <2>2
  <1> QED
    BY <1>3, <1>12, <1>13, <1>14 DEF t, a, n

\* No command of the sample gives a name that a copy of an operation gives it.
LEMMA NamesKeptApart ==
    ASSUME TypeOK
    PROVE  (\A c \in 1..Len(source) :
              Introduces(source[c]) \cap Given(source, Query, c, CopyNames) = {})
           <=> \A p \in SourceBools : \A c \in Query..Len(source) :
                 Kept(source, Query, c) => LabelsOf(p) \cap Introduces(source[c]) = {}
  <1>1. Len(source) \in Nat /\ Query \in 1..(Len(source) + 1)
    <2>1. source \in Seq(Command)
      BY SourceType
    <2> QED
      BY <2>1, FirstQueryIs, LenProperties DEF Query
  <1>2. \A c \in Query..Len(source) : c \in 1..Len(source)
    BY <1>1
  <1>3. \A c \in 1..Len(source) : Kept(source, Query, c) => c \in Query..Len(source)
    BY <1>1 DEF Kept
  <1>4. \A c : Introduces(source[c]) \cap Given(source, Query, c, CopyNames) = {} <=>
                 (Kept(source, Query, c) =>
                    \A p \in SourceBools : LabelsOf(p) \cap Introduces(source[c]) = {})
    BY DEF Given, CopyNames
  <1> QED
    BY <1>2, <1>3, <1>4

\* Which variants of an ordinary sample the solvers accept: those of a sample
\* without decimals, strings, bit-vectors and huge constants, with a boolean
\* operation, all of whose boolean operations speak of names in force at the
\* first check-sat and give no name twice, which has none of the names made up
\* for it, and which resets nothing between the declarations and where their
\* names are used (lib.rs:79-152, 291, 324-335).
THEOREM Accepted == Spec => []AcceptedExactly
  <1>1. TypeOK /\ Built /\ Numbered => AcceptedExactly
    <2> DEFINE w == BeforeDecls
               d == BeforeInits
               e == endAt
               x == script[e]
               t == Reverse(Append(Inits, x))
               Supported == /\ ~Unsupported
                            /\ SourceNames \cap (GenNames \cup BavNames) = {}
                            /\ \A p \in SourceConstants : Reached(p[1])
    <2> SUFFICES ASSUME TypeOK, Built, Numbered, phase = "ready", Ordinary
                 PROVE  Legal(script) <=>
                          /\ SourceBools # {}
                          /\ Supported
                          /\ Reached(Query)
                          /\ \A p \in SourceBools : Liftable(p) /\ Nameable(p)
      BY DEF AcceptedExactly
    <2>1. /\ Parsed(w) /\ d = InsertEach(w, AfterLogic(w), Decls)
          /\ e = FirstQuery(d) /\ x = AssertThat(BamTerm(values)) /\ values \in Assignments
          /\ script = InsertEach(d, e, Append(Inits, x))
      BY DEF Built
    <2>2. /\ d \in Seq(Command) /\ WellFormed(d) /\ e \in 1..(Len(d) + 1)
          /\ InForce(d, e) = Offered(Query)
          /\ \A L : FitWith(d, e, L) =>
               \A c \in 1..Len(source) : \E G \in SUBSET L : Fits(w[c], Offered(c) \cup G)
          /\ AfterLogic(source) <= Query =>
               \A L : FitWith(d, e, L) <=>
                 \A c \in 1..Len(source) :
                   Fits(w[c], Offered(c) \cup Given(source, Query, c, L))
      BY <2>1, DeclsFit
    <2>3. x \in Command
      BY BuiltParts
    <2>4. /\ t \in Seq(Command)
          /\ \A p \in 1..Len(t) : t[p] = x \/ \E k \in 1..NumBavs : t[p] = BavInit(k)
          /\ \E p \in 1..Len(t) : t[p] = x
          /\ \A k \in 1..NumBavs : \E p \in 1..Len(t) : t[p] = BavInit(k)
      BY <2>3, QueryItems
    <2>5. Uses(x) \subseteq BavNames /\ Introduces(x) = {} /\ (WellTermed(x) <=> NumBavs # 0)
      <3>1. values \in Seq(BOOLEAN) /\ Len(values) = NumBavs /\ NumBavs \in Nat
        BY <2>1, PartsType DEF Assignments
      <3>2. /\ Free(BamTerm(values)) \subseteq {BavName(k) : k \in 1..Len(values)}
            /\ BamTerm(values) = <<>> <=> Len(values) = 0
            /\ Labels(BamTerm(values)) = {} /\ NamedOnce(BamTerm(values))
        BY <3>1, FreeBam
      <3>3. x.term = BamTerm(values) /\ x.params = {} /\ x.kind = "assert"
        BY <2>1 DEF AssertThat, Cmd
      <3> QED
        BY <3>1, <3>2, <3>3 DEF Uses, BavNames, Introduces, WellTermed
    <2>6. /\ \A p \in SourceBools : LET k == Number(p, SourceBools) IN k \in 1..NumBavs
          /\ \A k \in 1..NumBavs : WellTermed(BavInit(k))
          /\ UNION {Introduces(BavInit(k)) : k \in 1..NumBavs} = CopyNames
          /\ CopyNames \subseteq SourceNames
          /\ NumBavs # 0 <=> SourceBools # {}
      BY <2>1, CopiesNumbered
    <2>7. \A p \in 1..Len(t) : t[p].kind = "assert"
      <3>1. x.kind = "assert" /\ \A k : BavInit(k).kind = "assert"
        BY <2>1 DEF BavInit, AssertThat, Cmd
      <3> QED
        BY <2>4, <3>1
    <2>8. script \in Seq(Command) /\ Inserted(script, d, e, t)
      <3>1. Append(Inits, x) \in Seq(Command)
        BY <2>3, PartsType, AppendProperties
      <3> HIDE DEF d, e, x
      <3>2. Inserted(InsertEach(d, e, Append(Inits, x)), d, e, Reverse(Append(Inits, x)))
        BY <2>2, <3>1, InsertItems
      <3> QED
        BY <2>1, <3>2 DEF TypeOK, IsScript
    <2> HIDE DEF w, d, e, x
    <2>9. /\ NamesOf(t) = CopyNames
          /\ (\A p \in 1..Len(t) : Fits(t[p], InForce(d, e) \cup NamesBefore(t, p))) <=>
               /\ Fits(x, InForce(d, e))
               /\ \A k \in 1..NumBavs : Fits(BavInit(k), InForce(d, e) \cup LaterNames(k))
      BY <2>3, <2>5, <2>6, QueryFits
    <2> HIDE DEF t
    <2>10. Spliced(script, d, e, t)
      BY <2>2, <2>4, <2>7, <2>8 DEF Spliced, Resets
    <2>11. WellFormed(script) <=> SourceBools # {}
      <3>1. LogicBehind(d, e)
        BY <2>1, <2>2, QueryBehind DEF WellFormed
      <3>2. WellFormed(script) <=> \A p \in 1..Len(t) : WellTermed(t[p])
        BY <2>2, <2>7, <2>10, <3>1, WellFormedSpliced
      <3>3. (\A p \in 1..Len(t) : WellTermed(t[p])) <=> WellTermed(x)
        BY <2>4, <2>6
      <3> QED
        BY <2>5, <2>6, <3>2, <3>3
    <2> DEFINE Decld == FitWith(d, e, CopyNames)
               Asked == Fits(x, Offered(Query))
               Defined == \A k \in 1..NumBavs : Fits(BavInit(k), Offered(Query) \cup LaterNames(k))
    <2>12. Legal(script) <=> SourceBools # {} /\ Decld /\ Asked /\ Defined
      <3>1. NamesFit(script) <=>
              /\ FitWith(d, e, NamesOf(t))
              /\ \A p \in 1..Len(t) : Fits(t[p], InForce(d, e) \cup NamesBefore(t, p))
        BY <2>10, NamesInserted
      <3>2. Legal(script) <=> WellFormed(script) /\ NamesFit(script)
        BY <2>8, LegalParts
      <3> QED
        BY <2>2, <2>9, <2>11, <3>1, <3>2
    <2>13. /\ (\A c \in 1..Len(source) :
                 \E G \in SUBSET CopyNames : Fits(w[c], Offered(c) \cup G)) => Supported
           /\ Supported =>
                \A c \in 1..Len(source) :
                  Fits(w[c], Offered(c) \cup Given(source, Query, c, CopyNames))
                  <=> Introduces(source[c]) \cap Given(source, Query, c, CopyNames) = {}
      BY <2>1, <2>6, CommandsFit
    <2> DEFINE Given1 == Given(source, AfterLogic(source), Query, Made)
    <2>14. Offered(Query) = InForce(source, Query) \cup Given1
      BY DEF Offered
    <2>15. ASSUME SourceBools # {}, Decld, Defined PROVE Supported /\ Reached(Query)
      <3>1. Supported
        BY <2>2, <2>13, <2>15
      <3>2. PICK p \in SourceBools : TRUE
        BY <2>15
      <3>3. PICK k \in 1..NumBavs : k = Number(p, SourceBools)
        BY <2>6
      <3>4. BavName(k) \in Uses(BavInit(k))
        <4>1. bexps[k] = SubtreeAt(w, p) /\ p \in Nodes(source)
          BY <2>1, <3>3, AllNumbered DEF SourceBools, w
        <4> QED
          BY <2>1, <4>1, CopyParts
      <3>5. BavName(k) \in Offered(Query) \cup LaterNames(k)
        BY <2>15, <3>4 DEF Fits
      <3>6. LaterNames(k) \subseteq SourceNames
        <4>1. \A l \in (k + 1)..NumBavs : l \in 1..NumBavs
          OBVIOUS
        <4> QED
          BY <2>6, <4>1 DEF LaterNames
      <3>7. InForce(source, Query) \subseteq SourceNames
        BY DEF InForce, SourceNames
      <3>8. BavName(k) \in Given1
        BY <2>14, <3>1, <3>5, <3>6, <3>7 DEF BavNames
      <3> QED
        BY <3>1, <3>8 DEF Given, Reached
    <2>16. ASSUME Supported, Reached(Query)
           PROVE  Decld /\ Asked /\ Defined
                    <=> \A p \in SourceBools : Liftable(p) /\ Nameable(p)
      <3>1. Offered(Query) = Made \cup InForce(source, Query) /\ AfterLogic(source) <= Query
        BY <2>14, <2>16 DEF Given, Reached, Kept
      <3>2. Asked
        BY <2>5, <3>1 DEF Fits, Made
      <3>3. Decld <=> \A p \in SourceBools : \A c \in Query..Len(source) :
                        Kept(source, Query, c) => LabelsOf(p) \cap Introduces(source[c]) = {}
        BY <2>2, <2>13, <2>16, <3>1, NamesKeptApart
      <3>4. Defined <=> \A k \in 1..NumBavs :
              Fits(BavInit(k), Made \cup (InForce(source, Query) \cup LaterNames(k)))
        <4>1. \A k : Offered(Query) \cup LaterNames(k) =
                       Made \cup (InForce(source, Query) \cup LaterNames(k))
          BY <3>1
        <4> QED
          BY <4>1
      <3>5. Defined <=> \A p \in SourceBools :
              /\ Liftable(p)
              /\ LabelsOf(p) \cap InForce(source, Query) = {}
              /\ \A q \in SourceBools \ {p} : LabelsOf(p) \cap LabelsOf(q) = {}
        BY <2>1, <2>16, <3>4, CopiesFit DEF w
      <3> QED
        BY <3>2, <3>3, <3>5 DEF Nameable
    <2> HIDE DEF Decld, Asked, Defined, Supported
    <2> QED
      BY <2>12, <2>15, <2>16
  <1> QED
    BY <1>1, TypeCorrect, WellBuilt, InNumberedOrder, PTL
=============================================================================
