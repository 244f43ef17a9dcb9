----------------------------- MODULE CswapProofs -----------------------------
(***************************************************************************)
(* What cswap's parser and printer do with every text.                     *)
(***************************************************************************)
EXTENDS Cswap, FiniteSetTheorems, SequenceTheorems, WellFoundedInduction, TLAPS

Text == Seq(Pieces)
Place(s) == 1..(Len(s) + 1)

-----------------------------------------------------------------------------
(* Induction along a text *)

\* A set of numbers that are not negative has a least one.
LEMMA LeastOne ==
    ASSUME NEW T, T \subseteq Nat, T # {}
    PROVE  \E k \in T : \A j \in T : k <= j
  <1> DEFINE R == OpToRel(<, Nat)
  <1>1. IsWellFoundedOn(R, Nat)
    BY NatLessThanWellFounded
  <1>2. \A j, k \in Nat : j < k => <<j, k>> \in R
    BY DEF OpToRel
  <1> HIDE DEF R
  <1>3. PICK k \in T : \A j \in T : ~(<<j, k>> \in R)
    BY <1>1, WFMin
  <1>4. ASSUME NEW j \in T PROVE k <= j
    <2>1. j \in Nat /\ k \in Nat /\ ~(j < k)
      BY <1>2, <1>3
    <2> QED
      BY <2>1
  <1> QED
    BY <1>4

\* What holds of a number when it holds of the smaller ones holds of all.
LEMMA Upward ==
    ASSUME NEW L \in Nat, NEW T,
           \A i \in 0..L : (\A k \in 0..(i - 1) : k \in T) => i \in T
    PROVE  \A i \in 0..L : i \in T
  <1> DEFINE B == {i \in 0..L : i \notin T}
  <1> SUFFICES ASSUME B # {} PROVE FALSE
    OBVIOUS
  <1>1. B \subseteq Nat
    OBVIOUS
  <1>2. PICK i \in B : \A j \in B : i <= j
    <2> HIDE DEF B
    <2> QED
      BY <1>1, LeastOne
  <1>3. \A k \in 0..(i - 1) : k \in T
    BY <1>2
  <1> QED
    BY <1>2, <1>3

\* What holds of a place when it holds of those behind it holds of all.
LEMMA Downward ==
    ASSUME NEW L \in Nat, NEW T,
           \A i \in 1..L : (\A k \in (i + 1)..L : k \in T) => i \in T
    PROVE  \A i \in 1..L : i \in T
  <1> DEFINE U == {i \in 0..L : i < L => L - i \in T}
  <1>1. ASSUME NEW i \in 0..L, \A k \in 0..(i - 1) : k \in U PROVE i \in U
    <2> SUFFICES ASSUME i < L PROVE L - i \in T
      OBVIOUS
    <2>1. L - i \in 1..L
      OBVIOUS
    <2>2. ASSUME NEW k \in ((L - i) + 1)..L PROVE k \in T
      <3>1. L - k \in 0..(i - 1) /\ L - (L - k) = k /\ L - k < L
        OBVIOUS
      <3> QED
        BY <1>1, <3>1
    <2> QED
      BY <2>1, <2>2
  <1>2. \A i \in 0..L : i \in U
    <2> HIDE DEF U
    <2> QED
      BY <1>1, Upward
  <1>3. ASSUME NEW i \in 1..L PROVE i \in T
    <2>1. L - i \in 0..L /\ L - i < L /\ L - (L - i) = i
      OBVIOUS
    <2> QED
      BY <1>2, <2>1
  <1> QED
    BY <1>3

-----------------------------------------------------------------------------
(* Runs of pieces *)

\* The run from i of pieces in the set, or not in it, ends at j.
RunsTo(s, i, set, j) ==
    /\ j \in i..(Len(s) + 1)
    /\ \A k \in i..(j - 1) : s[k] \in set
    /\ j <= Len(s) => s[j] \notin set
RunsUntil(s, i, set, j) ==
    /\ j \in i..(Len(s) + 1)
    /\ \A k \in i..(j - 1) : s[k] \notin set
    /\ j <= Len(s) => s[j] \in set

LEMMA RunExists ==
    ASSUME NEW s, Len(s) \in Nat, NEW i \in Place(s), NEW set
    PROVE  \E j : RunsTo(s, i, set, j)
  <1> DEFINE L == Len(s) + 1
             T == {j \in i..L : j <= Len(s) => s[j] \notin set}
  <1>1. L \in T /\ T \subseteq Nat
    BY DEF Place
  <1>2. PICK j \in T : \A k \in T : j <= k
    <2> HIDE DEF T
    <2> QED
      BY <1>1, LeastOne
  <1>3. \A k \in i..(j - 1) : s[k] \in set
    BY <1>2 DEF Place
  <1> QED
    BY <1>2, <1>3 DEF RunsTo

LEMMA RunUntilExists ==
    ASSUME NEW s, Len(s) \in Nat, NEW i \in Place(s), NEW set
    PROVE  \E j : RunsUntil(s, i, set, j)
  <1> DEFINE L == Len(s) + 1
             T == {j \in i..L : j <= Len(s) => s[j] \in set}
  <1>1. L \in T /\ T \subseteq Nat
    BY DEF Place
  <1>2. PICK j \in T : \A k \in T : j <= k
    <2> HIDE DEF T
    <2> QED
      BY <1>1, LeastOne
  <1>3. \A k \in i..(j - 1) : s[k] \notin set
    BY <1>2 DEF Place
  <1> QED
    BY <1>2, <1>3 DEF RunsUntil

LEMMA RunUnique ==
    ASSUME NEW s, Len(s) \in Nat, NEW i \in Place(s), NEW set, NEW j, NEW k,
           \/ RunsTo(s, i, set, j) /\ RunsTo(s, i, set, k)
           \/ RunsUntil(s, i, set, j) /\ RunsUntil(s, i, set, k)
    PROVE  j = k
  <1>1. j \in Int /\ k \in Int
    BY DEF RunsTo, RunsUntil, Place
  <1>2. ~(j < k)
    BY <1>1 DEF RunsTo, RunsUntil, Place
  <1>3. ~(k < j)
    BY <1>1 DEF RunsTo, RunsUntil, Place
  <1> QED
    BY <1>1, <1>2, <1>3

\* RunEnd and RunUntil find the ends of the runs.
LEMMA RunEndIs ==
    ASSUME NEW s, Len(s) \in Nat, NEW i \in Place(s), NEW set
    PROVE  /\ RunsTo(s, i, set, RunEnd(s, i, set))
           /\ \A j : RunsTo(s, i, set, j) => RunEnd(s, i, set) = j
  <1>1. PICK j : RunsTo(s, i, set, j)
    BY RunExists
  <1>2. RunEnd(s, i, set) = CHOOSE k \in i..(Len(s) + 1) : RunsTo(s, i, set, k)
    BY DEF RunEnd, RunsTo
  <1>3. RunsTo(s, i, set, RunEnd(s, i, set))
    BY <1>1, <1>2 DEF RunsTo
  <1> QED
    BY <1>3, RunUnique

LEMMA RunUntilIs ==
    ASSUME NEW s, Len(s) \in Nat, NEW i \in Place(s), NEW set
    PROVE  /\ RunsUntil(s, i, set, RunUntil(s, i, set))
           /\ \A j : RunsUntil(s, i, set, j) => RunUntil(s, i, set) = j
  <1>1. PICK j : RunsUntil(s, i, set, j)
    BY RunUntilExists
  <1>2. RunUntil(s, i, set) = CHOOSE k \in i..(Len(s) + 1) : RunsUntil(s, i, set, k)
    BY DEF RunUntil, RunsUntil
  <1>3. RunsUntil(s, i, set, RunUntil(s, i, set))
    BY <1>1, <1>2 DEF RunsUntil
  <1> QED
    BY <1>3, RunUnique

-----------------------------------------------------------------------------
(* Results *)

\* A result of a parser at place i of s: a failure, or a value of V and a
\* place further on.
Yields(r, s, i, V) ==
    \/ r = None
    \/ r = Fatal
    \/ \E j \in (i + 1)..(Len(s) + 1), v \in V : r = Got(j, v)

Kinds ==
    {"Open", "Between", "Close", "UInt", "Dec", "Hex", "Bin", "Str", "Symbol", "Int",
     "Real", "UserDef"}
MarkSet == [kind : Kinds, text : Text]
Marks == Seq(MarkSet)
CmdKinds ==
    {"Assert", "CheckSatAssuming", "CheckSat", "GetModel", "Logic", "DeclConst", "Generic"}
CmdSet == [kind : CmdKinds, text : Text, tree : Marks]

LEMMA TextType ==
    ASSUME NEW s \in Text
    PROVE  /\ Len(s) \in Nat /\ DOMAIN s = 1..Len(s)
           /\ Len(s) + 1 \in Place(s)
           /\ \A k \in 1..Len(s) : s[k] \in Pieces
  BY LenProperties DEF Text, Place

LEMMA CutType ==
    ASSUME NEW s \in Text, NEW i \in Place(s), NEW j \in i..(Len(s) + 1)
    PROVE  SubSeq(s, i, j - 1) \in Text
  <1>1. \A k \in i..(j - 1) : s[k] \in Pieces
    BY TextType DEF Place
  <1> QED
    BY <1>1, TextType, SubSeqProperties DEF Place, Text

LEMMA GotEnd ==
    ASSUME NEW j, NEW v
    PROVE  /\ Got(j, v).end = "ok" /\ Got(j, v).at = j /\ Got(j, v).val = v
           /\ Ok(Got(j, v)) /\ ~Ok(None) /\ ~Ok(Fatal)
           /\ None.end = "none" /\ Fatal.end = "fatal"
  BY DEF Got, Ok, None, Fatal

LEMMA YieldsAt ==
    ASSUME NEW s, NEW i, NEW V, NEW r, Yields(r, s, i, V), Ok(r)
    PROVE  r.at \in (i + 1)..(Len(s) + 1) /\ r.val \in V /\ r = Got(r.at, r.val)
  BY GotEnd DEF Yields

LEMMA YieldsWeaker ==
    ASSUME NEW s, NEW i \in Nat, NEW j \in i..(Len(s) + 1), Len(s) \in Nat, NEW V, NEW r,
           Yields(r, s, j, V)
    PROVE  Yields(r, s, i, V)
  BY DEF Yields

LEMMA Run1Yields ==
    ASSUME NEW s \in Text, NEW i \in Place(s), NEW j \in i..(Len(s) + 1)
    PROVE  Yields(Run1(s, i, j), s, i, Text)
  BY CutType, TextType DEF Run1, Yields, Place

LEMMA TagOne ==
    ASSUME NEW s \in Text, NEW i \in Place(s), NEW p
    PROVE  Tag(s, i, <<p>>) = IF i <= Len(s) /\ s[i] = p THEN Got(i + 1, <<p>>) ELSE None
  <1>1. Len(<<p>>) = 1 /\ i + 1 - 1 = i /\ i + Len(<<p>>) - 1 = i /\ Len(s) \in Nat
    BY TextType DEF Place
  <1>2. ASSUME i <= Len(s) PROVE SubSeq(s, i, i) = <<s[i]>>
    <2>1. \A k \in i..i : s[k] \in Pieces
      BY <1>1, <1>2, TextType DEF Place
    <2>2. /\ SubSeq(s, i, i) \in Seq(Pieces) /\ Len(SubSeq(s, i, i)) = 1
          /\ SubSeq(s, i, i)[1] = s[i]
      BY <1>1, <2>1, SubSeqProperties DEF Place
    <2>3. <<s[i]>> \in Seq(Pieces) /\ Len(<<s[i]>>) = 1 /\ <<s[i]>>[1] = s[i]
      BY <2>1, <1>1
    <2>4. /\ Len(SubSeq(s, i, i)) = Len(<<s[i]>>)
          /\ \A k \in 1..Len(SubSeq(s, i, i)) : SubSeq(s, i, i)[k] = <<s[i]>>[k]
      BY <2>2, <2>3
    <2> QED
      BY <2>2, <2>3, <2>4, SeqEqual
  <1>3. i <= Len(s) => (SubSeq(s, i, i) = <<p>> <=> s[i] = p)
    BY <1>2
  <1> QED
    BY <1>1, <1>3 DEF Tag

LEMMA TagYields ==
    ASSUME NEW s \in Text, NEW i \in Place(s), NEW w \in Text, w # <<>>
    PROVE  Yields(Tag(s, i, w), s, i, Text)
  <1>1. Len(w) \in Nat /\ Len(w) > 0
    BY DEF Text
  <1> QED
    BY <1>1, TextType DEF Tag, Yields, Place

LEMMA BlanksAt ==
    ASSUME NEW s \in Text, NEW i \in Place(s)
    PROVE  /\ RunsTo(s, i, Blanks, multispace0(s, i))
           /\ multispace0(s, i) \in i..(Len(s) + 1)
           /\ multispace0(s, i) \in Place(s)
  BY RunEndIs, TextType DEF multispace0, RunsTo, Place

LEMMA ThenBlanksYields ==
    ASSUME NEW s \in Text, NEW i \in Place(s), NEW r, NEW V, Yields(r, s, i, V)
    PROVE  Yields(ThenBlanks(s, r), s, i, V)
  <1>1. CASE Ok(r)
    <2>1. PICK j \in (i + 1)..(Len(s) + 1), v \in V : r = Got(j, v)
      BY <1>1, GotEnd DEF Yields
    <2>2. j \in Place(s)
      BY <2>1, TextType DEF Place
    <2>3. multispace0(s, j) \in j..(Len(s) + 1)
      BY <2>2, BlanksAt
    <2>4. multispace0(s, j) \in (i + 1)..(Len(s) + 1)
      BY <2>1, <2>3, TextType DEF Place
    <2> QED
      BY <1>1, <2>1, <2>4, GotEnd DEF ThenBlanks, Yields
  <1> QED
    BY <1>1 DEF ThenBlanks

LEMMA LeafYields ==
    ASSUME NEW s \in Text, NEW i \in Place(s), NEW r, Yields(r, s, i, Text),
           NEW kind \in Kinds
    PROVE  Yields(Leaf(kind, r), s, i, Marks)
  <1>1. CASE Ok(r)
    <2>1. PICK j \in (i + 1)..(Len(s) + 1), v \in Text : r = Got(j, v)
      BY <1>1, GotEnd DEF Yields
    <2>2. <<Mark(kind, v)>> \in Marks
      BY <2>1 DEF Mark, Marks, MarkSet
    <2> QED
      BY <1>1, <2>1, <2>2, GotEnd DEF Leaf, Mapped, Yields
  <1>2. CASE ~Ok(r)
    BY <1>2, GotEnd DEF Leaf, Mapped, Yields
  <1> QED
    BY <1>1, <1>2

LEMMA OneIn ==
    ASSUME NEW S, NEW x \in S
    PROVE  /\ <<x>> \in Seq(S) /\ Len(<<x>>) = 1 /\ <<x>>[1] = x
           /\ <<x>> # <<>>
  OBVIOUS

\* alt takes the first that does not fail.
LEMMA FirstIs ==
    ASSUME NEW rs, NEW n \in Nat, DOMAIN rs = 1..n
    PROVE  \/ First(rs) = None /\ \A k \in 1..n : rs[k].end = "none"
           \/ \E k \in 1..n : /\ First(rs) = rs[k] /\ rs[k].end # "none"
                              /\ \A j \in 1..(k - 1) : rs[j].end = "none"
  <1>1. CASE \A k \in 1..n : rs[k].end = "none"
    BY <1>1 DEF First
  <1>2. CASE \E k \in 1..n : rs[k].end # "none"
    <2> DEFINE T == {k \in 1..n : rs[k].end # "none"}
    <2>1. PICK m \in T : \A j \in T : m <= j
      <3>1. T # {} /\ T \subseteq Nat
        BY <1>2
      <3> HIDE DEF T
      <3> QED
        BY <3>1, LeastOne
    <2>2. m \in 1..n /\ rs[m].end # "none" /\ \A j \in 1..(m - 1) : rs[j].end = "none"
      BY <2>1
    <2>3. First(rs) = rs[CHOOSE k \in 1..n :
                rs[k].end # "none" /\ \A j \in 1..(k - 1) : rs[j].end = "none"]
      BY <1>2 DEF First
    <2> QED
      BY <2>2, <2>3
  <1> QED
    BY <1>1, <1>2

LEMMA FirstYields ==
    ASSUME NEW rs, NEW n \in Nat, DOMAIN rs = 1..n, NEW s, NEW i, NEW V,
           \A k \in 1..n : Yields(rs[k], s, i, V)
    PROVE  Yields(First(rs), s, i, V)
  BY FirstIs DEF Yields

LEMMA First2 ==
    ASSUME NEW p, NEW q
    PROVE  First(<<p, q>>) = IF p.end # "none" THEN p
                             ELSE IF q.end # "none" THEN q ELSE None
  <1> DEFINE rs == <<p, q>>
  <1>1. DOMAIN rs = 1..2 /\ rs[1] = p /\ rs[2] = q
    OBVIOUS
  <1>2. \/ First(rs) = None /\ \A k \in 1..2 : rs[k].end = "none"
        \/ \E k \in 1..2 : /\ First(rs) = rs[k] /\ rs[k].end # "none"
                           /\ \A j \in 1..(k - 1) : rs[j].end = "none"
    <2> HIDE DEF rs
    <2> QED
      BY <1>1, FirstIs
  <1> QED
    BY <1>1, <1>2

-----------------------------------------------------------------------------
(* Constants and symbols *)

LEMMA IntegerYields ==
    ASSUME NEW s \in Text, NEW i \in Place(s)
    PROVE  Yields(integer(s, i), s, i, Text)
  <1>1. RunEnd(s, i, {"1"}) \in i..(Len(s) + 1)
    BY RunEndIs, TextType DEF RunsTo
  <1>2. Yields(Run1(s, i, RunEnd(s, i, {"1"})), s, i, Text)
    BY <1>1, Run1Yields
  <1> QED
    BY <1>2 DEF integer, Yields

LEMMA HexYields ==
    ASSUME NEW s \in Text, NEW i \in Place(s)
    PROVE  Yields(hex(s, i), s, i, Text) /\ Yields(bin(s, i), s, i, Text)
  <1>1. CASE i <= Len(s)
    <2>1. i + 1 \in Place(s) /\ Len(s) \in Nat
      BY <1>1, TextType DEF Place
    <2>2. ASSUME NEW set PROVE Yields(Run1(s, i, RunEnd(s, i + 1, set)), s, i, Text)
      <3>1. RunEnd(s, i + 1, set) \in i..(Len(s) + 1)
        BY <2>1, RunEndIs DEF RunsTo, Place
      <3> QED
        BY <3>1, Run1Yields
    <2> QED
      BY <2>2 DEF hex, bin, Yields
  <1>2. CASE ~(i <= Len(s))
    <2>1. ~Ok(Tag(s, i, <<"#x1">>)) /\ ~Ok(Tag(s, i, <<"#b1">>))
      BY <1>2, TagOne, GotEnd
    <2> QED
      BY <2>1 DEF hex, bin, Yields
  <1> QED
    BY <1>1, <1>2

LEMMA StringYields ==
    ASSUME NEW s \in Text, NEW i \in Place(s)
    PROVE  Yields(string(s, i), s, i, Text)
  <1>1. CASE Ok(Tag(s, i, <<Quote>>))
    <2>1. i <= Len(s) /\ i + 1 \in Place(s) /\ Len(s) \in Nat
      BY <1>1, TagOne, GotEnd, TextType DEF Place
    <2> DEFINE j == RunUntil(s, i + 1, {Quote})
    <2>2. j \in (i + 1)..(Len(s) + 1)
      BY <2>1, RunUntilIs DEF RunsUntil
    <2> HIDE DEF j
    <2>3. j \in Place(s) /\ SubSeq(s, i + 1, j - 1) \in Text
      BY <2>1, <2>2, CutType DEF Place
    <2>4. Tag(s, j, <<Quote>>) \in {None, Got(j + 1, <<Quote>>)}
      BY <2>3, TagOne
    <2>5. Tag(s, j, <<Quote>>) = Got(j + 1, <<Quote>>) => j <= Len(s)
      BY <2>3, TagOne, GotEnd
    <2>6. string(s, i) = Mapped(Tag(s, j, <<Quote>>), LAMBDA v : SubSeq(s, i + 1, j - 1))
      BY <1>1 DEF string, j
    <2>7. \/ string(s, i) = None
          \/ j <= Len(s) /\ string(s, i) = Got(j + 1, SubSeq(s, i + 1, j - 1))
      BY <2>4, <2>5, <2>6, GotEnd DEF Mapped
    <2> QED
      BY <2>1, <2>2, <2>3, <2>7 DEF Yields, Place
  <1> QED
    BY <1>1 DEF string, Yields

LEMMA SymbolYields ==
    ASSUME NEW s \in Text, NEW i \in Place(s)
    PROVE  Yields(symbol(s, i), s, i, Text)
  <1>1. RunUntil(s, i, Blanks \cup Parens) \in i..(Len(s) + 1)
    BY RunUntilIs, TextType DEF RunsUntil
  <1> QED
    BY <1>1, Run1Yields DEF symbol

\* The parts of a decimal.
Sign(s, i) == IF i <= Len(s) /\ s[i] = "-" THEN i + 1 ELSE i
Whole(s, i) == RunEnd(s, Sign(s, i), {"1"})
Point(s, i) == Whole(s, i) <= Len(s) /\ s[Whole(s, i)] = "."
Part(s, i) == IF Point(s, i) THEN RunEnd(s, Whole(s, i) + 1, {"1"}) ELSE Whole(s, i)
Power(s, i) == Part(s, i) <= Len(s) /\ s[Part(s, i)] = "e"
Digits(s, p) == IF p < Len(s) /\ s[p + 1] = "-" THEN p + 2 ELSE p + 1
DecimalEnd(s, i) ==
    IF Power(s, i) THEN RunEnd(s, Digits(s, Part(s, i)), {"1"}) ELSE Part(s, i)

LEMMA DecimalIs ==
    ASSUME NEW s, NEW i
    PROVE  decimal(s, i) =
             IF Whole(s, i) = Sign(s, i) /\ (~Point(s, i) \/ Part(s, i) = Whole(s, i) + 1)
             THEN None
             ELSE IF Power(s, i) /\ DecimalEnd(s, i) = Digits(s, Part(s, i)) THEN Fatal
             ELSE Run1(s, i, DecimalEnd(s, i))
  BY DEF decimal, Sign, Whole, Point, Part, Power, Digits, DecimalEnd

LEMMA DecimalParts ==
    ASSUME NEW s \in Text, NEW i \in Place(s)
    PROVE  /\ Sign(s, i) \in i..(Len(s) + 1)
           /\ RunsTo(s, Sign(s, i), {"1"}, Whole(s, i))
           /\ Whole(s, i) \in i..(Len(s) + 1)
           /\ Point(s, i) => RunsTo(s, Whole(s, i) + 1, {"1"}, Part(s, i))
           /\ Part(s, i) \in i..(Len(s) + 1) /\ Whole(s, i) <= Part(s, i)
           /\ Power(s, i) => RunsTo(s, Digits(s, Part(s, i)), {"1"}, DecimalEnd(s, i))
           /\ DecimalEnd(s, i) \in i..(Len(s) + 1)
           /\ Part(s, i) <= DecimalEnd(s, i)
  <1>0. Len(s) \in Nat /\ i \in 1..(Len(s) + 1)
    BY TextType DEF Place
  <1>1. Sign(s, i) \in i..(Len(s) + 1)
    BY <1>0 DEF Sign
  <1>2. RunsTo(s, Sign(s, i), {"1"}, Whole(s, i))
    BY <1>0, <1>1, RunEndIs DEF Whole, Place
  <1>3. Whole(s, i) \in i..(Len(s) + 1)
    BY <1>0, <1>1, <1>2 DEF RunsTo
  <1>4. Point(s, i) => RunsTo(s, Whole(s, i) + 1, {"1"}, Part(s, i))
    <2> SUFFICES ASSUME Point(s, i) PROVE RunsTo(s, Whole(s, i) + 1, {"1"}, Part(s, i))
      OBVIOUS
    <2>1. Whole(s, i) + 1 \in Place(s)
      BY <1>0, <1>3 DEF Place, Point
    <2> QED
      BY <1>0, <2>1, RunEndIs DEF Part
  <1>5. Part(s, i) \in i..(Len(s) + 1) /\ Whole(s, i) <= Part(s, i)
    BY <1>0, <1>3, <1>4 DEF Part, RunsTo
  <1>6. Power(s, i) => RunsTo(s, Digits(s, Part(s, i)), {"1"}, DecimalEnd(s, i))
    <2> SUFFICES ASSUME Power(s, i)
                 PROVE  RunsTo(s, Digits(s, Part(s, i)), {"1"}, DecimalEnd(s, i))
      OBVIOUS
    <2>1. Digits(s, Part(s, i)) \in Place(s)
      BY <1>0, <1>5 DEF Place, Power, Digits
    <2> QED
      BY <1>0, <2>1, RunEndIs DEF DecimalEnd
  <1>7. DecimalEnd(s, i) \in i..(Len(s) + 1) /\ Part(s, i) <= DecimalEnd(s, i)
    BY <1>0, <1>5, <1>6 DEF DecimalEnd, RunsTo, Digits
  <1> QED
    BY <1>1, <1>2, <1>3, <1>4, <1>5, <1>6, <1>7

LEMMA DecimalYields ==
    ASSUME NEW s \in Text, NEW i \in Place(s)
    PROVE  Yields(decimal(s, i), s, i, Text)
  <1>1. Yields(Run1(s, i, DecimalEnd(s, i)), s, i, Text)
    BY DecimalParts, Run1Yields
  <1> QED
    BY <1>1, DecimalIs DEF Yields

LEMMA ConstantYields ==
    ASSUME NEW s \in Text, NEW i \in Place(s)
    PROVE  Yields(constant(s, i), s, i, Marks)
  <1> DEFINE rs == <<Leaf("UInt", integer(s, i)), Leaf("Dec", decimal(s, i)),
                     Leaf("Hex", hex(s, i)), Leaf("Bin", bin(s, i)),
                     Leaf("Str", string(s, i))>>
  <1>1. /\ Yields(Leaf("UInt", integer(s, i)), s, i, Marks)
        /\ Yields(Leaf("Dec", decimal(s, i)), s, i, Marks)
        /\ Yields(Leaf("Hex", hex(s, i)), s, i, Marks)
        /\ Yields(Leaf("Bin", bin(s, i)), s, i, Marks)
        /\ Yields(Leaf("Str", string(s, i)), s, i, Marks)
    BY IntegerYields, DecimalYields, HexYields, StringYields, LeafYields DEF Kinds
  <1>2. DOMAIN rs = 1..5 /\ \A k \in 1..5 : Yields(rs[k], s, i, Marks)
    BY <1>1
  <1>3. constant(s, i) = First(rs)
    BY DEF constant
  <1> HIDE DEF rs
  <1> QED
    BY <1>2, <1>3, FirstYields

LEMMA SingleYields ==
    ASSUME NEW s \in Text, NEW i \in Place(s), NEW what
    PROVE  Yields(single(what, s, i), s, i, Marks)
  <1>1. Yields(Leaf("Symbol", symbol(s, i)), s, i, Marks)
        /\ Yields(Leaf("UserDef", symbol(s, i)), s, i, Marks)
    BY SymbolYields, LeafYields DEF Kinds
  <1>2. Yields(Leaf("Int", Tag(s, i, <<"Int">>)), s, i, Marks)
        /\ Yields(Leaf("Real", Tag(s, i, <<"Real">>)), s, i, Marks)
    <2>1. <<"Int">> \in Text /\ <<"Real">> \in Text
      <3>1. "Int" \in Pieces /\ "Real" \in Pieces
        BY DEF Pieces
      <3> QED
        BY <3>1 DEF Text
    <2> QED
      BY <2>1, TagYields, LeafYields DEF Kinds
  <1>3. CASE what = "sexp"
    <2> DEFINE rs == <<constant(s, i), Leaf("Symbol", symbol(s, i))>>
    <2>1. DOMAIN rs = 1..2 /\ \A k \in 1..2 : Yields(rs[k], s, i, Marks)
      BY <1>1, ConstantYields
    <2>2. single(what, s, i) = First(rs)
      BY <1>3 DEF single
    <2> HIDE DEF rs
    <2> QED
      BY <2>1, <2>2, FirstYields
  <1>4. CASE what # "sexp"
    <2> DEFINE rs == <<Leaf("Int", Tag(s, i, <<"Int">>)), Leaf("Real", Tag(s, i, <<"Real">>)),
                       Leaf("UserDef", symbol(s, i))>>
    <2>1. DOMAIN rs = 1..3 /\ \A k \in 1..3 : Yields(rs[k], s, i, Marks)
      BY <1>1, <1>2
    <2>2. single(what, s, i) = First(rs)
      BY <1>4 DEF single
    <2> HIDE DEF rs
    <2> QED
      BY <2>1, <2>2, FirstYields
  <1> QED
    BY <1>3, <1>4

-----------------------------------------------------------------------------
(* Functions that are defined by recursion along a text *)

\* The functions that have a value of W[i] at each i.
ValuesAt(n, W) == {f \in [1..n -> UNION {W[i] : i \in 1..n}] : \A i \in 1..n : f[i] \in W[i]}

\* A value at each place, found from the values behind it.
LEMMA Backwards ==
    ASSUME NEW n \in Nat, NEW W, ValuesAt(n, W) # {}, NEW G,
           \A i \in 1..n, f \in ValuesAt(n, W) : G[<<i, f>>] \in W[i],
           \A i \in 1..n, f, g \in ValuesAt(n, W) :
               (\A k \in (i + 1)..n : f[k] = g[k]) => G[<<i, f>>] = G[<<i, g>>]
    PROVE  \E f \in ValuesAt(n, W) : \A i \in 1..n : f[i] = G[<<i, f>>]
  <1> DEFINE D == ValuesAt(n, W)
             T == {m \in 1..(n + 1) : \E f \in D : \A i \in m..n : f[i] = G[<<i, f>>]}
  <1>1. n + 1 \in T
    OBVIOUS
  <1>2. ASSUME NEW m \in 1..n, m + 1 \in T PROVE m \in T
    <2>1. PICK f \in D : \A i \in (m + 1)..n : f[i] = G[<<i, f>>]
      BY <1>2
    <2> DEFINE g == [f EXCEPT ![m] = G[<<m, f>>]]
    <2>2. f \in [1..n -> UNION {W[i] : i \in 1..n}] /\ \A i \in 1..n : f[i] \in W[i]
      BY DEF ValuesAt
    <2>3. g[m] = G[<<m, f>>] /\ \A i \in 1..n : i # m => g[i] = f[i]
      BY <2>2
    <2>4. g \in D
      <3>1. G[<<m, f>>] \in W[m]
        OBVIOUS
      <3>2. g \in [1..n -> UNION {W[i] : i \in 1..n}]
        BY <2>2, <3>1
      <3>3. \A i \in 1..n : g[i] \in W[i]
        BY <2>2, <2>3, <3>1
      <3> QED
        BY <3>2, <3>3 DEF ValuesAt
    <2> HIDE DEF g
    <2>5. ASSUME NEW i \in m..n PROVE g[i] = G[<<i, g>>]
      <3>1. i \in 1..n /\ \A k \in (i + 1)..n : f[k] = g[k]
        BY <2>3
      <3>2. G[<<i, f>>] = G[<<i, g>>]
        BY <2>4, <3>1
      <3> QED
        BY <2>1, <2>3, <3>2
    <2> QED
      BY <2>4, <2>5
  <1>3. \A i \in 1..(n + 1) : i \in T
    <2>1. ASSUME NEW i \in 1..(n + 1), \A k \in (i + 1)..(n + 1) : k \in T PROVE i \in T
      <3>1. i = n + 1 \/ (i \in 1..n /\ i + 1 \in (i + 1)..(n + 1))
        OBVIOUS
      <3> HIDE DEF T
      <3> QED
        BY <1>1, <1>2, <2>1, <3>1
    <2> HIDE DEF T
    <2> QED
      BY <2>1, Downward
  <1>4. 1 \in T
    BY <1>3
  <1> QED
    BY <1>4

-----------------------------------------------------------------------------
(* S-expressions and sorts *)

ResultSet(s, i, V) == {None, Fatal} \cup {Got(j, v) : j \in (i + 1)..(Len(s) + 1), v \in V}

LEMMA YieldsIn ==
    ASSUME NEW s, NEW i, NEW V, NEW r
    PROVE  Yields(r, s, i, V) <=> r \in ResultSet(s, i, V)
  BY DEF Yields, ResultSet

LEMMA ClosedYields ==
    ASSUME NEW s \in Text, NEW i \in Place(s), NEW r, NEW V, Yields(r, s, i, V)
    PROVE  Yields(Closed(s, r), s, i, V)
  <1>1. CASE Ok(r)
    <2>1. PICK j \in (i + 1)..(Len(s) + 1), v \in V : r = Got(j, v)
      BY <1>1, GotEnd DEF Yields
    <2>2. j \in Place(s) /\ Len(s) \in Nat
      BY <2>1, TextType DEF Place
    <2>3. Tag(s, j, <<")">>) = IF j <= Len(s) /\ s[j] = ")" THEN Got(j + 1, <<")">>) ELSE None
      BY <2>2, TagOne
    <2>4. Closed(s, r) = IF j <= Len(s) /\ s[j] = ")" THEN Got(j + 1, v) ELSE None
      BY <1>1, <2>1, <2>3, GotEnd DEF Closed, Mapped
    <2> QED
      BY <2>1, <2>2, <2>4 DEF Yields, Place
  <1>2. CASE ~Ok(r)
    BY <1>2 DEF Closed
  <1> QED
    BY <1>1, <1>2

\* A list at j.
ListAt(s, j, many) ==
    Mapped(IF Ok(Tag(s, j, <<"(">>)) THEN Closed(s, many[j + 1]) ELSE None,
           LAMBDA v : <<Open>> \o v \o <<Close>>)

LEMMA TreeIs ==
    ASSUME NEW s, NEW i, NEW what, NEW many
    PROVE  Tree(what, s, i, many) =
             ThenBlanks(s, First(<<ListAt(s, multispace0(s, i), many),
                                   single(what, s, multispace0(s, i))>>))
  BY DEF Tree, ListAt

LEMMA ListIs ==
    ASSUME NEW s \in Text, NEW j \in Place(s), NEW many
    PROVE  ListAt(s, j, many) =
             IF j <= Len(s) /\ s[j] = "("
             THEN IF Ok(Closed(s, many[j + 1]))
                  THEN Got(Closed(s, many[j + 1]).at,
                           <<Open>> \o Closed(s, many[j + 1]).val \o <<Close>>)
                  ELSE Closed(s, many[j + 1])
             ELSE None
  <1>1. Ok(Tag(s, j, <<"(">>)) <=> j <= Len(s) /\ s[j] = "("
    BY TagOne, GotEnd
  <1> QED
    BY <1>1, GotEnd DEF ListAt, Mapped

LEMMA WrapType ==
    ASSUME NEW v \in Marks, NEW w \in Marks
    PROVE  /\ <<Open>> \o v \o <<Close>> \in Marks
           /\ v \o <<Between>> \o w \in Marks
  <1>1. Open \in MarkSet /\ Close \in MarkSet /\ Between \in MarkSet
    <2>1. "(" \in Pieces /\ ")" \in Pieces /\ " " \in Pieces
      BY DEF Pieces, Blanks, Parens
    <2>2. <<"(">> \in Text /\ <<")">> \in Text /\ <<" ">> \in Text
      <3>1. \A p \in Pieces : <<p>> \in Text
        BY OneIn DEF Text
      <3> QED
        BY <2>1, <3>1
    <2> QED
      BY <2>2 DEF Open, Close, Between, Mark, MarkSet, Kinds
  <1> QED
    BY <1>1 DEF Marks

LEMMA ListYields ==
    ASSUME NEW s \in Text, NEW j \in Place(s), NEW many,
           j <= Len(s) => Yields(many[j + 1], s, j + 1, Marks)
    PROVE  Yields(ListAt(s, j, many), s, j, Marks)
  <1>1. CASE j <= Len(s) /\ s[j] = "("
    <2>1. j + 1 \in Place(s) /\ Len(s) \in Nat /\ j \in Nat
      BY <1>1, TextType DEF Place
    <2>2. Yields(Closed(s, many[j + 1]), s, j + 1, Marks)
      BY <1>1, <2>1, ClosedYields
    <2>3. CASE Ok(Closed(s, many[j + 1]))
      <3>1. PICK k \in (j + 2)..(Len(s) + 1), v \in Marks : Closed(s, many[j + 1]) = Got(k, v)
        BY <2>1, <2>2, <2>3, GotEnd DEF Yields
      <3>2. ListAt(s, j, many) = Got(k, <<Open>> \o v \o <<Close>>)
        BY <1>1, <2>3, <3>1, ListIs, GotEnd
      <3>3. k \in (j + 1)..(Len(s) + 1)
        BY <2>1
      <3> QED
        BY <3>2, <3>3, WrapType DEF Yields
    <2>4. CASE ~Ok(Closed(s, many[j + 1]))
      BY <1>1, <2>2, <2>4, ListIs, GotEnd DEF Yields
    <2> QED
      BY <2>3, <2>4
  <1>2. CASE ~(j <= Len(s) /\ s[j] = "(")
    BY <1>2, ListIs DEF Yields
  <1> QED
    BY <1>1, <1>2

LEMMA TreeYields ==
    ASSUME NEW s \in Text, NEW i \in Place(s), NEW what, NEW many,
           \A k \in (i + 1)..(Len(s) + 1) : Yields(many[k], s, k, Marks)
    PROVE  Yields(Tree(what, s, i, many), s, i, Marks)
  <1> DEFINE j == multispace0(s, i)
             p == ListAt(s, j, many)
             q == single(what, s, j)
  <1>1. j \in Place(s) /\ j \in i..(Len(s) + 1) /\ Len(s) \in Nat /\ i \in Nat
    BY BlanksAt, TextType DEF Place
  <1> HIDE DEF j
  <1>2. Yields(p, s, j, Marks) /\ Yields(q, s, j, Marks)
    BY <1>1, ListYields, SingleYields
  <1>3. Yields(First(<<p, q>>), s, j, Marks)
    <2> HIDE DEF p, q
    <2> QED
      BY <1>2, First2 DEF Yields
  <1>4. Yields(First(<<p, q>>), s, i, Marks)
    BY <1>1, <1>3, YieldsWeaker
  <1> QED
    BY <1>4, TreeIs, ThenBlanksYields DEF j

LEMMA TreeLocal ==
    ASSUME NEW s \in Text, NEW i \in Place(s), NEW what, NEW f, NEW g,
           \A k \in (i + 1)..(Len(s) + 1) : f[k] = g[k]
    PROVE  Tree(what, s, i, f) = Tree(what, s, i, g)
  <1> DEFINE j == multispace0(s, i)
  <1>1. j \in Place(s) /\ j \in i..(Len(s) + 1) /\ Len(s) \in Nat /\ i \in Nat
    BY BlanksAt, TextType DEF Place
  <1> HIDE DEF j
  <1>2. j <= Len(s) => f[j + 1] = g[j + 1]
    BY <1>1
  <1>3. ListAt(s, j, f) = ListAt(s, j, g)
    BY <1>1, <1>2, ListIs
  <1> QED
    BY <1>3, TreeIs DEF j

ManyStep(what, s, i, many) ==
    LET one == Tree(what, s, i, many)
        more == many[one.at]
    IN  IF ~Ok(one) \/ more.end = "none" THEN one
        ELSE Mapped(more, LAMBDA v : one.val \o <<Between>> \o v)

LEMMA ManyStepIs ==
    ASSUME NEW s, NEW i, NEW what, NEW many
    PROVE  LET one == Tree(what, s, i, many)
               more == many[one.at]
           IN  ManyStep(what, s, i, many) =
                 IF ~Ok(one) \/ more.end = "none" THEN one
                 ELSE IF Ok(more) THEN Got(more.at, one.val \o <<Between>> \o more.val)
                 ELSE more
  BY DEF ManyStep, Mapped

LEMMA ManyStepYields ==
    ASSUME NEW s \in Text, NEW i \in Place(s), NEW what, NEW many,
           \A k \in (i + 1)..(Len(s) + 1) : Yields(many[k], s, k, Marks)
    PROVE  Yields(ManyStep(what, s, i, many), s, i, Marks)
  <1> DEFINE one == Tree(what, s, i, many)
             more == many[one.at]
  <1>1. Yields(one, s, i, Marks)
    BY TreeYields
  <1>2. ManyStep(what, s, i, many) =
          IF ~Ok(one) \/ more.end = "none" THEN one
          ELSE IF Ok(more) THEN Got(more.at, one.val \o <<Between>> \o more.val)
          ELSE more
    BY ManyStepIs
  <1> HIDE DEF one
  <1>3. CASE ~Ok(one) \/ more.end = "none"
    BY <1>1, <1>2, <1>3
  <1>4. CASE Ok(one) /\ more.end # "none"
    <2>1. one.at \in (i + 1)..(Len(s) + 1) /\ one.val \in Marks
      BY <1>1, <1>4, YieldsAt
    <2>2. Yields(more, s, one.at, Marks) /\ one.at \in Nat /\ i \in Nat /\ Len(s) \in Nat
      BY <2>1, TextType DEF Place
    <2>3. CASE Ok(more)
      <3>1. more.at \in (one.at + 1)..(Len(s) + 1) /\ more.val \in Marks
        BY <2>2, <2>3, YieldsAt
      <3>2. more.at \in (i + 1)..(Len(s) + 1)
        BY <2>1, <2>2, <3>1
      <3>3. one.val \o <<Between>> \o more.val \in Marks
        BY <2>1, <3>1, WrapType
      <3> QED
        BY <1>2, <1>4, <2>3, <3>2, <3>3 DEF Yields
    <2>4. CASE ~Ok(more)
      BY <1>2, <1>4, <2>2, <2>4, GotEnd DEF Yields
    <2> QED
      BY <2>3, <2>4
  <1> QED
    BY <1>3, <1>4

LEMMA ManyStepLocal ==
    ASSUME NEW s \in Text, NEW i \in Place(s), NEW what, NEW f, NEW g,
           \A k \in (i + 1)..(Len(s) + 1) : Yields(f[k], s, k, Marks),
           \A k \in (i + 1)..(Len(s) + 1) : f[k] = g[k]
    PROVE  ManyStep(what, s, i, f) = ManyStep(what, s, i, g)
  <1>1. Tree(what, s, i, f) = Tree(what, s, i, g)
    BY TreeLocal
  <1>2. Yields(Tree(what, s, i, f), s, i, Marks)
    BY TreeYields
  <1>3. Ok(Tree(what, s, i, f)) =>
           f[Tree(what, s, i, f).at] = g[Tree(what, s, i, f).at]
    BY <1>2, YieldsAt
  <1> QED
    BY <1>1, <1>3, ManyStepIs

\* many1 has a result at each place.
LEMMA ManyIs ==
    ASSUME NEW s \in Text, NEW what, NEW i \in Place(s)
    PROVE  /\ Many(what, s)[i] = ManyStep(what, s, i, Many(what, s))
           /\ Yields(Many(what, s)[i], s, i, Marks)
  <1> DEFINE n == Len(s) + 1
             W == [k \in 1..n |-> ResultSet(s, k, Marks)]
             D == ValuesAt(n, W)
             G == [x \in (1..n) \X D |-> ManyStep(what, s, x[1], x[2])]
  <1>1. n \in Nat /\ Place(s) = 1..n
    BY TextType DEF Place
  <1>2. ASSUME NEW f \in D, NEW k \in 1..n PROVE Yields(f[k], s, k, Marks)
    BY <1>2, YieldsIn DEF ValuesAt
  <1>3. ASSUME NEW k \in 1..n, NEW f \in D
        PROVE  G[<<k, f>>] = ManyStep(what, s, k, f) /\ G[<<k, f>>] \in W[k]
    <2>1. \A q \in (k + 1)..(Len(s) + 1) : Yields(f[q], s, q, Marks)
      BY <1>1, <1>2
    <2>2. Yields(ManyStep(what, s, k, f), s, k, Marks)
      BY <1>1, <2>1, ManyStepYields
    <2>3. G[<<k, f>>] = ManyStep(what, s, k, f)
      OBVIOUS
    <2> QED
      BY <2>2, <2>3, YieldsIn
  <1>4. ASSUME NEW k \in 1..n, NEW f \in D, NEW g \in D, \A q \in (k + 1)..n : f[q] = g[q]
        PROVE  G[<<k, f>>] = G[<<k, g>>]
    <2>1. \A q \in (k + 1)..(Len(s) + 1) : Yields(f[q], s, q, Marks)
      BY <1>1, <1>2
    <2>2. k \in Place(s) /\ \A q \in (k + 1)..(Len(s) + 1) : f[q] = g[q]
      BY <1>1, <1>4
    <2>3. ManyStep(what, s, k, f) = ManyStep(what, s, k, g)
      <3> HIDE DEF n, D
      <3> QED
        BY <2>1, <2>2, ManyStepLocal
    <2> QED
      BY <1>3, <2>3
  <1>5. D # {}
    <2>1. [k \in 1..n |-> None] \in D
      BY DEF ValuesAt, ResultSet
    <2> QED
      BY <2>1
  <1>6. \E f \in D : \A k \in 1..n : f[k] = G[<<k, f>>]
    <2> HIDE DEF G, W, n
    <2> QED
      BY <1>1, <1>3, <1>4, <1>5, Backwards
  <1>7. PICK f \in D : \A k \in 1..n : f[k] = ManyStep(what, s, k, f)
    BY <1>3, <1>6
  <1>8. f = [k \in 1..n |-> ManyStep(what, s, k, f)]
    <2>1. f = [k \in 1..n |-> f[k]]
      BY DEF ValuesAt
    <2> HIDE DEF D
    <2> QED
      BY <1>7, <2>1
  <1>9. Many(what, s) = CHOOSE h : h = [k \in 1..n |-> ManyStep(what, s, k, h)]
    BY DEF Many, ManyStep, ThenMore
  <1>10. Many(what, s) = [k \in 1..n |-> ManyStep(what, s, k, Many(what, s))]
    <2> HIDE DEF D, n
    <2> QED
      BY <1>8, <1>9
  <1>11. \A k \in 1..n : Many(what, s)[k] = ManyStep(what, s, k, Many(what, s))
    <2> HIDE DEF n
    <2> DEFINE M == Many(what, s)
               h == [k \in 1..n |-> ManyStep(what, s, k, M)]
    <2>1. M = h
      BY <1>10
    <2>2. \A k \in 1..n : h[k] = ManyStep(what, s, k, M)
      OBVIOUS
    <2> HIDE DEF M, h
    <2>3. \A k \in 1..n : M[k] = ManyStep(what, s, k, M)
      BY <2>1, <2>2
    <2> QED
      BY <2>3 DEF M
  <1>12. ASSUME NEW k \in 1..n, \A q \in (k + 1)..n : Yields(Many(what, s)[q], s, q, Marks)
         PROVE  Yields(Many(what, s)[k], s, k, Marks)
    BY <1>1, <1>11, <1>12, ManyStepYields
  <1>13. \A k \in 1..n : Yields(Many(what, s)[k], s, k, Marks)
    <2> DEFINE T == {k \in 1..n : Yields(Many(what, s)[k], s, k, Marks)}
    <2>1. \A k \in 1..n : (\A q \in (k + 1)..n : q \in T) => k \in T
      <3> SUFFICES ASSUME NEW k \in 1..n, \A q \in (k + 1)..n : q \in T PROVE k \in T
        OBVIOUS
      <3> QED
        BY <1>12
    <2>2. \A k \in 1..n : k \in T
      <3> HIDE DEF T, n
      <3> QED
        BY <1>1, <2>1, Downward
    <2> QED
      BY <2>2
  <1> QED
    BY <1>1, <1>11, <1>13

-----------------------------------------------------------------------------
(* Balanced text *)

UnknownEnd(s, i, ends) ==
    LET one == Unknown(s, i, ends) IN IF Ok(one) THEN ends[one.at] ELSE i

LEMMA UnknownIs ==
    ASSUME NEW s \in Text, NEW i \in Place(s), NEW ends,
           i <= Len(s) => ends[i + 1] \in (i + 1)..(Len(s) + 1)
    PROVE  LET e == ends[i + 1]
               j == RunUntil(s, i, Parens)
           IN  Unknown(s, i, ends) =
                 IF i <= Len(s) /\ s[i] = "("
                 THEN IF e <= Len(s) /\ s[e] = ")" THEN Got(e + 1, SubSeq(s, i, e)) ELSE None
                 ELSE IF j > i THEN Got(j, SubSeq(s, i, j - 1)) ELSE None
  <1> DEFINE e == ends[i + 1]
  <1>1. Tag(s, i, <<"(">>) = IF i <= Len(s) /\ s[i] = "(" THEN Got(i + 1, <<"(">>) ELSE None
    BY TagOne
  <1>2. CASE i <= Len(s) /\ s[i] = "("
    <2>1. e \in Place(s)
      BY <1>2, TextType DEF Place
    <2>2. Unknown(s, i, ends) =
            LET r == Tag(s, e, <<")">>) IN IF Ok(r) THEN Got(r.at, SubSeq(s, i, e)) ELSE r
      BY <1>1, <1>2, GotEnd DEF Unknown, Mapped
    <2> HIDE DEF e
    <2>3. Tag(s, e, <<")">>) = IF e <= Len(s) /\ s[e] = ")" THEN Got(e + 1, <<")">>) ELSE None
      BY <2>1, TagOne
    <2>4. Unknown(s, i, ends) =
            IF e <= Len(s) /\ s[e] = ")" THEN Got(e + 1, SubSeq(s, i, e)) ELSE None
      BY <2>2, <2>3, GotEnd
    <2> QED
      BY <1>2, <2>4 DEF e
  <1>3. CASE ~(i <= Len(s) /\ s[i] = "(")
    BY <1>1, <1>3, GotEnd DEF Unknown, Run1
  <1> QED
    BY <1>2, <1>3

LEMMA UnknownYields ==
    ASSUME NEW s \in Text, NEW i \in Place(s), NEW ends,
           \A k \in (i + 1)..(Len(s) + 1) : ends[k] \in k..(Len(s) + 1)
    PROVE  /\ Yields(Unknown(s, i, ends), s, i, Text)
           /\ UnknownEnd(s, i, ends) \in i..(Len(s) + 1)
  <1> DEFINE e == ends[i + 1]
             j == RunUntil(s, i, Parens)
             r == Unknown(s, i, ends)
  <1>1. Len(s) \in Nat /\ i \in Nat /\ i >= 1 /\ i <= Len(s) + 1
    BY TextType DEF Place
  <1>2. i <= Len(s) => e \in (i + 1)..(Len(s) + 1)
    BY <1>1
  <1>3. j \in i..(Len(s) + 1)
    BY <1>1, RunUntilIs DEF RunsUntil
  <1>4. r = IF i <= Len(s) /\ s[i] = "("
            THEN IF e <= Len(s) /\ s[e] = ")" THEN Got(e + 1, SubSeq(s, i, e)) ELSE None
            ELSE IF j > i THEN Got(j, SubSeq(s, i, j - 1)) ELSE None
    BY <1>2, UnknownIs
  <1> HIDE DEF e, j, r
  <1>5. Yields(r, s, i, Text)
    <2>1. CASE i <= Len(s) /\ s[i] = "(" /\ e <= Len(s) /\ s[e] = ")"
      <3>1. e + 1 \in i..(Len(s) + 1) /\ e + 1 \in (i + 1)..(Len(s) + 1) /\ e + 1 - 1 = e
        BY <1>1, <1>2, <2>1
      <3>2. PICK m \in i..(Len(s) + 1) : m = e + 1
        BY <3>1
      <3>3. SubSeq(s, i, m - 1) \in Text
        BY CutType
      <3>4. m - 1 = e
        BY <1>1, <1>2, <2>1, <3>2
      <3> QED
        BY <1>4, <2>1, <3>1, <3>3, <3>4 DEF Yields
    <2>2. CASE ~(i <= Len(s) /\ s[i] = "(") /\ j > i
      <3>1. SubSeq(s, i, j - 1) \in Text /\ j \in (i + 1)..(Len(s) + 1)
        BY <1>1, <1>3, <2>2, CutType
      <3> QED
        BY <1>4, <2>2, <3>1 DEF Yields
    <2> QED
      BY <1>4, <2>1, <2>2 DEF Yields
  <1>6. Ok(r) => ends[r.at] \in i..(Len(s) + 1)
    <2> SUFFICES ASSUME Ok(r) PROVE ends[r.at] \in i..(Len(s) + 1)
      OBVIOUS
    <2>1. r.at \in (i + 1)..(Len(s) + 1)
      BY <1>5, YieldsAt
    <2> QED
      BY <1>1, <2>1
  <1> QED
    BY <1>1, <1>5, <1>6 DEF UnknownEnd, r

LEMMA UnknownLocal ==
    ASSUME NEW s \in Text, NEW i \in Place(s), NEW f, NEW g,
           \A k \in (i + 1)..(Len(s) + 1) : f[k] \in k..(Len(s) + 1),
           \A k \in (i + 1)..(Len(s) + 1) : f[k] = g[k]
    PROVE  UnknownEnd(s, i, f) = UnknownEnd(s, i, g)
  <1>1. i <= Len(s) => i + 1 \in (i + 1)..(Len(s) + 1)
    BY TextType DEF Place
  <1>2. Unknown(s, i, f) = Unknown(s, i, g)
    BY <1>1, UnknownIs
  <1>3. Yields(Unknown(s, i, f), s, i, Text)
    BY UnknownYields
  <1>4. Ok(Unknown(s, i, f)) => f[Unknown(s, i, f).at] = g[Unknown(s, i, f).at]
    BY <1>3, YieldsAt
  <1> QED
    BY <1>2, <1>4 DEF UnknownEnd

LEMMA EndsIs ==
    ASSUME NEW s \in Text, NEW i \in Place(s)
    PROVE  /\ Ends(s)[i] = UnknownEnd(s, i, Ends(s))
           /\ Ends(s)[i] \in i..(Len(s) + 1)
  <1> DEFINE n == Len(s) + 1
             W == [k \in 1..n |-> k..n]
             D == ValuesAt(n, W)
             G == [x \in (1..n) \X D |-> UnknownEnd(s, x[1], x[2])]
  <1>1. n \in Nat /\ Place(s) = 1..n
    BY TextType DEF Place
  <1>2. ASSUME NEW f \in D, NEW k \in 1..n PROVE f[k] \in k..(Len(s) + 1)
    BY <1>2 DEF ValuesAt
  <1>3. ASSUME NEW k \in 1..n, NEW f \in D
        PROVE  G[<<k, f>>] = UnknownEnd(s, k, f) /\ G[<<k, f>>] \in W[k]
    <2>1. k \in Place(s) /\ \A q \in (k + 1)..(Len(s) + 1) : f[q] \in q..(Len(s) + 1)
      BY <1>1, <1>2
    <2>2. UnknownEnd(s, k, f) \in k..(Len(s) + 1)
      <3> HIDE DEF n, D
      <3> QED
        BY <2>1, UnknownYields
    <2>3. G[<<k, f>>] = UnknownEnd(s, k, f)
      OBVIOUS
    <2> QED
      BY <2>2, <2>3
  <1>4. ASSUME NEW k \in 1..n, NEW f \in D, NEW g \in D, \A q \in (k + 1)..n : f[q] = g[q]
        PROVE  G[<<k, f>>] = G[<<k, g>>]
    <2>1. k \in Place(s) /\ \A q \in (k + 1)..(Len(s) + 1) : f[q] \in q..(Len(s) + 1)
      BY <1>1, <1>2
    <2>2. \A q \in (k + 1)..(Len(s) + 1) : f[q] = g[q]
      BY <1>1, <1>4
    <2>3. UnknownEnd(s, k, f) = UnknownEnd(s, k, g)
      <3> HIDE DEF n, D
      <3> QED
        BY <2>1, <2>2, UnknownLocal
    <2> QED
      BY <1>3, <2>3
  <1>5. D # {}
    <2>1. [k \in 1..n |-> k] \in D
      <3>1. \A k \in 1..n : k \in W[k]
        BY <1>1
      <3> QED
        BY <3>1 DEF ValuesAt
    <2> QED
      BY <2>1
  <1>6. \E f \in D : \A k \in 1..n : f[k] = G[<<k, f>>]
    <2> HIDE DEF G, W, n
    <2> QED
      BY <1>1, <1>3, <1>4, <1>5, Backwards
  <1>7. PICK f \in D : \A k \in 1..n : f[k] = UnknownEnd(s, k, f)
    BY <1>3, <1>6
  <1>8. f = [k \in 1..n |-> UnknownEnd(s, k, f)]
    <2>1. f = [k \in 1..n |-> f[k]]
      BY DEF ValuesAt
    <2> HIDE DEF D
    <2> QED
      BY <1>7, <2>1
  <1>9. Ends(s) = CHOOSE h : h = [k \in 1..n |-> UnknownEnd(s, k, h)]
    BY DEF Ends, UnknownEnd
  <1>10. Ends(s) = [k \in 1..n |-> UnknownEnd(s, k, Ends(s))]
    <2> HIDE DEF D, n
    <2> QED
      BY <1>8, <1>9
  <1>11. \A k \in 1..n : Ends(s)[k] = UnknownEnd(s, k, Ends(s))
    <2> HIDE DEF n
    <2> DEFINE M == Ends(s)
               h == [k \in 1..n |-> UnknownEnd(s, k, M)]
    <2>1. M = h
      BY <1>10
    <2>2. \A k \in 1..n : h[k] = UnknownEnd(s, k, M)
      OBVIOUS
    <2> HIDE DEF M, h
    <2>3. \A k \in 1..n : M[k] = UnknownEnd(s, k, M)
      BY <2>1, <2>2
    <2> QED
      BY <2>3 DEF M
  <1>12. ASSUME NEW k \in 1..n, \A q \in (k + 1)..n : Ends(s)[q] \in q..n
         PROVE  Ends(s)[k] \in k..n
    BY <1>1, <1>11, <1>12, UnknownYields
  <1>13. \A k \in 1..n : Ends(s)[k] \in k..n
    <2> DEFINE T == {k \in 1..n : Ends(s)[k] \in k..n}
    <2>1. \A k \in 1..n : (\A q \in (k + 1)..n : q \in T) => k \in T
      <3> SUFFICES ASSUME NEW k \in 1..n, \A q \in (k + 1)..n : q \in T PROVE k \in T
        OBVIOUS
      <3> QED
        BY <1>12
    <2>2. \A k \in 1..n : k \in T
      <3> HIDE DEF T, n
      <3> QED
        BY <1>1, <2>1, Downward
    <2> QED
      BY <2>2
  <1> QED
    BY <1>1, <1>11, <1>13

\* How one piece changes a surplus.
LEMMA SurplusStep ==
    ASSUME NEW s, NEW p, NEW q, p # q, NEW k \in Nat
    PROVE  /\ Surplus(s, p, q, 0) = 0
           /\ Surplus(s, p, q, k) \in Int
           /\ Surplus(s, p, q, k + 1) =
                Surplus(s, p, q, k)
                    + (IF s[k + 1] = p THEN 1 ELSE IF s[k + 1] = q THEN -1 ELSE 0)
  <1> DEFINE Of(c, m) == {j \in 1..m : s[j] = c}
  <1>1. ASSUME NEW c
        PROVE  /\ Cardinality(Of(c, 0)) = 0
               /\ Cardinality(Of(c, k)) \in Nat
               /\ Cardinality(Of(c, k + 1)) = Cardinality(Of(c, k)) + (IF s[k + 1] = c THEN 1 ELSE 0)
    <2>1. Of(c, 0) = {}
      OBVIOUS
    <2>2. IsFiniteSet(Of(c, k)) /\ Cardinality(Of(c, k)) \in Nat
      <3>1. IsFiniteSet(1..k)
        BY FS_Interval
      <3>2. IsFiniteSet(Of(c, k))
        BY <3>1, FS_Subset
      <3> QED
        BY <3>2, FS_CardinalityType
    <2>3. CASE s[k + 1] = c
      <3>1. Of(c, k + 1) = Of(c, k) \cup {k + 1} /\ k + 1 \notin Of(c, k)
        BY <2>3
      <3> HIDE DEF Of
      <3>2. Cardinality(Of(c, k) \cup {k + 1}) = Cardinality(Of(c, k)) + 1
        BY <2>2, <3>1, FS_AddElement
      <3> QED
        BY <2>1, <2>2, <2>3, <3>1, <3>2, FS_EmptySet
    <2>4. CASE s[k + 1] # c
      <3>1. Of(c, k + 1) = Of(c, k)
        BY <2>4
      <3> HIDE DEF Of
      <3> QED
        BY <2>1, <2>2, <2>4, <3>1, FS_EmptySet
    <2> QED
      BY <2>3, <2>4
  <1>2. \A m : Surplus(s, p, q, m) = Cardinality(Of(p, m)) - Cardinality(Of(q, m))
    BY DEF Surplus
  <1> HIDE DEF Of
  <1> QED
    BY <1>1, <1>2

\* How many parentheses of the first k are open.
Depth(s, k) == Surplus(s, "(", ")", k)

LEMMA DepthStep ==
    ASSUME NEW s, NEW k \in Nat
    PROVE  /\ Depth(s, 0) = 0 /\ Depth(s, k) \in Int
           /\ Depth(s, k + 1) = Depth(s, k)
                + (IF s[k + 1] = "(" THEN 1 ELSE IF s[k + 1] = ")" THEN -1 ELSE 0)
  BY SurplusStep DEF Depth

\* What lies from i up to e is balanced.
Even(s, i, e) ==
    /\ Depth(s, e - 1) = Depth(s, i - 1)
    /\ \A k \in (i - 1)..(e - 1) : Depth(s, k) >= Depth(s, i - 1)

LEMMA EvenJoin ==
    ASSUME NEW s, NEW i \in Nat, NEW m \in Nat, NEW e \in Nat, 1 <= i, i <= m, m <= e,
           Even(s, i, m), Even(s, m, e)
    PROVE  Even(s, i, e)
  <1>1. ASSUME NEW k \in (i - 1)..(e - 1) PROVE Depth(s, k) >= Depth(s, i - 1)
    <2>1. k \in (i - 1)..(m - 1) \/ k \in (m - 1)..(e - 1)
      OBVIOUS
    <2>2. Depth(s, m - 1) = Depth(s, i - 1)
      BY DEF Even
    <2> QED
      BY <2>1, <2>2 DEF Even
  <1> QED
    BY <1>1 DEF Even

LEMMA EvenFlat ==
    ASSUME NEW s \in Text, NEW i \in Place(s), NEW j \in i..(Len(s) + 1),
           \A k \in i..(j - 1) : s[k] \notin Parens
    PROVE  Even(s, i, j)
  <1> DEFINE L == Len(s)
             T == {k \in Nat : (i - 1 <= k /\ k <= j - 1) => Depth(s, k) = Depth(s, i - 1)}
  <1>1. L \in Nat /\ i \in Nat /\ i >= 1 /\ j \in Nat /\ j <= L + 1
    BY TextType DEF Place
  <1>2. ASSUME NEW k \in 0..L, \A m \in 0..(k - 1) : m \in T PROVE k \in T
    <2>1. CASE k >= i /\ k <= j - 1
      <3>1. k - 1 \in 0..(k - 1) /\ k - 1 \in Nat /\ k - 1 + 1 = k /\ k \in i..(j - 1)
        BY <1>1, <2>1
      <3>2. Depth(s, k - 1) = Depth(s, i - 1)
        BY <1>1, <1>2, <2>1, <3>1
      <3>3. Depth(s, k - 1 + 1) = Depth(s, k - 1)
                + (IF s[k - 1 + 1] = "(" THEN 1 ELSE IF s[k - 1 + 1] = ")" THEN -1 ELSE 0)
            /\ Depth(s, k - 1) \in Int
        BY <3>1, DepthStep
      <3>4. s[k] # "(" /\ s[k] # ")"
        BY <3>1 DEF Parens
      <3> QED
        BY <3>1, <3>2, <3>3, <3>4
    <2>2. CASE ~(k >= i /\ k <= j - 1)
      BY <1>1, <2>2
    <2> QED
      BY <2>1, <2>2
  <1>3. \A k \in 0..L : k \in T
    <2> HIDE DEF T
    <2> QED
      BY <1>1, <1>2, Upward
  <1>4. ASSUME NEW k \in (i - 1)..(j - 1) PROVE Depth(s, k) = Depth(s, i - 1)
    <2>1. k \in 0..L
      BY <1>1
    <2> QED
      BY <1>1, <1>3, <2>1
  <1>5. i - 1 \in Nat /\ j - 1 \in (i - 1)..(j - 1)
    BY <1>1
  <1>6. Depth(s, i - 1) \in Int
    BY <1>5, DepthStep
  <1> QED
    BY <1>4, <1>5, <1>6 DEF Even

LEMMA EvenNested ==
    ASSUME NEW s \in Text, NEW i \in Place(s), NEW e \in (i + 1)..Len(s),
           s[i] = "(", s[e] = ")", Even(s, i + 1, e)
    PROVE  Even(s, i, e + 1)
  <1>1. /\ Len(s) \in Nat /\ i \in Nat /\ i >= 1 /\ e \in Nat /\ i - 1 \in Nat /\ e - 1 \in Nat
        /\ i - 1 + 1 = i /\ e - 1 + 1 = e /\ i + 1 - 1 = i /\ e + 1 - 1 = e
    BY TextType DEF Place
  <1>2. Depth(s, i) = Depth(s, i - 1) + 1 /\ Depth(s, i - 1) \in Int
    <2>1. Depth(s, i - 1 + 1) = Depth(s, i - 1)
            + (IF s[i - 1 + 1] = "(" THEN 1 ELSE IF s[i - 1 + 1] = ")" THEN -1 ELSE 0)
          /\ Depth(s, i - 1) \in Int
      BY <1>1, DepthStep
    <2> QED
      BY <1>1, <2>1
  <1>3. Depth(s, e) = Depth(s, e - 1) - 1
    <2>1. Depth(s, e - 1 + 1) = Depth(s, e - 1)
            + (IF s[e - 1 + 1] = "(" THEN 1 ELSE IF s[e - 1 + 1] = ")" THEN -1 ELSE 0)
          /\ Depth(s, e - 1) \in Int
      BY <1>1, DepthStep
    <2> QED
      BY <1>1, <2>1
  <1>4. Depth(s, e - 1) = Depth(s, i) /\ \A k \in i..(e - 1) : Depth(s, k) >= Depth(s, i)
    BY <1>1 DEF Even
  <1>5. ASSUME NEW k \in (i - 1)..e PROVE Depth(s, k) >= Depth(s, i - 1)
    <2>1. k = i - 1 \/ k \in i..(e - 1) \/ k = e
      BY <1>1
    <2>2. CASE k \in i..(e - 1)
      <3>1. k \in Nat
        BY <1>1, <2>2
      <3>2. Depth(s, k) \in Int
        BY <3>1, DepthStep
      <3> QED
        BY <1>2, <1>4, <2>2, <3>2
    <2> QED
      BY <1>2, <1>3, <1>4, <2>1, <2>2
  <1> QED
    BY <1>1, <1>2, <1>3, <1>4, <1>5 DEF Even

\* Text of many0(unknown_balanced) is balanced.
LEMMA EndsEven ==
    ASSUME NEW s \in Text
    PROVE  \A i \in Place(s) :
             /\ Even(s, i, Ends(s)[i])
             /\ ~Ok(Unknown(s, Ends(s)[i], Ends(s)))
  <1> DEFINE n == Len(s) + 1
             E == Ends(s)
             Fine(i) == Even(s, i, E[i]) /\ ~Ok(Unknown(s, E[i], E))
             T == {i \in 1..n : Fine(i)}
  <1>1. n \in Nat /\ Place(s) = 1..n /\ Len(s) \in Nat
    BY TextType DEF Place
  <1>2. \A i \in 1..n : E[i] \in i..n /\ E[i] = UnknownEnd(s, i, E)
    BY <1>1, EndsIs
  <1>3. ASSUME NEW i \in 1..n, \A k \in (i + 1)..n : k \in T PROVE i \in T
    <2> DEFINE r == Unknown(s, i, E)
               j == RunUntil(s, i, Parens)
    <2>1. i <= Len(s) => E[i + 1] \in (i + 1)..(Len(s) + 1)
      BY <1>1, <1>2
    <2>2. j \in i..(Len(s) + 1) /\ \A k \in i..(j - 1) : s[k] \notin Parens
      BY <1>1, RunUntilIs DEF RunsUntil
    <2>3. r = IF i <= Len(s) /\ s[i] = "("
              THEN IF E[i + 1] <= Len(s) /\ s[E[i + 1]] = ")"
                   THEN Got(E[i + 1] + 1, SubSeq(s, i, E[i + 1])) ELSE None
              ELSE IF j > i THEN Got(j, SubSeq(s, i, j - 1)) ELSE None
      BY <1>1, <2>1, UnknownIs
    <2>4. CASE ~Ok(r)
      <3>1. E[i] = i
        BY <1>2, <2>4 DEF UnknownEnd
      <3>2. Even(s, i, i)
        <4>1. i \in Place(s) /\ i \in i..(Len(s) + 1) /\ \A k \in i..(i - 1) : s[k] \notin Parens
          BY <1>1
        <4> HIDE DEF n, T, E, r, j
        <4> QED
          BY <4>1, EvenFlat
      <3> QED
        BY <2>4, <3>1, <3>2
    <2>5. CASE Ok(r)
      <3> HIDE DEF j
      <3>1. E[i] = E[r.at]
        BY <1>2, <2>5 DEF UnknownEnd
      <3>2. r.at \in (i + 1)..n /\ Even(s, i, r.at)
        <4>1. CASE i <= Len(s) /\ s[i] = "("
          <5>1. E[i + 1] <= Len(s) /\ s[E[i + 1]] = ")" /\ r.at = E[i + 1] + 1
            BY <2>3, <2>5, <4>1, GotEnd
          <5>2. i + 1 \in (i + 1)..n /\ i + 1 \in T
            BY <1>1, <1>3, <4>1
          <5>3. Even(s, i + 1, E[i + 1])
            BY <5>2
          <5>4. E[i + 1] \in (i + 1)..Len(s)
            BY <1>1, <2>1, <4>1, <5>1
          <5>5. i \in Place(s)
            BY <1>1
          <5>6. Even(s, i, E[i + 1] + 1)
            BY <4>1, <5>1, <5>3, <5>4, <5>5, EvenNested
          <5> QED
            BY <1>1, <5>1, <5>4, <5>6
        <4>2. CASE ~(i <= Len(s) /\ s[i] = "(")
          <5>1. j > i /\ r.at = j
            BY <2>3, <2>5, <4>2, GotEnd
          <5>2. i \in Place(s) /\ j \in (i + 1)..n
            BY <1>1, <2>2, <5>1
          <5>3. Even(s, i, j)
            <6> HIDE DEF n, T, E, r
            <6> QED
              BY <2>2, <5>2, EvenFlat
          <5> QED
            BY <5>1, <5>2, <5>3
        <4> QED
          BY <4>1, <4>2
      <3>3. Even(s, r.at, E[r.at]) /\ ~Ok(Unknown(s, E[r.at], E)) /\ E[r.at] \in (r.at)..n
        BY <1>2, <1>3, <3>2
      <3>4. Even(s, i, E[r.at])
        <4>1. i \in Nat /\ r.at \in Nat /\ E[r.at] \in Nat /\ 1 <= i /\ i <= r.at /\ r.at <= E[r.at]
          BY <1>1, <3>2, <3>3
        <4> HIDE DEF r, E
        <4> QED
          BY <3>2, <3>3, <4>1, EvenJoin
      <3> QED
        BY <3>1, <3>3, <3>4
    <2> QED
      BY <2>4, <2>5
  <1>4. \A i \in 1..n : i \in T
    <2> HIDE DEF T, n
    <2> QED
      BY <1>1, <1>3, Downward
  <1> QED
    BY <1>1, <1>4

\* Where unknown_balanced finds nothing, a parenthesis is unmatched.
Stuck(s, i) ==
    \/ i = Len(s) + 1
    \/ i <= Len(s) /\ s[i] = ")"
    \/ i <= Len(s) /\ s[i] = "(" /\ \A k \in i..Len(s) : Depth(s, k) > Depth(s, i - 1)

LEMMA NothingUnknown ==
    ASSUME NEW s \in Text
    PROVE  \A i \in Place(s) : ~Ok(Unknown(s, i, Ends(s))) => Stuck(s, i)
  <1> DEFINE n == Len(s) + 1
             E == Ends(s)
             T == {i \in 1..n : ~Ok(Unknown(s, i, E)) => Stuck(s, i)}
  <1>1. n \in Nat /\ Place(s) = 1..n /\ Len(s) \in Nat
    BY TextType DEF Place
  <1>2. \A i \in 1..n : E[i] \in i..n
    BY <1>1, EndsIs
  <1>3. ASSUME NEW i \in 1..n, \A k \in (i + 1)..n : k \in T PROVE i \in T
    <2> SUFFICES ASSUME ~Ok(Unknown(s, i, E)) PROVE Stuck(s, i)
      OBVIOUS
    <2> DEFINE j == RunUntil(s, i, Parens)
               e == E[i + 1]
    <2>1. i <= Len(s) => e \in (i + 1)..(Len(s) + 1)
      BY <1>1, <1>2
    <2>2. RunsUntil(s, i, Parens, j)
      BY <1>1, RunUntilIs
    <2>3. Unknown(s, i, E) =
              IF i <= Len(s) /\ s[i] = "("
              THEN IF e <= Len(s) /\ s[e] = ")" THEN Got(e + 1, SubSeq(s, i, e)) ELSE None
              ELSE IF j > i THEN Got(j, SubSeq(s, i, j - 1)) ELSE None
      BY <1>1, <2>1, UnknownIs
    <2> HIDE DEF j
    <2>4. CASE i <= Len(s) /\ s[i] = "("
      <3>1. ~(e <= Len(s) /\ s[e] = ")")
        BY <2>3, <2>4, GotEnd
      <3>2. i + 1 \in Place(s) /\ i + 1 \in (i + 1)..n /\ e \in (i + 1)..n /\ i + 1 - 1 = i
        BY <1>1, <2>1, <2>4
      <3>3. Even(s, i + 1, e) /\ ~Ok(Unknown(s, e, E))
        BY <3>2, EndsEven
      <3> HIDE DEF e
      <3>4. Stuck(s, e)
        BY <1>3, <3>2, <3>3
      <3>5. Depth(s, i) = Depth(s, i - 1) + 1 /\ Depth(s, i - 1) \in Int
        <4>1. i - 1 \in Nat /\ i - 1 + 1 = i
          BY <1>1
        <4>2. Depth(s, i - 1 + 1) = Depth(s, i - 1)
            + (IF s[i - 1 + 1] = "(" THEN 1 ELSE IF s[i - 1 + 1] = ")" THEN -1 ELSE 0)
              /\ Depth(s, i - 1) \in Int
          BY <4>1, DepthStep
        <4> QED
          BY <2>4, <4>1, <4>2
      <3>6. ASSUME NEW k \in i..Len(s) PROVE Depth(s, k) > Depth(s, i - 1)
        <4>1. k \in Nat /\ Depth(s, k) \in Int
          <5>1. k \in Nat
            BY <1>1
          <5> QED
            BY <5>1, DepthStep
        <4>2. CASE k <= e - 1
          <5>1. k \in (i + 1 - 1)..(e - 1)
            BY <1>1, <3>2, <4>2
          <5>2. Depth(s, k) >= Depth(s, i)
            BY <3>2, <3>3, <5>1 DEF Even
          <5> QED
            BY <3>5, <4>1, <5>2
        <4>3. CASE ~(k <= e - 1)
          <5>1. e <= Len(s) /\ k \in e..Len(s)
            BY <1>1, <3>2, <4>1, <4>3
          <5>2. Depth(s, k) > Depth(s, e - 1)
            BY <1>1, <3>1, <3>2, <3>4, <5>1 DEF Stuck
          <5>3. Depth(s, e - 1) = Depth(s, i)
            BY <3>2, <3>3 DEF Even
          <5> QED
            BY <3>5, <4>1, <5>2, <5>3
        <4> QED
          BY <4>2, <4>3
      <3> QED
        BY <2>4, <3>6 DEF Stuck
    <2>5. CASE ~(i <= Len(s) /\ s[i] = "(")
      <3>1. ~(j > i)
        BY <2>3, <2>5, GotEnd
      <3>2. j = i
        BY <1>1, <2>2, <3>1 DEF RunsUntil
      <3>3. i <= Len(s) => s[i] \in Parens
        BY <2>2, <3>2 DEF RunsUntil
      <3> QED
        BY <1>1, <2>5, <3>3 DEF Stuck, Parens
    <2> QED
      BY <2>4, <2>5
  <1>4. \A i \in 1..n : i \in T
    <2> HIDE DEF T, n
    <2> QED
      BY <1>1, <1>3, Downward
  <1> QED
    BY <1>1, <1>4

-----------------------------------------------------------------------------
(* Commands *)

\* What a parser of arguments yields behind the word of a command.
LEMMA ThenMoreYields ==
    ASSUME NEW s \in Text, NEW i \in Place(s), NEW w \in Text, w # <<>>, NEW V,
           Ok(Tag(s, multispace0(s, i), w))
    PROVE  LET j == multispace0(s, Tag(s, multispace0(s, i), w).at)
           IN  /\ j \in Place(s)
               /\ \A r : Yields(r, s, j, V) => Yields(r, s, i, V)
  <1> DEFINE k == multispace0(s, i)
             m == Tag(s, k, w).at
             j == multispace0(s, m)
  <1>1. k \in Place(s) /\ k \in i..(Len(s) + 1) /\ Len(s) \in Nat /\ i \in Nat
    BY BlanksAt, TextType DEF Place
  <1>2. m \in (k + 1)..(Len(s) + 1)
    <2>1. Yields(Tag(s, k, w), s, k, Text)
      BY <1>1, TagYields
    <2> QED
      BY <2>1, YieldsAt
  <1> HIDE DEF k
  <1>3. m \in Place(s) /\ m >= i
    BY <1>1, <1>2 DEF Place
  <1> HIDE DEF m
  <1>4. j \in Place(s) /\ j \in i..(Len(s) + 1)
    <2>1. j \in Place(s) /\ j \in m..(Len(s) + 1)
      BY <1>3, BlanksAt
    <2> QED
      BY <1>1, <1>3, <2>1 DEF Place
  <1> HIDE DEF j
  <1>5. \A r : Yields(r, s, j, V) => Yields(r, s, i, V)
    BY <1>1, <1>4, YieldsWeaker
  <1> QED
    BY <1>4, <1>5 DEF j, m, k

LEMMA MappedYields ==
    ASSUME NEW s, NEW i, NEW V, NEW r, Yields(r, s, i, Marks), NEW kind \in CmdKinds
    PROVE  Yields(Mapped(r, LAMBDA e : Cmd(kind, <<>>, e)), s, i, CmdSet)
  <1>1. CASE Ok(r)
    <2>1. PICK j \in (i + 1)..(Len(s) + 1), v \in Marks : r = Got(j, v)
      BY <1>1, GotEnd DEF Yields
    <2>2. Mapped(r, LAMBDA e : Cmd(kind, <<>>, e)) = Got(j, Cmd(kind, <<>>, v))
      BY <1>1, <2>1, GotEnd DEF Mapped
    <2>3. Cmd(kind, <<>>, v) \in CmdSet
      BY DEF Cmd, CmdSet, Text
    <2> QED
      BY <2>1, <2>2, <2>3 DEF Yields
  <1>2. CASE ~Ok(r)
    BY <1>2, GotEnd DEF Yields, Mapped
  <1> QED
    BY <1>1, <1>2

\* The same for a command that has no tree.
LEMMA MappedAway ==
    ASSUME NEW s, NEW i, NEW V, NEW r, Yields(r, s, i, V), NEW kind \in CmdKinds
    PROVE  Yields(Mapped(r, LAMBDA e : Cmd(kind, <<>>, <<>>)), s, i, CmdSet)
  <1>1. Cmd(kind, <<>>, <<>>) \in CmdSet
    BY DEF Cmd, CmdSet, Text, Marks
  <1>2. Ok(r) => Mapped(r, LAMBDA e : Cmd(kind, <<>>, <<>>)) = Got(r.at, Cmd(kind, <<>>, <<>>))
    BY DEF Mapped
  <1>3. CASE Ok(r)
    BY <1>1, <1>2, <1>3, YieldsAt DEF Yields
  <1>4. CASE ~Ok(r)
    BY <1>4, GotEnd DEF Yields, Mapped
  <1> QED
    BY <1>3, <1>4

LEMMA TreesYield ==
    ASSUME NEW s \in Text, NEW i \in Place(s)
    PROVE  Yields(sexp(s, i), s, i, Marks) /\ Yields(sort(s, i), s, i, Marks)
  <1>1. \A k \in (i + 1)..(Len(s) + 1) : k \in Place(s)
    BY TextType DEF Place
  <1>2. ASSUME NEW what PROVE Yields(Tree(what, s, i, Many(what, s)), s, i, Marks)
    BY <1>1, ManyIs, TreeYields
  <1> QED
    BY <1>2 DEF sexp, sort

LEMMA WsSymbolYields ==
    ASSUME NEW s \in Text, NEW i \in Place(s)
    PROVE  Yields(wsSymbol(s, i), s, i, Text)
  <1> DEFINE j == multispace0(s, i)
  <1>1. j \in Place(s) /\ j \in i..(Len(s) + 1) /\ Len(s) \in Nat /\ i \in Nat
    BY BlanksAt, TextType DEF Place
  <1> HIDE DEF j
  <1>2. Yields(symbol(s, j), s, i, Text)
    BY <1>1, SymbolYields, YieldsWeaker
  <1> QED
    BY <1>2, ThenBlanksYields DEF wsSymbol, j

AssertWord == <<"assert">>
CsaWord == <<"check-sat", "-assuming">>
LogicWord == <<"set-logic">>
DeclWord == <<"declare-const">>
CheckWord == <<"check-sat">>
ModelWord == <<"get-model">>

LEMMA WordTypes ==
    /\ AssertWord \in Text /\ AssertWord # <<>>
    /\ CsaWord \in Text /\ CsaWord # <<>>
    /\ LogicWord \in Text /\ LogicWord # <<>>
    /\ DeclWord \in Text /\ DeclWord # <<>>
    /\ CheckWord \in Text /\ CheckWord # <<>>
    /\ ModelWord \in Text /\ ModelWord # <<>>
  <1>1. {"assert", "check-sat", "-assuming", "set-logic", "declare-const", "get-model"}
          \subseteq Pieces
    BY DEF Pieces
  <1>2. \A p \in Pieces : <<p>> \in Text /\ <<p>> # <<>>
    BY OneIn DEF Text
  <1>3. \A p, q \in Pieces : <<p, q>> \in Text /\ <<p, q>> # <<>>
    BY DEF Text
  <1> QED
    BY <1>1, <1>2, <1>3
       DEF AssertWord, CsaWord, LogicWord, DeclWord, CheckWord, ModelWord

LEMMA SexpCommandsYield ==
    ASSUME NEW s \in Text, NEW i \in Place(s)
    PROVE  /\ Yields(naked_assert(s, i), s, i, Marks)
           /\ Yields(naked_csa(s, i), s, i, Marks)
           /\ Yields(naked_logic(s, i), s, i, Text)
  <1>1. ASSUME NEW w \in Text, w # <<>>
        PROVE  /\ Yields(Preceded(s, i, w, LAMBDA j : sexp(s, j)), s, i, Marks)
               /\ Yields(Preceded(s, i, w, LAMBDA j : wsSymbol(s, j)), s, i, Text)
    <2> DEFINE r == Tag(s, multispace0(s, i), w)
               j == multispace0(s, r.at)
    <2>1. CASE Ok(r)
      <3>1. j \in Place(s) /\ \A q : Yields(q, s, j, Marks) => Yields(q, s, i, Marks)
        BY <1>1, <2>1, ThenMoreYields
      <3>2. \A q : Yields(q, s, j, Text) => Yields(q, s, i, Text)
        BY <1>1, <2>1, ThenMoreYields
      <3> HIDE DEF j
      <3>3. Yields(sexp(s, j), s, i, Marks) /\ Yields(wsSymbol(s, j), s, i, Text)
        BY <3>1, <3>2, TreesYield, WsSymbolYields
      <3> QED
        BY <2>1, <3>3 DEF Preceded, j
    <2>2. CASE ~Ok(r)
      BY <2>2 DEF Preceded, Yields
    <2> QED
      BY <2>1, <2>2
  <1> QED
    BY <1>1, WordTypes
       DEF naked_assert, naked_csa, naked_logic, AssertWord, CsaWord, LogicWord

\* The arguments of a declaration.
Declared(s, j) ==
    LET v == wsSymbol(s, j)
    IN  IF Ok(v) THEN Mapped(sort(s, v.at), LAMBDA t : Cmd("DeclConst", v.val, t)) ELSE v

LEMMA DeclaredYields ==
    ASSUME NEW s \in Text, NEW i \in Place(s)
    PROVE  Yields(Declared(s, i), s, i, CmdSet)
  <1> DEFINE v == wsSymbol(s, i)
  <1>1. Yields(v, s, i, Text)
    BY WsSymbolYields
  <1> HIDE DEF v
  <1>2. CASE Ok(v)
    <2>1. v.at \in (i + 1)..(Len(s) + 1) /\ v.val \in Text
      BY <1>1, <1>2, YieldsAt
    <2>2. v.at \in Place(s) /\ v.at \in i..(Len(s) + 1) /\ i \in Nat /\ Len(s) \in Nat
      BY <2>1, TextType DEF Place
    <2> DEFINE t == sort(s, v.at)
    <2>3. Yields(t, s, v.at, Marks)
      BY <2>2, TreesYield
    <2> HIDE DEF t
    <2>4. Yields(t, s, i, Marks)
      BY <2>2, <2>3, YieldsWeaker
    <2>5. Declared(s, i) = IF Ok(t) THEN Got(t.at, Cmd("DeclConst", v.val, t.val)) ELSE t
      BY <1>2 DEF Declared, Mapped, t, v
    <2>6. CASE Ok(t)
      <3>1. t.at \in (i + 1)..(Len(s) + 1) /\ t.val \in Marks
        BY <2>4, <2>6, YieldsAt
      <3>2. Cmd("DeclConst", v.val, t.val) \in CmdSet
        BY <2>1, <3>1 DEF Cmd, CmdSet, CmdKinds
      <3> QED
        BY <2>5, <2>6, <3>1, <3>2 DEF Yields
    <2>7. CASE ~Ok(t)
      BY <2>4, <2>5, <2>7, GotEnd DEF Yields
    <2> QED
      BY <2>6, <2>7
  <1>3. CASE ~Ok(v)
    <2>1. Declared(s, i) = v
      BY <1>3 DEF Declared, v
    <2> QED
      BY <1>1, <1>3, <2>1, GotEnd DEF Yields
  <1> QED
    BY <1>2, <1>3

LEMMA DeclIs ==
    ASSUME NEW s, NEW i
    PROVE  naked_decl_const(s, i) =
             LET r == Tag(s, multispace0(s, i), DeclWord)
             IN  IF Ok(r) THEN Declared(s, multispace0(s, r.at)) ELSE None
  BY DEF naked_decl_const, Preceded, Declared, DeclWord

LEMMA DeclYields ==
    ASSUME NEW s \in Text, NEW i \in Place(s)
    PROVE  Yields(naked_decl_const(s, i), s, i, CmdSet)
  <1> DEFINE r == Tag(s, multispace0(s, i), DeclWord)
             j == multispace0(s, r.at)
  <1>1. CASE Ok(r)
    <2>1. j \in Place(s) /\ \A q : Yields(q, s, j, CmdSet) => Yields(q, s, i, CmdSet)
      BY <1>1, ThenMoreYields, WordTypes
    <2>2. naked_decl_const(s, i) = Declared(s, j)
      BY <1>1, DeclIs
    <2> HIDE DEF j
    <2> QED
      BY <2>1, <2>2, DeclaredYields
  <1>2. CASE ~Ok(r)
    BY <1>2, DeclIs DEF Yields
  <1> QED
    BY <1>1, <1>2

\* The six commands at i.
NakedCommands(s, i) ==
    <<Mapped(naked_assert(s, i), LAMBDA e : Cmd("Assert", <<>>, e)),
      Mapped(naked_csa(s, i), LAMBDA e : Cmd("CheckSatAssuming", <<>>, e)),
      Mapped(Tag(s, i, <<"check-sat">>), LAMBDA v : Cmd("CheckSat", <<>>, <<>>)),
      Mapped(Tag(s, i, <<"get-model">>), LAMBDA v : Cmd("GetModel", <<>>, <<>>)),
      Mapped(naked_logic(s, i), LAMBDA v : Cmd("Logic", <<>>, <<>>)),
      naked_decl_const(s, i)>>

LEMMA NakedYields ==
    ASSUME NEW s \in Text, NEW i \in Place(s)
    PROVE  Yields(naked_command(s, i), s, i, CmdSet)
  <1>1. /\ Yields(Mapped(naked_assert(s, i), LAMBDA e : Cmd("Assert", <<>>, e)), s, i, CmdSet)
        /\ Yields(Mapped(naked_csa(s, i), LAMBDA e : Cmd("CheckSatAssuming", <<>>, e)),
                  s, i, CmdSet)
    BY SexpCommandsYield, MappedYields DEF CmdKinds
  <1>2. Yields(Mapped(naked_logic(s, i), LAMBDA v : Cmd("Logic", <<>>, <<>>)), s, i, CmdSet)
    BY SexpCommandsYield, MappedAway DEF CmdKinds
  <1>3. /\ Yields(Mapped(Tag(s, i, <<"check-sat">>), LAMBDA v : Cmd("CheckSat", <<>>, <<>>)),
                  s, i, CmdSet)
        /\ Yields(Mapped(Tag(s, i, <<"get-model">>), LAMBDA v : Cmd("GetModel", <<>>, <<>>)),
                  s, i, CmdSet)
    <2>1. Yields(Tag(s, i, <<"check-sat">>), s, i, Text)
          /\ Yields(Tag(s, i, <<"get-model">>), s, i, Text)
      BY TagYields, WordTypes DEF CheckWord, ModelWord
    <2> QED
      BY <2>1, MappedAway DEF CmdKinds
  <1>4. \A k \in 1..6 : Yields(NakedCommands(s, i)[k], s, i, CmdSet)
    BY <1>1, <1>2, <1>3, DeclYields DEF NakedCommands
  <1>5. DOMAIN NakedCommands(s, i) = 1..6
    BY DEF NakedCommands
  <1>6. naked_command(s, i) = First(NakedCommands(s, i))
    BY DEF naked_command, NakedCommands
  <1> QED
    BY <1>4, <1>5, <1>6, FirstYields

LEMMA KnownYields ==
    ASSUME NEW s \in Text, NEW i \in Place(s)
    PROVE  Yields(known(s, i), s, i, CmdSet)
  <1>1. CASE i <= Len(s)
    <2> DEFINE j == multispace0(s, i + 1)
    <2>1. i + 1 \in Place(s) /\ Len(s) \in Nat /\ i \in Nat
      BY <1>1, TextType DEF Place
    <2>2. j \in Place(s) /\ j \in (i + 1)..(Len(s) + 1)
      BY <2>1, BlanksAt
    <2> HIDE DEF j
    <2>3. Yields(naked_command(s, j), s, j, CmdSet)
      BY <2>2, NakedYields
    <2>4. Yields(Closed(s, ThenBlanks(s, naked_command(s, j))), s, j, CmdSet)
      BY <2>2, <2>3, ThenBlanksYields, ClosedYields
    <2>5. Yields(ThenBlanks(s, Closed(s, ThenBlanks(s, naked_command(s, j)))), s, j, CmdSet)
      BY <2>2, <2>4, ThenBlanksYields
    <2>6. j \in i..(Len(s) + 1)
      BY <2>1, <2>2
    <2>7. Yields(ThenBlanks(s, Closed(s, ThenBlanks(s, naked_command(s, j)))), s, i, CmdSet)
      BY <2>1, <2>5, <2>6, YieldsWeaker
    <2> QED
      BY <2>7 DEF known, Yields, j
  <1>2. CASE ~(i <= Len(s))
    <2>1. ~Ok(Tag(s, i, <<"(">>))
      BY <1>2, TagOne, GotEnd
    <2> QED
      BY <2>1 DEF known, Yields
  <1> QED
    BY <1>1, <1>2

LEMMA GenericYields ==
    ASSUME NEW s \in Text, NEW i \in Place(s)
    PROVE  Yields(Generic(s, i), s, i, CmdSet)
  <1> DEFINE r == unknown_balanced(s, i)
  <1>1. Yields(r, s, i, Text)
    <2>1. \A k \in (i + 1)..(Len(s) + 1) : Ends(s)[k] \in k..(Len(s) + 1)
      BY EndsIs, TextType DEF Place
    <2> QED
      BY <2>1, UnknownYields DEF unknown_balanced
  <1> HIDE DEF r
  <1>2. Generic(s, i) = IF Ok(r) THEN Got(r.at, Cmd("Generic", r.val, <<>>)) ELSE r
    BY DEF Generic, Mapped, r
  <1>3. CASE Ok(r)
    <2>1. r.at \in (i + 1)..(Len(s) + 1) /\ r.val \in Text
      BY <1>1, <1>3, YieldsAt
    <2>2. Cmd("Generic", r.val, <<>>) \in CmdSet
      BY <2>1 DEF Cmd, CmdSet, CmdKinds, Marks
    <2> QED
      BY <1>2, <1>3, <2>1, <2>2 DEF Yields
  <1>4. CASE ~Ok(r)
    BY <1>1, <1>2, <1>4, GotEnd DEF Yields
  <1> QED
    BY <1>3, <1>4

LEMMA CommandYields ==
    ASSUME NEW s \in Text, NEW i \in Place(s)
    PROVE  Yields(command(s, i), s, i, CmdSet)
  <1> DEFINE j == multispace0(s, i)
             p == known(s, j)
             q == Generic(s, i)
  <1>1. j \in Place(s) /\ j \in i..(Len(s) + 1) /\ Len(s) \in Nat /\ i \in Nat
    BY BlanksAt, TextType DEF Place
  <1> HIDE DEF j
  <1>2. Yields(p, s, i, CmdSet)
    BY <1>1, KnownYields, YieldsWeaker
  <1>3. Yields(q, s, i, CmdSet)
    BY GenericYields
  <1>4. command(s, i) = First(<<p, q>>)
    BY DEF command, j
  <1> HIDE DEF p, q
  <1> QED
    BY <1>2, <1>3, <1>4, First2 DEF Yields

-----------------------------------------------------------------------------
(* Scripts *)

ScriptStep(s, i, commands) ==
    LET one == ThenBlanks(s, command(s, multispace0(s, i)))
    IN  IF one.end = "none" THEN Got(i, <<>>)
        ELSE IF one.end = "fatal" THEN Fatal
        ELSE Mapped(commands[one.at], LAMBDA v : <<one.val>> \o v)
Commands(s) == CHOOSE h : h = [i \in Place(s) |-> ScriptStep(s, i, h)]

\* The results of a script from place i.
Scripts(s, i) == {Fatal} \cup {Got(j, v) : j \in i..(Len(s) + 1), v \in Seq(CmdSet)}

LEMMA ScriptsHave ==
    ASSUME NEW s, NEW i
    PROVE  /\ Fatal \in Scripts(s, i)
           /\ \A j \in i..(Len(s) + 1), v \in Seq(CmdSet) : Got(j, v) \in Scripts(s, i)
  BY DEF Scripts

\* One command and the blanks about it.
One(s, i) == ThenBlanks(s, command(s, multispace0(s, i)))

LEMMA OneYields ==
    ASSUME NEW s \in Text, NEW i \in Place(s)
    PROVE  Yields(One(s, i), s, i, CmdSet)
  <1> DEFINE j == multispace0(s, i)
  <1>1. j \in Place(s) /\ j \in i..(Len(s) + 1) /\ Len(s) \in Nat /\ i \in Nat
    BY BlanksAt, TextType DEF Place
  <1> HIDE DEF j
  <1>2. Yields(command(s, j), s, i, CmdSet)
    BY <1>1, CommandYields, YieldsWeaker
  <1> QED
    BY <1>2, ThenBlanksYields DEF One, j

LEMMA ScriptStepIs ==
    ASSUME NEW s \in Text, NEW i \in Place(s), NEW h
    PROVE  ScriptStep(s, i, h) =
             IF One(s, i) = None THEN Got(i, <<>>)
             ELSE IF One(s, i) = Fatal THEN Fatal
             ELSE IF Ok(h[One(s, i).at])
             THEN Got(h[One(s, i).at].at, <<One(s, i).val>> \o h[One(s, i).at].val)
             ELSE h[One(s, i).at]
  <1>1. Yields(One(s, i), s, i, CmdSet)
    BY OneYields
  <1>2. (One(s, i).end = "none" <=> One(s, i) = None) /\ (One(s, i).end = "fatal" <=> One(s, i) = Fatal)
    BY <1>1, GotEnd DEF Yields
  <1> QED
    BY <1>2 DEF ScriptStep, One, Mapped

LEMMA ScriptStepYields ==
    ASSUME NEW s \in Text, NEW i \in Place(s), NEW h,
           \A k \in (i + 1)..(Len(s) + 1) : h[k] \in Scripts(s, k)
    PROVE  ScriptStep(s, i, h) \in Scripts(s, i)
  <1> DEFINE r == One(s, i)
  <1>1. Yields(r, s, i, CmdSet)
    BY OneYields
  <1>2. i \in i..(Len(s) + 1) /\ i \in Nat /\ Len(s) \in Nat
    BY TextType DEF Place
  <1>3. ScriptStep(s, i, h) =
             IF r = None THEN Got(i, <<>>)
             ELSE IF r = Fatal THEN Fatal
             ELSE IF Ok(h[r.at]) THEN Got(h[r.at].at, <<r.val>> \o h[r.at].val)
             ELSE h[r.at]
    BY ScriptStepIs
  <1> HIDE DEF r
  <1>4. CASE r # None /\ r # Fatal
    <2>1. Ok(r)
      BY <1>1, <1>4, GotEnd DEF Yields
    <2>2. r.at \in (i + 1)..(Len(s) + 1) /\ r.val \in CmdSet
      BY <1>1, <2>1, YieldsAt
    <2>3. h[r.at] \in Scripts(s, r.at)
      BY <2>2
    <2>4. CASE h[r.at] = Fatal
      BY <1>3, <1>4, <2>4, GotEnd DEF Scripts
    <2>5. CASE h[r.at] # Fatal
      <3>1. PICK j \in (r.at)..(Len(s) + 1), v \in Seq(CmdSet) : h[r.at] = Got(j, v)
        BY <2>3, <2>5 DEF Scripts
      <3>2. j \in i..(Len(s) + 1)
        BY <1>2, <2>2, <3>1
      <3>3. <<r.val>> \o v \in Seq(CmdSet)
        BY <2>2
      <3>4. ScriptStep(s, i, h) = Got(j, <<r.val>> \o v)
        BY <1>3, <1>4, <3>1, GotEnd
      <3> QED
        BY <3>2, <3>3, <3>4, ScriptsHave
    <2> QED
      BY <2>4, <2>5
  <1>5. CASE r = None \/ r = Fatal
    <2>1. <<>> \in Seq(CmdSet)
      OBVIOUS
    <2>2. ScriptStep(s, i, h) = Got(i, <<>>) \/ ScriptStep(s, i, h) = Fatal
      BY <1>3, <1>5
    <2> QED
      BY <1>2, <2>1, <2>2, ScriptsHave
  <1> QED
    BY <1>4, <1>5

LEMMA ScriptStepLocal ==
    ASSUME NEW s \in Text, NEW i \in Place(s), NEW f, NEW g,
           \A k \in (i + 1)..(Len(s) + 1) : f[k] = g[k]
    PROVE  ScriptStep(s, i, f) = ScriptStep(s, i, g)
  <1> DEFINE r == One(s, i)
  <1>1. Yields(r, s, i, CmdSet)
    BY OneYields
  <1>2. r # None /\ r # Fatal => f[r.at] = g[r.at]
    <2> SUFFICES ASSUME r # None /\ r # Fatal PROVE f[r.at] = g[r.at]
      OBVIOUS
    <2> HIDE DEF r
    <2>1. Ok(r)
      BY <1>1, GotEnd DEF Yields
    <2> QED
      BY <1>1, <2>1, YieldsAt
  <1>3. ASSUME NEW h
        PROVE  ScriptStep(s, i, h) =
                 IF r = None THEN Got(i, <<>>)
                 ELSE IF r = Fatal THEN Fatal
                 ELSE IF Ok(h[r.at]) THEN Got(h[r.at].at, <<r.val>> \o h[r.at].val)
                 ELSE h[r.at]
    BY ScriptStepIs
  <1> HIDE DEF r
  <1>4. CASE r = None \/ r = Fatal
    BY <1>3, <1>4
  <1>5. CASE r # None /\ r # Fatal
    BY <1>2, <1>3, <1>5
  <1> QED
    BY <1>4, <1>5

LEMMA CommandsIs ==
    ASSUME NEW s \in Text, NEW i \in Place(s)
    PROVE  /\ Commands(s)[i] = ScriptStep(s, i, Commands(s))
           /\ Commands(s)[i] \in Scripts(s, i)
  <1> DEFINE n == Len(s) + 1
             W == [k \in 1..n |-> Scripts(s, k)]
             D == ValuesAt(n, W)
             G == [x \in (1..n) \X D |-> ScriptStep(s, x[1], x[2])]
  <1>1. n \in Nat /\ Place(s) = 1..n
    BY TextType DEF Place
  <1>2. ASSUME NEW f \in D, NEW k \in 1..n PROVE f[k] \in Scripts(s, k)
    BY <1>2 DEF ValuesAt
  <1>3. ASSUME NEW k \in 1..n, NEW f \in D
        PROVE  G[<<k, f>>] = ScriptStep(s, k, f) /\ G[<<k, f>>] \in W[k]
    <2>1. k \in Place(s) /\ \A q \in (k + 1)..(Len(s) + 1) : f[q] \in Scripts(s, q)
      BY <1>1, <1>2
    <2>2. ScriptStep(s, k, f) \in Scripts(s, k)
      <3> HIDE DEF n, D
      <3> QED
        BY <2>1, ScriptStepYields
    <2>3. G[<<k, f>>] = ScriptStep(s, k, f)
      OBVIOUS
    <2> QED
      BY <2>2, <2>3
  <1>4. ASSUME NEW k \in 1..n, NEW f \in D, NEW g \in D, \A q \in (k + 1)..n : f[q] = g[q]
        PROVE  G[<<k, f>>] = G[<<k, g>>]
    <2>1. k \in Place(s) /\ \A q \in (k + 1)..(Len(s) + 1) : f[q] = g[q]
      BY <1>1, <1>4
    <2>2. ScriptStep(s, k, f) = ScriptStep(s, k, g)
      <3> HIDE DEF n, D
      <3> QED
        BY <2>1, ScriptStepLocal
    <2> QED
      BY <1>3, <2>2
  <1>5. D # {}
    <2>1. [k \in 1..n |-> Fatal] \in D
      <3>1. \A k \in 1..n : Fatal \in W[k]
        BY DEF Scripts
      <3> QED
        BY <3>1 DEF ValuesAt
    <2> QED
      BY <2>1
  <1>6. \E f \in D : \A k \in 1..n : f[k] = G[<<k, f>>]
    <2> HIDE DEF G, W, n
    <2> QED
      BY <1>1, <1>3, <1>4, <1>5, Backwards
  <1>7. PICK f \in D : \A k \in 1..n : f[k] = ScriptStep(s, k, f)
    BY <1>3, <1>6
  <1>8. f = [k \in 1..n |-> ScriptStep(s, k, f)]
    <2>1. f = [k \in 1..n |-> f[k]]
      BY DEF ValuesAt
    <2> HIDE DEF D
    <2> QED
      BY <1>7, <2>1
  <1>9. Commands(s) = CHOOSE h : h = [k \in 1..n |-> ScriptStep(s, k, h)]
    BY DEF Commands, Place
  <1>10. Commands(s) = [k \in 1..n |-> ScriptStep(s, k, Commands(s))]
    <2> HIDE DEF D, n
    <2> QED
      BY <1>8, <1>9
  <1>11. \A k \in 1..n : Commands(s)[k] = ScriptStep(s, k, Commands(s))
    <2> HIDE DEF n
    <2> DEFINE M == Commands(s)
               h == [k \in 1..n |-> ScriptStep(s, k, M)]
    <2>1. M = h
      BY <1>10
    <2>2. \A k \in 1..n : h[k] = ScriptStep(s, k, M)
      OBVIOUS
    <2> HIDE DEF M, h
    <2>3. \A k \in 1..n : M[k] = ScriptStep(s, k, M)
      BY <2>1, <2>2
    <2> QED
      BY <2>3 DEF M
  <1>12. ASSUME NEW k \in 1..n, \A q \in (k + 1)..n : Commands(s)[q] \in Scripts(s, q)
         PROVE  Commands(s)[k] \in Scripts(s, k)
    BY <1>1, <1>11, <1>12, ScriptStepYields
  <1>13. \A k \in 1..n : Commands(s)[k] \in Scripts(s, k)
    <2> DEFINE T == {k \in 1..n : Commands(s)[k] \in Scripts(s, k)}
    <2>1. \A k \in 1..n : (\A q \in (k + 1)..n : q \in T) => k \in T
      <3> SUFFICES ASSUME NEW k \in 1..n, \A q \in (k + 1)..n : q \in T PROVE k \in T
        OBVIOUS
      <3> QED
        BY <1>12
    <2>2. \A k \in 1..n : k \in T
      <3> HIDE DEF T, n
      <3> QED
        BY <1>1, <2>1, Downward
    <2> QED
      BY <2>2
  <1> QED
    BY <1>1, <1>11, <1>13

LEMMA ScriptIs ==
    ASSUME NEW s \in Text
    PROVE  script(s) = Commands(s)[1] /\ script(s) \in Scripts(s, 1)
  <1>1. script(s) = Commands(s)[1]
    BY DEF script, ThenOthers, Commands, ScriptStep, Place
  <1>2. 1 \in Place(s)
    BY TextType DEF Place
  <1> QED
    BY <1>1, <1>2, CommandsIs

-----------------------------------------------------------------------------
(* Sequences that are strung together *)

FlatStep(seqs, i, f) == IF i = 1 THEN seqs[i] ELSE f[i - 1] \o seqs[i]
Flattened(seqs) == CHOOSE f : f = [i \in 1..Len(seqs) |-> FlatStep(seqs, i, f)]

LEMMA FlattenIs ==
    ASSUME NEW S, NEW seqs \in Seq(Seq(S))
    PROVE  /\ Len(seqs) = 0 => FlattenSeq(seqs) = <<>>
           /\ Len(seqs) # 0 => FlattenSeq(seqs) = Flattened(seqs)[Len(seqs)]
           /\ \A i \in 1..Len(seqs) :
                /\ Flattened(seqs)[i] = FlatStep(seqs, i, Flattened(seqs))
                /\ Flattened(seqs)[i] \in Seq(S)
  <1> DEFINE n == Len(seqs)
             T == {m \in Nat : \E f : f = [i \in 1..m |-> FlatStep(seqs, i, f)]}
  <1>1. n \in Nat /\ \A i \in 1..n : seqs[i] \in Seq(S)
    OBVIOUS
  <1>2. ASSUME NEW m \in 0..n, \A k \in 0..(m - 1) : k \in T PROVE m \in T
    <2>1. CASE m = 0
      <3> DEFINE f == [i \in 1..0 |-> {}]
      <3>1. f = [i \in 1..0 |-> FlatStep(seqs, i, f)]
        OBVIOUS
      <3> HIDE DEF f
      <3> QED
        BY <2>1, <3>1
    <2>2. CASE m # 0
      <3>1. m - 1 \in T
        <4>1. m - 1 \in 0..(m - 1)
          BY <1>1, <2>2
        <4> HIDE DEF T, n
        <4> QED
          BY <1>2, <4>1
      <3>2. PICK f : f = [i \in 1..(m - 1) |-> FlatStep(seqs, i, f)]
        BY <3>1
      <3> DEFINE h == [i \in 1..(m - 1) |-> FlatStep(seqs, i, f)]
                 g == [i \in 1..m |-> IF i = m THEN FlatStep(seqs, m, f) ELSE f[i]]
      <3>3. \A i \in 1..(m - 1) : h[i] = FlatStep(seqs, i, f)
        OBVIOUS
      <3>4. \A i \in 1..(m - 1) : f[i] = FlatStep(seqs, i, f)
        <4> HIDE DEF h
        <4> QED
          BY <3>2, <3>3 DEF h
      <3>5. \A i \in 1..m : g[i] = FlatStep(seqs, i, f)
        BY <1>1, <3>4
      <3>6. \A i \in 1..(m - 1) : g[i] = f[i]
        BY <1>1
      <3>7. g = [i \in 1..m |-> g[i]]
        OBVIOUS
      <3> HIDE DEF g, h
      <3>8. ASSUME NEW i \in 1..m PROVE g[i] = FlatStep(seqs, i, g)
        <4>1. i = 1 \/ i - 1 \in 1..(m - 1)
          BY <1>1
        <4> QED
          BY <3>5, <3>6, <4>1 DEF FlatStep
      <3>9. g = [i \in 1..m |-> FlatStep(seqs, i, g)]
        BY <3>7, <3>8
      <3> QED
        BY <1>1, <3>9
    <2> QED
      BY <2>1, <2>2
  <1>3. n \in T
    <2>1. \A i \in 0..n : i \in T
      <3> HIDE DEF T, n
      <3> QED
        BY <1>1, <1>2, Upward
    <2>2. n \in 0..n
      BY <1>1
    <2> HIDE DEF T, n
    <2> QED
      BY <2>1, <2>2
  <1> DEFINE F == Flattened(seqs)
             H == [i \in 1..n |-> FlatStep(seqs, i, F)]
  <1>4. F = H
    BY <1>3 DEF Flattened
  <1>5. \A i \in 1..n : H[i] = FlatStep(seqs, i, F)
    OBVIOUS
  <1>6. \A i \in 1..n : F[i] = FlatStep(seqs, i, F)
    <2> HIDE DEF F, H
    <2> QED
      BY <1>4, <1>5
  <1> DEFINE U == {i \in Nat : i \in 1..n => F[i] \in Seq(S)}
  <1>7. ASSUME NEW m \in 0..n, \A k \in 0..(m - 1) : k \in U PROVE m \in U
    <2> SUFFICES ASSUME m \in 1..n PROVE F[m] \in Seq(S)
      BY <1>1
    <2>1. CASE m = 1
      BY <1>1, <1>6, <2>1 DEF FlatStep
    <2>2. CASE m # 1
      <3>1. m - 1 \in 0..(m - 1) /\ m - 1 \in 1..n
        BY <1>1, <2>2
      <3>2. F[m - 1] \in Seq(S)
        BY <1>7, <3>1
      <3>3. F[m] = F[m - 1] \o seqs[m]
        BY <1>6, <2>2 DEF FlatStep
      <3> HIDE DEF F
      <3> QED
        BY <1>1, <3>2, <3>3
    <2> QED
      BY <2>1, <2>2
  <1>8. \A i \in 0..n : i \in U
    <2> HIDE DEF U, n
    <2> QED
      BY <1>1, <1>7, Upward
  <1>9. ASSUME NEW i \in 1..n PROVE F[i] \in Seq(S)
    BY <1>1, <1>8
  <1>10. n # 0 => FlattenSeq(seqs) = F[n]
    BY DEF FlattenSeq, Flattened, FlatStep
  <1>11. n = 0 => FlattenSeq(seqs) = <<>>
    BY DEF FlattenSeq
  <1> QED
    BY <1>6, <1>9, <1>10, <1>11

LEMMA FlattenType ==
    ASSUME NEW S, NEW seqs \in Seq(Seq(S))
    PROVE  FlattenSeq(seqs) \in Seq(S)
  <1>1. CASE Len(seqs) = 0
    <2>1. FlattenSeq(seqs) = <<>>
      BY <1>1, FlattenIs
    <2>2. <<>> \in Seq(S)
      OBVIOUS
    <2> QED
      BY <2>1, <2>2
  <1>2. CASE Len(seqs) # 0
    <2>1. Len(seqs) \in 1..Len(seqs)
      BY <1>2
    <2> QED
      BY <1>2, <2>1, FlattenIs
  <1> QED
    BY <1>1, <1>2

LEMMA JoinedType ==
    ASSUME NEW texts \in Seq(Text), NEW blank \in Pieces
    PROVE  Joined(texts, blank) \in Text
  <1> DEFINE seqs == [k \in DOMAIN texts |->
                        IF k = 1 THEN texts[k] ELSE <<blank>> \o texts[k]]
  <1>1. DOMAIN texts = 1..Len(texts) /\ Len(texts) \in Nat
        /\ \A k \in 1..Len(texts) : texts[k] \in Seq(Pieces)
    BY DEF Text
  <1>2. \A k \in 1..Len(texts) : <<blank>> \o texts[k] \in Seq(Pieces)
    BY <1>1
  <1>3. seqs \in [1..Len(texts) -> Seq(Pieces)]
    BY <1>1, <1>2
  <1>4. seqs \in Seq(Seq(Pieces))
    BY <1>1, <1>3
  <1>5. Joined(texts, blank) = FlattenSeq(seqs)
    BY DEF Joined
  <1> HIDE DEF seqs
  <1> QED
    BY <1>4, <1>5, FlattenType DEF Text

-----------------------------------------------------------------------------
(* Comments *)

PartsStep(s, i, parts) ==
    LET text == RunUntil(s, i, {Remark})
        line == RunUntil(s, i, {"nl"})
    IN  IF text > i THEN <<SubSeq(s, i, text - 1)>> \o parts[text]
        ELSE IF line <= Len(s) THEN << <<>> >> \o parts[line + 1]
        ELSE <<>>
Parts(s) == CHOOSE h : h = [i \in Place(s) |-> PartsStep(s, i, h)]

LEMMA PartsAt ==
    ASSUME NEW s \in Text, NEW i \in Place(s)
    PROVE  /\ RunsUntil(s, i, {Remark}, RunUntil(s, i, {Remark}))
           /\ RunsUntil(s, i, {"nl"}, RunUntil(s, i, {"nl"}))
           /\ RunUntil(s, i, {Remark}) \in i..(Len(s) + 1)
           /\ RunUntil(s, i, {"nl"}) \in i..(Len(s) + 1)
           /\ Len(s) \in Nat /\ i \in Nat
  <1>1. Len(s) \in Nat /\ i \in Nat
    BY TextType DEF Place
  <1>2. ASSUME NEW set
        PROVE  /\ RunsUntil(s, i, set, RunUntil(s, i, set))
               /\ RunUntil(s, i, set) \in i..(Len(s) + 1)
    <2>1. RunsUntil(s, i, set, RunUntil(s, i, set))
      BY <1>1, RunUntilIs
    <2> QED
      BY <2>1 DEF RunsUntil
  <1> QED
    BY <1>1, <1>2

LEMMA PartsStepType ==
    ASSUME NEW s \in Text, NEW i \in Place(s), NEW h,
           \A k \in (i + 1)..(Len(s) + 1) : h[k] \in Seq(Text)
    PROVE  PartsStep(s, i, h) \in Seq(Text)
  <1> DEFINE text == RunUntil(s, i, {Remark})
             line == RunUntil(s, i, {"nl"})
  <1>1. text \in i..(Len(s) + 1) /\ line \in i..(Len(s) + 1) /\ Len(s) \in Nat /\ i \in Nat
    BY PartsAt
  <1>2. SubSeq(s, i, text - 1) \in Text
    BY <1>1, CutType
  <1>3. PartsStep(s, i, h) =
          IF text > i THEN <<SubSeq(s, i, text - 1)>> \o h[text]
          ELSE IF line <= Len(s) THEN << <<>> >> \o h[line + 1]
          ELSE <<>>
    BY DEF PartsStep
  <1> HIDE DEF text, line
  <1>4. CASE text > i
    <2>1. h[text] \in Seq(Text)
      BY <1>1, <1>4
    <2> QED
      BY <1>2, <1>3, <1>4, <2>1
  <1>5. CASE ~(text > i) /\ line <= Len(s)
    <2>1. line + 1 \in (i + 1)..(Len(s) + 1)
      BY <1>1, <1>5
    <2>2. h[line + 1] \in Seq(Text) /\ <<>> \in Text
      BY <2>1 DEF Text
    <2> QED
      BY <1>3, <1>5, <2>2
  <1>6. CASE ~(text > i) /\ ~(line <= Len(s))
    BY <1>3, <1>6
  <1> QED
    BY <1>4, <1>5, <1>6

LEMMA PartsStepLocal ==
    ASSUME NEW s \in Text, NEW i \in Place(s), NEW f, NEW g,
           \A k \in (i + 1)..(Len(s) + 1) : f[k] = g[k]
    PROVE  PartsStep(s, i, f) = PartsStep(s, i, g)
  <1> DEFINE text == RunUntil(s, i, {Remark})
             line == RunUntil(s, i, {"nl"})
  <1>1. text \in i..(Len(s) + 1) /\ line \in i..(Len(s) + 1) /\ Len(s) \in Nat /\ i \in Nat
    BY PartsAt
  <1>2. \A h : PartsStep(s, i, h) =
          IF text > i THEN <<SubSeq(s, i, text - 1)>> \o h[text]
          ELSE IF line <= Len(s) THEN << <<>> >> \o h[line + 1]
          ELSE <<>>
    BY DEF PartsStep
  <1> HIDE DEF text, line
  <1>3. text > i => f[text] = g[text]
    BY <1>1
  <1>4. line <= Len(s) => f[line + 1] = g[line + 1]
    BY <1>1
  <1> QED
    BY <1>2, <1>3, <1>4

LEMMA PartsIs ==
    ASSUME NEW s \in Text, NEW i \in Place(s)
    PROVE  /\ Parts(s)[i] = PartsStep(s, i, Parts(s))
           /\ Parts(s)[i] \in Seq(Text)
  <1> DEFINE n == Len(s) + 1
             W == [k \in 1..n |-> Seq(Text)]
             D == ValuesAt(n, W)
             G == [x \in (1..n) \X D |-> PartsStep(s, x[1], x[2])]
  <1>1. n \in Nat /\ Place(s) = 1..n
    BY TextType DEF Place
  <1>2. ASSUME NEW f \in D, NEW k \in 1..n PROVE f[k] \in Seq(Text)
    BY <1>2 DEF ValuesAt
  <1>3. ASSUME NEW k \in 1..n, NEW f \in D
        PROVE  G[<<k, f>>] = PartsStep(s, k, f) /\ G[<<k, f>>] \in W[k]
    <2>1. k \in Place(s) /\ \A q \in (k + 1)..(Len(s) + 1) : f[q] \in Seq(Text)
      BY <1>1, <1>2
    <2>2. PartsStep(s, k, f) \in Seq(Text)
      <3> HIDE DEF n, D
      <3> QED
        BY <2>1, PartsStepType
    <2>3. G[<<k, f>>] = PartsStep(s, k, f)
      OBVIOUS
    <2> QED
      BY <2>2, <2>3
  <1>4. ASSUME NEW k \in 1..n, NEW f \in D, NEW g \in D, \A q \in (k + 1)..n : f[q] = g[q]
        PROVE  G[<<k, f>>] = G[<<k, g>>]
    <2>1. k \in Place(s) /\ \A q \in (k + 1)..(Len(s) + 1) : f[q] = g[q]
      BY <1>1, <1>4
    <2>2. PartsStep(s, k, f) = PartsStep(s, k, g)
      <3> HIDE DEF n, D
      <3> QED
        BY <2>1, PartsStepLocal
    <2> QED
      BY <1>3, <2>2
  <1>5. D # {}
    <2>1. [k \in 1..n |-> <<>>] \in D
      <3>1. <<>> \in Seq(Text)
        OBVIOUS
      <3>2. \A k \in 1..n : <<>> \in W[k]
        BY <3>1
      <3> QED
        BY <3>2 DEF ValuesAt
    <2> QED
      BY <2>1
  <1>6. \E f \in D : \A k \in 1..n : f[k] = G[<<k, f>>]
    <2> HIDE DEF G, W, n
    <2> QED
      BY <1>1, <1>3, <1>4, <1>5, Backwards
  <1>7. PICK f \in D : \A k \in 1..n : f[k] = PartsStep(s, k, f)
    BY <1>3, <1>6
  <1>8. f = [k \in 1..n |-> PartsStep(s, k, f)]
    <2>1. f = [k \in 1..n |-> f[k]]
      BY DEF ValuesAt
    <2> HIDE DEF D
    <2> QED
      BY <1>7, <2>1
  <1>9. Parts(s) = CHOOSE h : h = [k \in 1..n |-> PartsStep(s, k, h)]
    BY DEF Parts, Place
  <1>10. Parts(s) = [k \in 1..n |-> PartsStep(s, k, Parts(s))]
    <2> HIDE DEF D, n
    <2> QED
      BY <1>8, <1>9
  <1>11. \A k \in 1..n : Parts(s)[k] = PartsStep(s, k, Parts(s))
    <2> HIDE DEF n
    <2> DEFINE M == Parts(s)
               h == [k \in 1..n |-> PartsStep(s, k, M)]
    <2>1. M = h
      BY <1>10
    <2>2. \A k \in 1..n : h[k] = PartsStep(s, k, M)
      OBVIOUS
    <2> HIDE DEF M, h
    <2>3. \A k \in 1..n : M[k] = PartsStep(s, k, M)
      BY <2>1, <2>2
    <2> QED
      BY <2>3 DEF M
  <1>12. ASSUME NEW k \in 1..n, \A q \in (k + 1)..n : Parts(s)[q] \in Seq(Text)
         PROVE  Parts(s)[k] \in Seq(Text)
    BY <1>1, <1>11, <1>12, PartsStepType
  <1>13. \A k \in 1..n : Parts(s)[k] \in Seq(Text)
    <2> DEFINE T == {k \in 1..n : Parts(s)[k] \in Seq(Text)}
    <2>1. \A k \in 1..n : (\A q \in (k + 1)..n : q \in T) => k \in T
      <3> SUFFICES ASSUME NEW k \in 1..n, \A q \in (k + 1)..n : q \in T PROVE k \in T
        OBVIOUS
      <3> QED
        BY <1>12
    <2>2. \A k \in 1..n : k \in T
      <3> HIDE DEF T, n
      <3> QED
        BY <1>1, <2>1, Downward
    <2> QED
      BY <2>2
  <1> QED
    BY <1>1, <1>11, <1>13

\* What is left without its comments is a text; only a text that is nothing
\* but a last comment has no parts.
LEMMA Stripped ==
    ASSUME NEW s \in Text
    PROVE  /\ Ok(rmv_comments(s)) => rmv_comments(s).val \in Text
           /\ ~Ok(rmv_comments(s)) =>
                s = <<>> \/ (s[1] = Remark /\ \A k \in DOMAIN s : s[k] # "nl")
  <1>1. uncommented(s) = Parts(s)[1]
    BY DEF uncommented, Parts, PartsStep, Place
  <1>2. 1 \in Place(s) /\ Len(s) \in Nat
    BY TextType DEF Place
  <1>3. uncommented(s) \in Seq(Text) /\ uncommented(s) = PartsStep(s, 1, Parts(s))
    BY <1>1, <1>2, PartsIs
  <1>4. Joined(uncommented(s), " ") \in Text
    <2>1. " " \in Pieces
      BY DEF Pieces, Blanks
    <2> QED
      BY <1>3, <2>1, JoinedType
  <1>5. rmv_comments(s) = IF uncommented(s) = <<>> THEN None
                          ELSE Got(0, Joined(uncommented(s), " "))
    BY DEF rmv_comments
  <1>6. ASSUME uncommented(s) = <<>>
        PROVE  s = <<>> \/ (s[1] = Remark /\ \A k \in DOMAIN s : s[k] # "nl")
    <2> DEFINE text == RunUntil(s, 1, {Remark})
               line == RunUntil(s, 1, {"nl"})
               P == Parts(s)
    <2>1. /\ RunsUntil(s, 1, {Remark}, text) /\ RunsUntil(s, 1, {"nl"}, line)
          /\ text \in 1..(Len(s) + 1) /\ line \in 1..(Len(s) + 1)
      BY <1>2, PartsAt
    <2>2. \A k \in Place(s) : P[k] \in Seq(Text)
      BY PartsIs
    <2>3. uncommented(s) =
            IF text > 1 THEN <<SubSeq(s, 1, text - 1)>> \o P[text]
            ELSE IF line <= Len(s) THEN << <<>> >> \o P[line + 1]
            ELSE <<>>
      BY <1>3 DEF PartsStep
    <2> HIDE DEF text, line, P
    <2>4. ASSUME NEW x \in Text, NEW q \in Seq(Text) PROVE <<x>> \o q # <<>>
      BY <2>4
    <2>5. ~(text > 1)
      <3> SUFFICES ASSUME text > 1 PROVE FALSE
        OBVIOUS
      <3>1. P[text] \in Seq(Text) /\ SubSeq(s, 1, text - 1) \in Text
        BY <1>2, <2>1, <2>2, CutType DEF Place
      <3> QED
        BY <1>6, <2>3, <2>4, <3>1
    <2>6. ~(line <= Len(s))
      <3> SUFFICES ASSUME line <= Len(s) PROVE FALSE
        OBVIOUS
      <3>1. line + 1 \in Place(s) /\ <<>> \in Text
        <4>1. line + 1 \in Place(s)
          BY <1>2, <2>1 DEF Place
        <4>2. <<>> \in Text
          BY DEF Text
        <4> QED
          BY <4>1, <4>2
      <3>2. P[line + 1] \in Seq(Text)
        BY <2>2, <3>1
      <3> QED
        BY <1>6, <2>3, <2>4, <2>5, <3>1, <3>2
    <2>7. Len(s) # 0 => s[1] = Remark
      <3>1. text = 1
        BY <1>2, <2>1, <2>5
      <3>2. 1 <= Len(s) => s[1] \in {Remark}
        BY <2>1, <3>1 DEF RunsUntil
      <3> QED
        BY <1>2, <3>2
    <2>8. \A k \in 1..Len(s) : s[k] # "nl"
      <3>1. line = Len(s) + 1
        BY <1>2, <2>1, <2>6
      <3>2. \A k \in 1..(Len(s) + 1 - 1) : s[k] \notin {"nl"}
        BY <2>1, <3>1 DEF RunsUntil
      <3>3. Len(s) + 1 - 1 = Len(s)
        BY <1>2
      <3> QED
        BY <3>2, <3>3
    <2>9. Len(s) = 0 => s = <<>>
      BY DEF Text
    <2> QED
      BY <1>2, <2>7, <2>8, <2>9, TextType
  <1>7. CASE uncommented(s) = <<>>
    <2>1. rmv_comments(s) = None
      BY <1>5, <1>7
    <2>2. ~Ok(rmv_comments(s))
      BY <2>1, GotEnd
    <2> QED
      BY <1>6, <1>7, <2>2
  <1>8. CASE uncommented(s) # <<>>
    <2> DEFINE v == Joined(uncommented(s), " ")
    <2>1. rmv_comments(s) = Got(0, v)
      BY <1>5, <1>8
    <2> HIDE DEF v
    <2>2. Ok(rmv_comments(s)) /\ rmv_comments(s).val = v
      BY <2>1, GotEnd
    <2> QED
      BY <1>4, <2>2 DEF v
  <1> QED
    BY <1>7, <1>8

-----------------------------------------------------------------------------
(* Where a script ends *)

\* The commands from i are none, or one and those behind it.
LEMMA CommandsAt ==
    ASSUME NEW s \in Text, NEW i \in Place(s), Ok(Commands(s)[i])
    PROVE  LET r == One(s, i)
               c == Commands(s)[i]
               d == Commands(s)[r.at]
           IN  \/ r = None /\ c = Got(i, <<>>)
               \/ /\ Ok(r) /\ r.at \in (i + 1)..(Len(s) + 1) /\ r.val \in CmdSet
                  /\ Ok(d) /\ c = Got(d.at, <<r.val>> \o d.val)
  <1> DEFINE r == One(s, i)
             c == Commands(s)[i]
             d == Commands(s)[r.at]
  <1>1. c = IF r = None THEN Got(i, <<>>)
            ELSE IF r = Fatal THEN Fatal
            ELSE IF Ok(d) THEN Got(d.at, <<r.val>> \o d.val) ELSE d
    BY CommandsIs, ScriptStepIs
  <1>2. Yields(r, s, i, CmdSet) /\ Ok(c)
    BY OneYields
  <1> HIDE DEF r, c, d
  <1>3. CASE r = None
    BY <1>1, <1>3 DEF r, c
  <1>4. CASE r # None
    <2>1. r # Fatal
      BY <1>1, <1>2, <1>4, GotEnd
    <2>2. Ok(r)
      BY <1>2, <1>4, <2>1, GotEnd DEF Yields
    <2>3. r.at \in (i + 1)..(Len(s) + 1) /\ r.val \in CmdSet
      BY <1>2, <2>2, YieldsAt
    <2>4. Ok(d) /\ c = Got(d.at, <<r.val>> \o d.val)
      BY <1>1, <1>2, <1>4, <2>1
    <2> QED
      BY <2>2, <2>3, <2>4 DEF r, c, d
  <1> QED
    BY <1>3, <1>4

\* A script ends where no command can be read.
LEMMA ScriptEnd ==
    ASSUME NEW s \in Text, Ok(script(s))
    PROVE  /\ script(s).at \in Place(s) /\ script(s).val \in Seq(CmdSet)
           /\ One(s, script(s).at) = None
  <1> DEFINE n == Len(s) + 1
             C == Commands(s)
             T == {i \in 1..n : Ok(C[i]) => One(s, C[i].at) = None}
  <1>1. n \in Nat /\ Place(s) = 1..n /\ 1 \in 1..n
    BY TextType DEF Place
  <1>2. ASSUME NEW i \in 1..n, Ok(C[i])
        PROVE  LET r == One(s, i)
               IN  \/ r = None /\ C[i] = Got(i, <<>>)
                   \/ /\ r.at \in (i + 1)..n /\ Ok(C[r.at])
                      /\ C[i] = Got(C[r.at].at, <<r.val>> \o C[r.at].val)
    BY <1>1, <1>2, CommandsAt
  <1>3. ASSUME NEW i \in 1..n, \A k \in (i + 1)..n : k \in T PROVE i \in T
    <2> DEFINE r == One(s, i)
    <2> SUFFICES ASSUME Ok(C[i]) PROVE One(s, C[i].at) = None
      OBVIOUS
    <2>1. \/ r = None /\ C[i] = Got(i, <<>>)
          \/ r.at \in (i + 1)..n /\ Ok(C[r.at])
              /\ C[i] = Got(C[r.at].at, <<r.val>> \o C[r.at].val)
      BY <1>2
    <2>2. CASE r = None /\ C[i] = Got(i, <<>>)
      <3>1. C[i].at = i
        BY <2>2, GotEnd
      <3> QED
        BY <2>2, <3>1
    <2>3. CASE r.at \in (i + 1)..n /\ Ok(C[r.at])
               /\ C[i] = Got(C[r.at].at, <<r.val>> \o C[r.at].val)
      <3>1. r.at \in T
        BY <1>3, <2>3
      <3>2. C[i].at = C[r.at].at
        <4> HIDE DEF C, r
        <4> QED
          BY <2>3, GotEnd
      <3> QED
        BY <2>3, <3>1, <3>2
    <2> QED
      BY <2>1, <2>2, <2>3
  <1>4. \A i \in 1..n : i \in T
    <2> HIDE DEF T, n
    <2> QED
      BY <1>1, <1>3, Downward
  <1>5. script(s) = C[1] /\ script(s) \in Scripts(s, 1)
    BY ScriptIs
  <1>6. script(s).at \in 1..n /\ script(s).val \in Seq(CmdSet)
    <2>1. script(s) # Fatal
      BY GotEnd
    <2>2. PICK j \in 1..(Len(s) + 1), v \in Seq(CmdSet) : script(s) = Got(j, v)
      BY <1>5, <2>1 DEF Scripts
    <2> QED
      BY <2>2, GotEnd
  <1> QED
    BY <1>1, <1>4, <1>5, <1>6

LEMMA NoneIsStuck ==
    ASSUME NEW s \in Text, NEW m \in Place(s), One(s, m) = None
    PROVE  /\ multispace0(s, m) \in Place(s)
           /\ Stuck(s, multispace0(s, m))
  <1> DEFINE j == multispace0(s, m)
  <1>1. j \in Place(s)
    BY BlanksAt
  <1> HIDE DEF j
  <1>2. command(s, j) = None
    BY GotEnd DEF One, ThenBlanks, j
  <1>3. Generic(s, j).end = "none"
    <2> DEFINE p == known(s, multispace0(s, j))
               q == Generic(s, j)
    <2>1. First(<<p, q>>) = None
      BY <1>2 DEF command
    <2> HIDE DEF p, q
    <2>2. q.end = "none"
      BY <2>1, First2, GotEnd
    <2> QED
      BY <2>2 DEF q
  <1>4. ~Ok(Unknown(s, j, Ends(s)))
    BY <1>3, GotEnd DEF Generic, Mapped, unknown_balanced, Ok
  <1> QED
    BY <1>1, <1>4, NothingUnknown DEF j

\* The parentheses of the end of a text.
LEMMA DepthBehind ==
    ASSUME NEW s \in Text, NEW j \in 1..Len(s)
    PROVE  LET left == SubSeq(s, j, Len(s))
           IN  /\ left \in Text /\ Len(left) = Len(s) - j + 1 /\ left[1] = s[j]
               /\ \A k \in 1..Len(left) :
                    Surplus(left, "(", ")", k) = Depth(s, j - 1 + k) - Depth(s, j - 1)
  <1> DEFINE left == SubSeq(s, j, Len(s))
             n == Len(s) - j + 1
             T == {k \in Nat : k <= n =>
                     Depth(left, k) = Depth(s, j - 1 + k) - Depth(s, j - 1)}
  <1>1. Len(s) \in Nat /\ j \in Nat /\ n \in Nat /\ j - 1 \in Nat
    BY TextType
  <1>2. \A i \in j..Len(s) : s[i] \in Pieces
    BY <1>1, TextType
  <1>3. left \in Seq(Pieces) /\ Len(left) = n /\ \A k \in 1..n : left[k] = s[j + k - 1]
    BY <1>1, <1>2, SubSeqProperties DEF Text
  <1> HIDE DEF left
  <1>4. ASSUME NEW k \in 0..n, \A i \in 0..(k - 1) : i \in T PROVE k \in T
    <2>1. CASE k = 0
      <3>1. Depth(left, 0) = 0 /\ Depth(s, j - 1) \in Int /\ j - 1 + 0 = j - 1
        BY <1>1, DepthStep
      <3> QED
        BY <2>1, <3>1
    <2>2. CASE k # 0
      <3>1. k - 1 \in 0..(k - 1) /\ k - 1 \in Nat /\ k - 1 <= n /\ j - 1 + (k - 1) \in Nat
            /\ k - 1 + 1 = k /\ j - 1 + (k - 1) + 1 = j - 1 + k /\ k \in 1..n
            /\ j + k - 1 = j - 1 + k /\ k \in Nat
        BY <1>1, <2>2
      <3>2. Depth(left, k - 1) = Depth(s, j - 1 + (k - 1)) - Depth(s, j - 1)
        BY <1>4, <3>1
      <3>3. Depth(left, k - 1 + 1) = Depth(left, k - 1)
                + (IF left[k - 1 + 1] = "(" THEN 1 ELSE IF left[k - 1 + 1] = ")" THEN -1 ELSE 0)
            /\ Depth(left, k - 1) \in Int
        BY <3>1, DepthStep
      <3>4. Depth(s, j - 1 + (k - 1) + 1) = Depth(s, j - 1 + (k - 1))
                + (IF s[j - 1 + (k - 1) + 1] = "(" THEN 1
                   ELSE IF s[j - 1 + (k - 1) + 1] = ")" THEN -1 ELSE 0)
            /\ Depth(s, j - 1 + (k - 1)) \in Int
        BY <3>1, DepthStep
      <3>5. left[k] = s[j - 1 + k] /\ Depth(s, j - 1) \in Int
        BY <1>1, <1>3, <3>1, DepthStep
      <3>6. Depth(left, k) = Depth(s, j - 1 + k) - Depth(s, j - 1)
        BY <3>1, <3>2, <3>3, <3>4, <3>5
      <3> QED
        BY <3>1, <3>6
    <2> QED
      BY <2>1, <2>2
  <1>5. \A k \in 0..n : k \in T
    <2> HIDE DEF T, n
    <2> QED
      BY <1>1, <1>4, Upward
  <1>6. \A k \in 1..n : Depth(left, k) = Depth(s, j - 1 + k) - Depth(s, j - 1)
    BY <1>1, <1>5
  <1>7. 1 \in 1..n /\ j + 1 - 1 = j
    BY <1>1
  <1>8. left[1] = s[j]
    BY <1>3, <1>7
  <1> QED
    BY <1>3, <1>6, <1>8 DEF left, Depth, Text

\* The text that is left over.
LEMMA LeftOver ==
    ASSUME NEW s \in Text, Ok(script(s)), Left(s, script(s)) # <<>>
    PROVE  LET left == Left(s, script(s))
           IN  \/ left[1] = ")"
               \/ left[1] = "(" /\ \A k \in DOMAIN left : Surplus(left, "(", ")", k) > 0
  <1> DEFINE m == script(s).at
             j == multispace0(s, m)
             left == SubSeq(s, j, Len(s))
  <1>1. m \in Place(s) /\ One(s, m) = None
    BY ScriptEnd
  <1> HIDE DEF m
  <1>2. j \in Place(s) /\ Stuck(s, j)
    BY <1>1, NoneIsStuck
  <1> HIDE DEF j
  <1>3. Left(s, script(s)) = left
    BY DEF Left, j, m
  <1>4. j \in 1..Len(s)
    <2>1. Len(s) \in Nat /\ j \in 1..(Len(s) + 1)
      BY <1>2, TextType DEF Place
    <2>2. CASE j = Len(s) + 1
      <3>1. SubSeq(s, Len(s) + 1, Len(s)) = <<>>
        BY <2>1, SubSeqProperties
      <3> QED
        BY <1>3, <2>2, <3>1
    <2> QED
      BY <2>1, <2>2
  <1>5. /\ left \in Text /\ Len(left) = Len(s) - j + 1 /\ left[1] = s[j]
        /\ \A k \in 1..Len(left) :
             Surplus(left, "(", ")", k) = Depth(s, j - 1 + k) - Depth(s, j - 1)
    BY <1>4, DepthBehind
  <1>6. DOMAIN left = 1..Len(left) /\ Len(s) \in Nat
    BY <1>5, TextType
  <1> HIDE DEF left
  <1>7. CASE s[j] = ")"
    BY <1>3, <1>5, <1>7
  <1>8. CASE s[j] # ")"
    <2>1. s[j] = "(" /\ \A k \in j..Len(s) : Depth(s, k) > Depth(s, j - 1)
      BY <1>2, <1>4, <1>6, <1>8 DEF Stuck
    <2>2. ASSUME NEW k \in 1..Len(left) PROVE Surplus(left, "(", ")", k) > 0
      <3>1. j - 1 + k \in j..Len(s) /\ j - 1 + k \in Nat /\ j - 1 \in Nat
        BY <1>4, <1>5, <1>6
      <3>2. Depth(s, j - 1 + k) > Depth(s, j - 1)
        BY <2>1, <3>1
      <3>3. Depth(s, j - 1 + k) \in Int /\ Depth(s, j - 1) \in Int
        BY <3>1, DepthStep
      <3>4. Surplus(left, "(", ")", k) = Depth(s, j - 1 + k) - Depth(s, j - 1)
        BY <1>5
      <3> QED
        BY <3>2, <3>3, <3>4
    <2> QED
      BY <1>3, <1>5, <1>6, <2>1, <2>2
  <1> QED
    BY <1>7, <1>8

-----------------------------------------------------------------------------
(* Failures that no alternative catches *)

Mild(r) == r.end # "fatal"

\* A text with no exponent that has no digits.
Calm(s) == \A k \in DOMAIN s : ~BareExponent(s, k)

LEMMA MildParts ==
    /\ \A s, r : Mild(r) => Mild(ThenBlanks(s, r))
    /\ \A s, i, w : Mild(Tag(s, i, w))
    /\ \A s, i, j : Mild(Run1(s, i, j))
    /\ Mild(None)
    /\ \A j, v : Mild(Got(j, v))
  BY DEF Mild, ThenBlanks, Tag, Run1, Got, None

LEMMA MildMapped ==
    /\ \A r, kind : Mild(r) => Mild(Leaf(kind, r))
    /\ \A r, s : Mild(r) => Mild(Closed(s, r))
    /\ \A r, v : Mild(r) => Mild(IF Ok(r) THEN Got(r.at, v) ELSE r)
  BY DEF Leaf, Closed, Mapped, Mild, Got, Tag, None

LEMMA MildCmd ==
    ASSUME NEW r, Mild(r), NEW kind \in CmdKinds
    PROVE  Mild(Mapped(r, LAMBDA e : Cmd(kind, <<>>, e)))
  BY DEF Mapped, Mild, Got

LEMMA MildWord ==
    ASSUME NEW r, Mild(r), NEW kind \in CmdKinds
    PROVE  Mild(Mapped(r, LAMBDA v : Cmd(kind, <<>>, <<>>)))
  BY DEF Mapped, Mild, Got

LEMMA MildFirst ==
    ASSUME NEW rs, NEW n \in Nat, DOMAIN rs = 1..n, \A k \in 1..n : Mild(rs[k])
    PROVE  Mild(First(rs))
  BY FirstIs, MildParts

\* Only an exponent that has no digits is fatal.
LEMMA MildDecimal ==
    ASSUME NEW s \in Text, NEW i \in Place(s), Calm(s)
    PROVE  Mild(decimal(s, i))
  <1> DEFINE w == Whole(s, i)
             p == Part(s, i)
             d == Digits(s, p)
             e == DecimalEnd(s, i)
             g == Sign(s, i)
  <1>1. decimal(s, i) =
             IF w = g /\ (~Point(s, i) \/ p = w + 1) THEN None
             ELSE IF Power(s, i) /\ e = d THEN Fatal
             ELSE Run1(s, i, e)
    BY DecimalIs
  <1> SUFFICES ASSUME ~(w = g /\ (~Point(s, i) \/ p = w + 1)), Power(s, i), e = d
               PROVE  \E k \in DOMAIN s : BareExponent(s, k)
    BY <1>1, MildParts DEF Calm
  <1>2. /\ g \in i..(Len(s) + 1) /\ RunsTo(s, g, {"1"}, w) /\ w \in i..(Len(s) + 1)
        /\ Point(s, i) => RunsTo(s, w + 1, {"1"}, p)
        /\ p \in i..(Len(s) + 1) /\ w <= p
        /\ RunsTo(s, d, {"1"}, e)
        /\ Len(s) \in Nat /\ i \in Nat /\ i >= 1 /\ DOMAIN s = 1..Len(s)
    BY DecimalParts, TextType DEF Place
  <1>3. p <= Len(s) /\ s[p] = "e" /\ p \in DOMAIN s
    BY <1>2 DEF Power
  <1>4. Point(s, i) => w <= Len(s) /\ s[w] = "."
    BY DEF Point
  <1>5. ~Point(s, i) => p = w
    BY DEF Part
  <1>6. d = IF p < Len(s) /\ s[p + 1] = "-" THEN p + 2 ELSE p + 1
    BY DEF Digits
  <1> HIDE DEF w, p, d, e, g
  <1>7. p > 1 /\ s[p - 1] \in {"1", "."}
    <2>1. CASE Point(s, i) /\ p = w + 1
      <3>1. p - 1 = w
        BY <1>2, <2>1
      <3> QED
        BY <1>2, <1>4, <2>1, <3>1
    <2>2. CASE Point(s, i) /\ p # w + 1
      <3>1. p - 1 \in (w + 1)..(p - 1) /\ p > 1
        BY <1>2, <2>2 DEF RunsTo
      <3>2. s[p - 1] \in {"1"}
        BY <1>2, <2>2, <3>1 DEF RunsTo
      <3> QED
        BY <3>1, <3>2
    <2>3. CASE ~Point(s, i)
      <3>1. w # g /\ p = w
        BY <1>5, <2>3
      <3>2. w - 1 \in g..(w - 1) /\ p > 1
        BY <1>2, <3>1 DEF RunsTo
      <3>3. s[w - 1] \in {"1"}
        BY <1>2, <3>2 DEF RunsTo
      <3> QED
        BY <3>1, <3>2, <3>3
    <2> QED
      BY <2>1, <2>2, <2>3
  <1>8. d <= Len(s) => s[d] # "1"
    BY <1>2 DEF RunsTo
  <1>9. ASSUME NEW j \in {p + 1, p + 2} \cap DOMAIN s, s[j] = "1"
        PROVE  j = p + 2 /\ s[p + 1] # "-"
    <2>1. j # d /\ p + 1 <= Len(s) /\ p < Len(s)
      BY <1>2, <1>3, <1>8, <1>9
    <2>2. s[p + 1] # "-"
      <3> SUFFICES ASSUME s[p + 1] = "-" PROVE FALSE
        OBVIOUS
      <3>1. j = p + 1
        BY <1>6, <1>9, <2>1
      <3> QED
        BY <1>9, <3>1
    <2>3. d = p + 1
      BY <1>6, <2>2
    <2> QED
      BY <1>9, <2>1, <2>2, <2>3
  <1> QED
    BY <1>3, <1>7, <1>9 DEF BareExponent

LEMMA MildSingle ==
    ASSUME NEW s \in Text, NEW i \in Place(s), NEW what, Calm(s)
    PROVE  Mild(single(what, s, i))
  <1> DEFINE cs == <<Leaf("UInt", integer(s, i)), Leaf("Dec", decimal(s, i)),
                     Leaf("Hex", hex(s, i)), Leaf("Bin", bin(s, i)),
                     Leaf("Str", string(s, i))>>
  <1>1. Mild(integer(s, i)) /\ Mild(hex(s, i)) /\ Mild(bin(s, i)) /\ Mild(symbol(s, i))
    BY MildParts DEF integer, hex, bin, symbol
  <1>2. Mild(string(s, i))
    <2> DEFINE j == RunUntil(s, i + 1, {Quote})
               q == Tag(s, j, <<Quote>>)
               v == SubSeq(s, i + 1, j - 1)
    <2>1. string(s, i) = IF ~Ok(Tag(s, i, <<Quote>>)) THEN None
                         ELSE IF Ok(q) THEN Got(q.at, v) ELSE q
      BY DEF string, Mapped
    <2> HIDE DEF v
    <2>2. Mild(q)
      BY MildParts
    <2> HIDE DEF q
    <2> QED
      BY <2>1, <2>2, MildParts, MildMapped
  <1>3. Mild(decimal(s, i))
    BY MildDecimal
  <1>4. Mild(constant(s, i))
    <2>1. DOMAIN cs = 1..5 /\ \A k \in 1..5 : Mild(cs[k])
      BY <1>1, <1>2, <1>3, MildMapped
    <2>2. constant(s, i) = First(cs)
      BY DEF constant
    <2> HIDE DEF cs
    <2> QED
      BY <2>1, <2>2, MildFirst
  <1>5. CASE what = "sexp"
    <2> DEFINE rs == <<constant(s, i), Leaf("Symbol", symbol(s, i))>>
    <2>1. DOMAIN rs = 1..2 /\ \A k \in 1..2 : Mild(rs[k])
      BY <1>1, <1>4, MildMapped
    <2>2. single(what, s, i) = First(rs)
      BY <1>5 DEF single
    <2> HIDE DEF rs
    <2> QED
      BY <2>1, <2>2, MildFirst
  <1>6. CASE what # "sexp"
    <2> DEFINE rs == <<Leaf("Int", Tag(s, i, <<"Int">>)), Leaf("Real", Tag(s, i, <<"Real">>)),
                       Leaf("UserDef", symbol(s, i))>>
    <2>1. DOMAIN rs = 1..3 /\ \A k \in 1..3 : Mild(rs[k])
      BY <1>1, MildParts, MildMapped
    <2>2. single(what, s, i) = First(rs)
      BY <1>6 DEF single
    <2> HIDE DEF rs
    <2> QED
      BY <2>1, <2>2, MildFirst
  <1> QED
    BY <1>5, <1>6

LEMMA MildTree ==
    ASSUME NEW s \in Text, NEW i \in Place(s), NEW what, NEW many, Calm(s),
           \A k \in (i + 1)..(Len(s) + 1) : Mild(many[k])
    PROVE  Mild(Tree(what, s, i, many))
  <1> DEFINE j == multispace0(s, i)
             p == ListAt(s, j, many)
             q == single(what, s, j)
  <1>1. j \in Place(s) /\ j \in i..(Len(s) + 1) /\ Len(s) \in Nat /\ i \in Nat
    BY BlanksAt, TextType DEF Place
  <1> HIDE DEF j
  <1>2. Mild(q)
    BY <1>1, MildSingle
  <1>3. Mild(p)
    <2>1. CASE j <= Len(s) /\ s[j] = "("
      <3>1. Mild(many[j + 1])
        BY <1>1, <2>1
      <3>2. Mild(Closed(s, many[j + 1]))
        BY <3>1, MildMapped
      <3> QED
        BY <1>1, <2>1, <3>2, ListIs, MildParts
    <2>2. CASE ~(j <= Len(s) /\ s[j] = "(")
      BY <1>1, <2>2, ListIs, MildParts
    <2> QED
      BY <2>1, <2>2
  <1>4. Mild(First(<<p, q>>))
    <2> HIDE DEF p, q
    <2> QED
      BY <1>2, <1>3, First2, MildParts
  <1> QED
    BY <1>4, TreeIs, MildParts DEF j

LEMMA MildMany ==
    ASSUME NEW s \in Text, NEW what, Calm(s)
    PROVE  \A i \in Place(s) : Mild(Many(what, s)[i])
  <1> DEFINE n == Len(s) + 1
             M == Many(what, s)
             T == {i \in 1..n : Mild(M[i])}
  <1>1. n \in Nat /\ Place(s) = 1..n
    BY TextType DEF Place
  <1>2. ASSUME NEW i \in 1..n, \A k \in (i + 1)..n : k \in T PROVE i \in T
    <2> DEFINE one == Tree(what, s, i, M)
               more == M[one.at]
    <2>1. \A k \in (i + 1)..n : Mild(M[k])
      BY <1>2
    <2>2. Mild(one)
      BY <1>1, <2>1, MildTree
    <2>3. Ok(one) => one.at \in (i + 1)..n
      <3>1. \A k \in (i + 1)..(Len(s) + 1) : Yields(M[k], s, k, Marks)
        BY <1>1, ManyIs
      <3>2. Yields(one, s, i, Marks)
        BY <1>1, <3>1, TreeYields
      <3> QED
        BY <3>2, YieldsAt
    <2>4. M[i] = IF ~Ok(one) \/ more.end = "none" THEN one
                 ELSE IF Ok(more) THEN Got(more.at, one.val \o <<Between>> \o more.val)
                 ELSE more
      BY <1>1, ManyIs, ManyStepIs
    <2>5. Ok(one) => Mild(more)
      BY <2>1, <2>3
    <2> HIDE DEF one, M
    <2>6. Mild(M[i])
      BY <2>2, <2>4, <2>5, MildParts
    <2> QED
      BY <2>6
  <1>3. \A i \in 1..n : i \in T
    <2> HIDE DEF T, n
    <2> QED
      BY <1>1, <1>2, Downward
  <1> QED
    BY <1>1, <1>3

LEMMA MildTrees ==
    ASSUME NEW s \in Text, NEW i \in Place(s), Calm(s)
    PROVE  Mild(sexp(s, i)) /\ Mild(sort(s, i)) /\ Mild(wsSymbol(s, i))
  <1>1. ASSUME NEW what PROVE Mild(Tree(what, s, i, Many(what, s)))
    <2>1. \A k \in (i + 1)..(Len(s) + 1) : Mild(Many(what, s)[k])
      BY MildMany, TextType DEF Place
    <2> QED
      BY <2>1, MildTree
  <1>2. Mild(wsSymbol(s, i))
    BY MildParts DEF wsSymbol, symbol
  <1> QED
    BY <1>1, <1>2 DEF sexp, sort

LEMMA MildCommand ==
    ASSUME NEW s \in Text, NEW i \in Place(s), Calm(s)
    PROVE  Mild(naked_command(s, i))
  <1> DEFINE rs == NakedCommands(s, i)
  <1>1. ASSUME NEW w \in Text, w # <<>>
        PROVE  LET j == multispace0(s, Tag(s, multispace0(s, i), w).at)
               IN  Ok(Tag(s, multispace0(s, i), w)) =>
                     /\ Mild(sexp(s, j)) /\ Mild(wsSymbol(s, j)) /\ Mild(Declared(s, j))
    <2> DEFINE r == Tag(s, multispace0(s, i), w)
               j == multispace0(s, r.at)
    <2> SUFFICES ASSUME Ok(r)
                 PROVE  Mild(sexp(s, j)) /\ Mild(wsSymbol(s, j)) /\ Mild(Declared(s, j))
      OBVIOUS
    <2>1. j \in Place(s)
      BY <1>1, ThenMoreYields
    <2> HIDE DEF j
    <2>2. Mild(sexp(s, j)) /\ Mild(wsSymbol(s, j))
      BY <2>1, MildTrees
    <2>3. Mild(Declared(s, j))
      <3> DEFINE v == wsSymbol(s, j)
      <3>1. CASE Ok(v)
        <4>1. v.at \in Place(s)
          <5>1. v.at \in (j + 1)..(Len(s) + 1)
            BY <2>1, <3>1, WsSymbolYields, YieldsAt
          <5> QED
            BY <2>1, <5>1, TextType DEF Place
        <4>2. Mild(sort(s, v.at))
          BY <4>1, MildTrees
        <4> DEFINE t == sort(s, v.at)
                   x == Cmd("DeclConst", v.val, t.val)
        <4>3. Declared(s, j) = IF Ok(t) THEN Got(t.at, x) ELSE t
          BY <3>1 DEF Declared, Mapped
        <4> HIDE DEF t, x
        <4>4. Mild(IF Ok(t) THEN Got(t.at, x) ELSE t)
          BY <4>2, MildMapped DEF t
        <4> QED
          BY <4>3, <4>4
      <3>2. CASE ~Ok(v)
        BY <2>2, <3>2 DEF Declared
      <3> QED
        BY <3>1, <3>2
    <2> QED
      BY <2>2, <2>3
  <1>2. Mild(naked_assert(s, i)) /\ Mild(naked_csa(s, i)) /\ Mild(naked_logic(s, i))
    BY <1>1, WordTypes, MildParts
       DEF naked_assert, naked_csa, naked_logic, Preceded, AssertWord, CsaWord, LogicWord
  <1>3. Mild(naked_decl_const(s, i))
    BY <1>1, WordTypes, MildParts, DeclIs
  <1>4. DOMAIN rs = 1..6 /\ \A k \in 1..6 : Mild(rs[k])
    <2>1. Mild(Tag(s, i, <<"check-sat">>)) /\ Mild(Tag(s, i, <<"get-model">>))
      BY MildParts
    <2>4. /\ Mild(Mapped(naked_assert(s, i), LAMBDA e : Cmd("Assert", <<>>, e)))
          /\ Mild(Mapped(naked_csa(s, i), LAMBDA e : Cmd("CheckSatAssuming", <<>>, e)))
      BY <1>2, MildCmd DEF CmdKinds
    <2>5. /\ Mild(Mapped(Tag(s, i, <<"check-sat">>), LAMBDA v : Cmd("CheckSat", <<>>, <<>>)))
          /\ Mild(Mapped(Tag(s, i, <<"get-model">>), LAMBDA v : Cmd("GetModel", <<>>, <<>>)))
          /\ Mild(Mapped(naked_logic(s, i), LAMBDA v : Cmd("Logic", <<>>, <<>>)))
      BY <1>2, <2>1, MildWord DEF CmdKinds
    <2> QED
      BY <1>3, <2>4, <2>5 DEF NakedCommands
  <1>5. naked_command(s, i) = First(rs)
    BY DEF naked_command, NakedCommands
  <1> HIDE DEF rs
  <1> QED
    BY <1>4, <1>5, MildFirst

LEMMA MildOne ==
    ASSUME NEW s \in Text, NEW i \in Place(s), Calm(s)
    PROVE  Mild(One(s, i))
  <1>1. ASSUME NEW m \in Place(s) PROVE Mild(known(s, m))
    <2>1. CASE Ok(Tag(s, m, <<"(">>))
      <3>1. m + 1 \in Place(s)
        BY <2>1, TagOne, GotEnd, TextType DEF Place
      <3> DEFINE j == multispace0(s, m + 1)
      <3>2. j \in Place(s)
        BY <3>1, BlanksAt
      <3> HIDE DEF j
      <3>3. Mild(ThenBlanks(s, Closed(s, ThenBlanks(s, naked_command(s, j)))))
        BY <3>2, MildCommand, MildParts, MildMapped
      <3> QED
        BY <2>1, <3>3 DEF known, j
    <2>2. CASE ~Ok(Tag(s, m, <<"(">>))
      BY <2>2, MildParts DEF known
    <2> QED
      BY <2>1, <2>2
  <1>2. ASSUME NEW m \in Place(s) PROVE Mild(command(s, m))
    <2> DEFINE p == known(s, multispace0(s, m))
               q == Generic(s, m)
    <2>1. Mild(p)
      BY <1>1, BlanksAt
    <2>2. Mild(q)
      <3>1. Mild(unknown_balanced(s, m))
        BY MildParts, MildMapped DEF unknown_balanced, Unknown, Mapped
      <3> QED
        BY <3>1, MildMapped DEF Generic, Mapped
    <2>3. command(s, m) = First(<<p, q>>)
      BY DEF command
    <2> HIDE DEF p, q
    <2> QED
      BY <2>1, <2>2, <2>3, First2, MildParts
  <1>3. multispace0(s, i) \in Place(s)
    BY BlanksAt
  <1> QED
    BY <1>2, <1>3, MildParts DEF One

LEMMA MildScript ==
    ASSUME NEW s \in Text, Calm(s)
    PROVE  Ok(script(s))
  <1> DEFINE n == Len(s) + 1
             C == Commands(s)
             T == {i \in 1..n : C[i] # Fatal}
  <1>1. n \in Nat /\ Place(s) = 1..n /\ 1 \in 1..n
    BY TextType DEF Place
  <1>2. ASSUME NEW i \in 1..n, \A k \in (i + 1)..n : k \in T PROVE i \in T
    <2> DEFINE r == One(s, i)
               d == C[r.at]
    <2>1. Mild(r) /\ Yields(r, s, i, CmdSet)
      BY <1>1, MildOne, OneYields
    <2>2. C[i] = IF r = None THEN Got(i, <<>>)
                 ELSE IF r = Fatal THEN Fatal
                 ELSE IF Ok(d) THEN Got(d.at, <<r.val>> \o d.val) ELSE d
      BY <1>1, CommandsIs, ScriptStepIs
    <2> HIDE DEF r
    <2>3. CASE r = None
      BY <2>2, <2>3, GotEnd
    <2>4. CASE r # None
      <3>1. r # Fatal /\ Ok(r)
        BY <2>1, <2>4, GotEnd DEF Yields, Mild
      <3>2. r.at \in (i + 1)..n
        BY <2>1, <3>1, YieldsAt
      <3>3. d # Fatal
        BY <1>2, <3>2
      <3> HIDE DEF d, C
      <3>4. C[i] # Fatal
        BY <2>2, <2>4, <3>1, <3>3, GotEnd
      <3> QED
        BY <3>4
    <2> QED
      BY <2>3, <2>4
  <1>3. \A i \in 1..n : i \in T
    <2> HIDE DEF T, n
    <2> QED
      BY <1>1, <1>2, Downward
  <1>4. script(s) = C[1] /\ script(s) \in Scripts(s, 1)
    BY ScriptIs
  <1>5. script(s) # Fatal
    BY <1>1, <1>3, <1>4
  <1> QED
    BY <1>4, <1>5, GotEnd DEF Scripts

-----------------------------------------------------------------------------
(* Strung together: where each part stands *)

\* Where the first k parts end.
EndOfPart(seqs, k) == IF k = 0 THEN 0 ELSE Len(Flattened(seqs)[k])

LEMMA JoinIs ==
    ASSUME NEW S, NEW u \in Seq(S), NEW w \in Seq(S)
    PROVE  /\ u \o w \in Seq(S) /\ Len(u \o w) = Len(u) + Len(w)
           /\ Len(u) \in Nat /\ Len(w) \in Nat
           /\ \A k \in 1..Len(u) : (u \o w)[k] = u[k]
           /\ \A k \in 1..Len(w) : (u \o w)[Len(u) + k] = w[k]
  <1>1. u \o w \in Seq(S) /\ Len(u) \in Nat /\ Len(w) \in Nat
    OBVIOUS
  <1>2. Len(u \o w) = Len(u) + Len(w)
    OBVIOUS
  <1>3. \A k \in 1..(Len(u) + Len(w)) :
            (u \o w)[k] = IF k <= Len(u) THEN u[k] ELSE w[k - Len(u)]
    BY ConcatProperties
  <1>4. \A k \in 1..Len(w) : (u \o w)[Len(u) + k] = w[k]
    <2> SUFFICES ASSUME NEW k \in 1..Len(w) PROVE (u \o w)[Len(u) + k] = w[k]
      OBVIOUS
    <2>1. PICK m \in 1..(Len(u) + Len(w)) : m = Len(u) + k
      BY <1>1
    <2>2. ~(m <= Len(u)) /\ m - Len(u) = k
      BY <1>1, <2>1
    <2>3. (u \o w)[m] = w[k]
      BY <1>3, <2>1, <2>2
    <2> QED
      BY <2>1, <2>3
  <1> QED
    BY <1>1, <1>2, <1>3, <1>4

LEMMA PartsEnd ==
    ASSUME NEW S, NEW seqs \in Seq(Seq(S))
    PROVE  /\ EndOfPart(seqs, 0) = 0
           /\ EndOfPart(seqs, Len(seqs)) = Len(FlattenSeq(seqs))
           /\ \A k \in 0..Len(seqs) : EndOfPart(seqs, k) \in Nat
           /\ \A k \in 1..Len(seqs) :
                EndOfPart(seqs, k) = EndOfPart(seqs, k - 1) + Len(seqs[k])
  <1> DEFINE n == Len(seqs)
             F == Flattened(seqs)
  <1>1. n \in Nat /\ \A k \in 1..n : seqs[k] \in Seq(S) /\ Len(seqs[k]) \in Nat
    OBVIOUS
  <1>2. \A k \in 1..n : F[k] = FlatStep(seqs, k, F) /\ F[k] \in Seq(S)
    BY FlattenIs
  <1>3. n # 0 => FlattenSeq(seqs) = F[n]
    BY FlattenIs
  <1>4. n = 0 => FlattenSeq(seqs) = <<>>
    BY FlattenIs
  <1> HIDE DEF F, n
  <1>5. \A k \in 1..n : Len(F[k]) \in Nat
    BY <1>2
  <1>6. \A k \in 0..n : EndOfPart(seqs, k) \in Nat
    BY <1>5, <1>1 DEF EndOfPart, F
  <1>7. ASSUME NEW k \in 1..n
        PROVE  EndOfPart(seqs, k) = EndOfPart(seqs, k - 1) + Len(seqs[k])
    <2>1. CASE k = 1
      BY <1>1, <1>2, <2>1 DEF EndOfPart, F, FlatStep
    <2>2. CASE k # 1
      <3>1. PICK m \in 1..n : m = k - 1
        BY <1>1, <2>2
      <3>2. F[k] = F[m] \o seqs[k] /\ F[m] \in Seq(S) /\ seqs[k] \in Seq(S)
        BY <1>1, <1>2, <2>2, <3>1 DEF FlatStep
      <3>3. Len(F[k]) = Len(F[m]) + Len(seqs[k])
        BY <3>2, JoinIs
      <3>4. m # 0 /\ k # 0
        BY <3>1
      <3> QED
        BY <3>1, <3>3, <3>4 DEF EndOfPart, F
    <2> QED
      BY <2>1, <2>2
  <1>8. EndOfPart(seqs, n) = Len(FlattenSeq(seqs))
    BY <1>1, <1>3, <1>4 DEF EndOfPart, F
  <1>9. EndOfPart(seqs, 0) = 0
    BY DEF EndOfPart
  <1> QED
    BY <1>6, <1>7, <1>8, <1>9 DEF n

\* The text w stands in s at i.
Stands(s, i, w) ==
    /\ i + Len(w) <= Len(s) + 1
    /\ \A d \in 1..Len(w) : s[i - 1 + d] = w[d]

LEMMA StandsJoin ==
    ASSUME NEW S, NEW s \in Seq(S), NEW i \in Nat, NEW u \in Seq(S), NEW w \in Seq(S)
    PROVE  Stands(s, i, u \o w) <=> Stands(s, i, u) /\ Stands(s, i + Len(u), w)
  <1>1. /\ Len(u \o w) = Len(u) + Len(w) /\ Len(u) \in Nat /\ Len(w) \in Nat
        /\ \A k \in 1..Len(u) : (u \o w)[k] = u[k]
        /\ \A k \in 1..Len(w) : (u \o w)[Len(u) + k] = w[k]
    BY JoinIs
  <1> DEFINE x == u \o w
  <1> HIDE DEF x
  <1>2. /\ Len(x) = Len(u) + Len(w) /\ Len(u) \in Nat /\ Len(w) \in Nat
        /\ \A k \in 1..Len(u) : x[k] = u[k]
        /\ \A k \in 1..Len(w) : x[Len(u) + k] = w[k]
        /\ Len(s) \in Nat
    BY <1>1 DEF x
  <1>2a. Len(x) = Len(u) + Len(w) /\ Len(u) \in Nat /\ Len(w) \in Nat
    BY <1>2
  <1>3. ASSUME Stands(s, i, x) PROVE Stands(s, i, u) /\ Stands(s, i + Len(u), w)
    <2>1. Stands(s, i, u)
      BY <1>2, <1>3 DEF Stands
    <2>2. ASSUME NEW d \in 1..Len(w) PROVE s[i + Len(u) - 1 + d] = w[d]
      <3>1. Len(u) + d \in 1..Len(x) /\ i - 1 + (Len(u) + d) = i + Len(u) - 1 + d
        BY <1>2
      <3>2. s[i - 1 + (Len(u) + d)] = x[Len(u) + d]
        BY <1>3, <3>1 DEF Stands
      <3> QED
        BY <1>2, <3>1, <3>2
    <2> QED
      BY <1>2, <1>3, <2>1, <2>2 DEF Stands
  <1>4. ASSUME Stands(s, i, u), Stands(s, i + Len(u), w) PROVE Stands(s, i, x)
    <2>1. ASSUME NEW d \in 1..Len(x) PROVE s[i - 1 + d] = x[d]
      <3>1. CASE d \in 1..Len(u)
        BY <1>2, <1>4, <3>1 DEF Stands
      <3>2. CASE d \notin 1..Len(u)
        <4>1. PICK m \in 1..Len(w) : m = d - Len(u)
          <5>1. d \in Nat /\ 1 <= d /\ d <= Len(u) + Len(w) /\ ~(d <= Len(u))
            BY <1>2a, <3>2
          <5>2. d - Len(u) \in 1..Len(w)
            BY <1>2a, <5>1
          <5> QED
            BY <5>2
        <4>2. s[i + Len(u) - 1 + m] = w[m] /\ x[Len(u) + m] = w[m]
          BY <1>2, <1>4 DEF Stands
        <4>3. i + Len(u) - 1 + m = i - 1 + d /\ Len(u) + m = d
          BY <1>2, <4>1
        <4> QED
          BY <4>2, <4>3
      <3> QED
        BY <3>1, <3>2
    <2> QED
      BY <1>2, <1>4, <2>1 DEF Stands
  <1> QED
    BY <1>3, <1>4 DEF x

LEMMA StandsOne ==
    ASSUME NEW S, NEW s \in Seq(S), NEW i \in Nat, NEW p
    PROVE  Stands(s, i, <<p>>) <=> i <= Len(s) /\ s[i] = p
  <1>1. Len(<<p>>) = 1 /\ <<p>>[1] = p /\ i - 1 + 1 = i /\ Len(s) \in Nat
    OBVIOUS
  <1>2. Stands(s, i, <<p>>) <=> i + 1 <= Len(s) + 1 /\ s[i - 1 + 1] = <<p>>[1]
    BY <1>1 DEF Stands
  <1> QED
    BY <1>1, <1>2

LEMMA StandsLast ==
    ASSUME NEW S, NEW x \in Seq(S), NEW w \in Seq(S)
    PROVE  Stands(x \o w, Len(x) + 1, w)
  <1> DEFINE y == x \o w
  <1>1. /\ Len(y) = Len(x) + Len(w) /\ Len(x) \in Nat /\ Len(w) \in Nat
        /\ \A k \in 1..Len(w) : y[Len(x) + k] = w[k]
    BY JoinIs
  <1> HIDE DEF y
  <1>2. Len(y) = Len(x) + Len(w) /\ Len(x) \in Nat /\ Len(w) \in Nat
    BY <1>1
  <1>3. Len(x) + 1 + Len(w) <= Len(y) + 1
    BY <1>2
  <1>4. ASSUME NEW d \in 1..Len(w) PROVE y[Len(x) + 1 - 1 + d] = w[d]
    <2>1. Len(x) + 1 - 1 + d = Len(x) + d
      BY <1>2
    <2>2. y[Len(x) + d] = w[d]
      BY <1>1
    <2> QED
      BY <2>1, <2>2
  <1> QED
    BY <1>3, <1>4 DEF Stands, y

LEMMA StandsStays ==
    ASSUME NEW S, NEW x \in Seq(S), NEW w \in Seq(S), NEW t \in Seq(S), NEW o \in Nat,
           o >= 1, Stands(x, o, t)
    PROVE  Stands(x \o w, o, t)
  <1> DEFINE y == x \o w
  <1>1. /\ Len(y) = Len(x) + Len(w) /\ Len(x) \in Nat /\ Len(w) \in Nat
        /\ \A k \in 1..Len(x) : y[k] = x[k]
    BY JoinIs
  <1> HIDE DEF y
  <1>2. /\ Len(y) = Len(x) + Len(w) /\ Len(x) \in Nat /\ Len(w) \in Nat
        /\ Len(t) \in Nat /\ o + Len(t) <= Len(x) + 1
    BY <1>1 DEF Stands
  <1>3. o + Len(t) <= Len(y) + 1
    BY <1>2
  <1>4. ASSUME NEW d \in 1..Len(t) PROVE y[o - 1 + d] = t[d]
    <2>1. o - 1 + d \in 1..Len(x)
      BY <1>2
    <2>2. x[o - 1 + d] = t[d]
      BY DEF Stands
    <2> QED
      BY <1>1, <2>1, <2>2
  <1> QED
    BY <1>3, <1>4 DEF Stands, y

\* A part stands behind those before it.
LEMMA PartStands ==
    ASSUME NEW S, NEW seqs \in Seq(Seq(S)), NEW k \in 1..Len(seqs)
    PROVE  Stands(FlattenSeq(seqs), EndOfPart(seqs, k - 1) + 1, seqs[k])
  <1> DEFINE n == Len(seqs)
             F == Flattened(seqs)
             o == EndOfPart(seqs, k - 1) + 1
             T == {m \in Nat : k <= m /\ m <= n => Stands(F[m], o, seqs[k])}
  <1>1. n \in Nat /\ k \in Nat /\ \A m \in 1..n : seqs[m] \in Seq(S)
    OBVIOUS
  <1>2. \A m \in 1..n : F[m] = FlatStep(seqs, m, F) /\ F[m] \in Seq(S)
    BY FlattenIs
  <1>3. /\ \A m \in 0..n : EndOfPart(seqs, m) \in Nat
        /\ \A m \in 1..n : EndOfPart(seqs, m) = EndOfPart(seqs, m - 1) + Len(seqs[m])
    BY PartsEnd
  <1>4. o \in Nat /\ o >= 1
    <2>1. PICK h \in 0..n : h = k - 1
      BY <1>1
    <2>2. EndOfPart(seqs, h) \in Nat
      BY <1>3
    <2> QED
      BY <2>1, <2>2
  <1>5. n # 0 => FlattenSeq(seqs) = F[n]
    BY FlattenIs
  <1> HIDE DEF F, n, o
  <1>6. ASSUME NEW m \in 0..n, \A j \in 0..(m - 1) : j \in T PROVE m \in T
    <2> SUFFICES ASSUME k <= m, m <= n PROVE Stands(F[m], o, seqs[k])
      BY <1>1
    <2>1. m \in 1..n /\ F[m] \in Seq(S) /\ seqs[k] \in Seq(S) /\ seqs[m] \in Seq(S)
      BY <1>1, <1>2 DEF n
    <2>2. CASE m = 1
      <3>1. k = 1 /\ F[m] = seqs[k] /\ o = 1
        BY <1>1, <1>2, <2>1, <2>2 DEF FlatStep, o, EndOfPart
      <3>2. Len(seqs[k]) \in Nat
        BY <2>1
      <3>3. \A d \in 1..Len(seqs[k]) : 1 - 1 + d = d
        BY <3>2
      <3> QED
        BY <3>1, <3>2, <3>3 DEF Stands
    <2>3. CASE m # 1
      <3>1. PICK j \in 1..n : j = m - 1
        BY <1>1, <2>1, <2>3
      <3>2. F[m] = F[j] \o seqs[m] /\ F[j] \in Seq(S)
        BY <1>2, <2>1, <2>3, <3>1 DEF FlatStep
      <3>4. CASE k = m
        <4>1. o = Len(F[j]) + 1
          <5>1. j # 0 /\ k - 1 = j
            BY <1>1, <3>1, <3>4
          <5> QED
            BY <5>1 DEF o, EndOfPart, F
        <4>2. Stands(F[j] \o seqs[m], Len(F[j]) + 1, seqs[m])
          BY <2>1, <3>2, StandsLast
        <4> QED
          BY <3>2, <3>4, <4>1, <4>2
      <3>5. CASE k # m
        <4>1. j \in 0..(m - 1) /\ k <= j /\ j <= n
          BY <1>1, <3>1, <3>5
        <4>2. Stands(F[j], o, seqs[k])
          BY <1>6, <4>1
        <4>3. Stands(F[j] \o seqs[m], o, seqs[k])
          BY <1>4, <2>1, <3>2, <4>2, StandsStays
        <4> QED
          BY <3>2, <4>3
      <3> QED
        BY <3>4, <3>5
    <2> QED
      BY <2>2, <2>3
  <1>7. \A m \in 0..n : m \in T
    <2> HIDE DEF T
    <2> QED
      BY <1>1, <1>6, Upward
  <1>8. n \in 0..n /\ k <= n /\ n # 0
    BY <1>1 DEF n
  <1>9. n \in T
    BY <1>7, <1>8
  <1> QED
    BY <1>5, <1>8, <1>9 DEF o

\* The first k parts.
FirstParts(seqs, k) == IF k = 0 THEN <<>> ELSE Flattened(seqs)[k]

LEMMA FirstPartsIs ==
    ASSUME NEW S, NEW seqs \in Seq(Seq(S))
    PROVE  /\ FirstParts(seqs, 0) = <<>>
           /\ FirstParts(seqs, Len(seqs)) = FlattenSeq(seqs)
           /\ \A k \in 0..Len(seqs) : FirstParts(seqs, k) \in Seq(S)
           /\ \A k \in 0..Len(seqs), m \in 0..Len(seqs) :
                k = m + 1 => FirstParts(seqs, k) = FirstParts(seqs, m) \o seqs[k]
  <1> DEFINE n == Len(seqs)
             F == Flattened(seqs)
  <1>1. n \in Nat /\ \A k \in 1..n : seqs[k] \in Seq(S)
    OBVIOUS
  <1>2. \A k \in 1..n : F[k] = FlatStep(seqs, k, F) /\ F[k] \in Seq(S)
    BY FlattenIs
  <1>3. n # 0 => FlattenSeq(seqs) = F[n]
    BY FlattenIs
  <1>4. n = 0 => FlattenSeq(seqs) = <<>>
    BY FlattenIs
  <1> HIDE DEF F, n
  <1>5. ASSUME NEW k \in 0..n, NEW m \in 0..n, k = m + 1
        PROVE  FirstParts(seqs, k) = FirstParts(seqs, m) \o seqs[k]
    <2>1. k \in 1..n /\ k # 0 /\ k - 1 = m /\ (k = 1 <=> m = 0)
      BY <1>1, <1>5
    <2>2. CASE m = 0
      <3>1. F[k] = seqs[k] /\ seqs[k] \in Seq(S)
        BY <1>1, <1>2, <2>1, <2>2 DEF FlatStep
      <3>2. <<>> \o seqs[k] = seqs[k]
        BY <3>1
      <3> QED
        BY <2>1, <2>2, <3>1, <3>2 DEF FirstParts, F
    <2>3. CASE m # 0
      BY <1>2, <2>1, <2>3 DEF FirstParts, F, FlatStep
    <2> QED
      BY <2>2, <2>3
  <1>6. \A k \in 0..n : FirstParts(seqs, k) \in Seq(S)
    BY <1>1, <1>2 DEF FirstParts, F
  <1>7. FirstParts(seqs, n) = FlattenSeq(seqs)
    BY <1>3, <1>4 DEF FirstParts, F
  <1>8. FirstParts(seqs, 0) = <<>>
    BY DEF FirstParts
  <1> QED
    BY <1>5, <1>6, <1>7, <1>8 DEF n

LEMMA JoinAssociative ==
    ASSUME NEW S, NEW x \in Seq(S), NEW y \in Seq(S), NEW z \in Seq(S)
    PROVE  (x \o y) \o z = x \o (y \o z)
  BY ConcatAssociative

Joins(p, x, y) == p = x \o y

LEMMA JoinStep ==
    ASSUME NEW S, NEW x, NEW y, NEW z, NEW p, NEW q, NEW r,
           x \in Seq(S), y \in Seq(S), z \in Seq(S),
           Joins(p, x, y), Joins(q, p, z), Joins(r, y, z)
    PROVE  Joins(q, x, r)
  <1>1. (x \o y) \o z = x \o (y \o z)
    BY JoinAssociative
  <1> QED
    BY <1>1, Zenon DEF Joins

LEMMA FlattenJoin ==
    ASSUME NEW S, NEW u \in Seq(Seq(S)), NEW w \in Seq(Seq(S))
    PROVE  FlattenSeq(u \o w) = FlattenSeq(u) \o FlattenSeq(w)
  <1> DEFINE x == u \o w
             na == Len(u)
             nb == Len(w)
  <1>1. /\ x \in Seq(Seq(S)) /\ Len(x) = na + nb /\ na \in Nat /\ nb \in Nat
        /\ \A k \in 1..na : x[k] = u[k]
        /\ \A k \in 1..nb : x[na + k] = w[k]
    BY JoinIs
  <1>2. /\ \A k \in 1..na : u[k] \in Seq(S)
        /\ \A k \in 1..nb : w[k] \in Seq(S)
    OBVIOUS
  <1>3. /\ FirstParts(u, 0) = <<>>
        /\ FirstParts(u, na) = FlattenSeq(u)
        /\ \A k \in 0..na : FirstParts(u, k) \in Seq(S)
        /\ \A k \in 0..na, m \in 0..na :
                k = m + 1 => FirstParts(u, k) = FirstParts(u, m) \o u[k]
    BY FirstPartsIs
  <1>4. /\ FirstParts(w, 0) = <<>>
        /\ FirstParts(w, nb) = FlattenSeq(w)
        /\ \A k \in 0..nb : FirstParts(w, k) \in Seq(S)
        /\ \A k \in 0..nb, m \in 0..nb :
                k = m + 1 => FirstParts(w, k) = FirstParts(w, m) \o w[k]
    BY FirstPartsIs
  <1>5. /\ FirstParts(x, 0) = <<>>
        /\ FirstParts(x, Len(x)) = FlattenSeq(x)
        /\ \A k \in 0..Len(x) : FirstParts(x, k) \in Seq(S)
        /\ \A k \in 0..Len(x), m \in 0..Len(x) :
                k = m + 1 => FirstParts(x, k) = FirstParts(x, m) \o x[k]
    BY <1>1, FirstPartsIs
  <1> HIDE DEF x, na, nb
  <1> DEFINE T == {k \in Nat : k <= na => FirstParts(x, k) = FirstParts(u, k)}
             U == {k \in Nat : k <= nb =>
                        FirstParts(x, na + k) = FlattenSeq(u) \o FirstParts(w, k)}
  <1>6. ASSUME NEW k \in 0..na, \A j \in 0..(k - 1) : j \in T PROVE k \in T
    <2>1. CASE k = 0
      BY <1>3, <1>5, <2>1
    <2>2. CASE k # 0
      <3>1. PICK m \in 0..na : m = k - 1
        BY <1>1, <2>2
      <3>2. /\ k = m + 1 /\ m \in 0..(k - 1) /\ m <= na /\ k \in 0..Len(x) /\ m \in 0..Len(x)
            /\ k \in 1..na
        BY <1>1, <2>2, <3>1
      <3>3. FirstParts(x, m) = FirstParts(u, m)
        BY <1>6, <3>2
      <3>4. FirstParts(x, k) = FirstParts(x, m) \o x[k]
        BY <1>5, <3>2
      <3>5. FirstParts(u, k) = FirstParts(u, m) \o u[k]
        BY <1>3, <3>2
      <3>6. x[k] = u[k]
        BY <1>1, <3>2
      <3>7. FirstParts(x, k) = FirstParts(u, k)
        BY <3>3, <3>4, <3>5, <3>6, Zenon
      <3> QED
        BY <3>2, <3>7
    <2> QED
      BY <2>1, <2>2
  <1>7. FirstParts(x, na) = FlattenSeq(u)
    <2>1. \A k \in 0..na : k \in T
      <3> HIDE DEF T
      <3> QED
        BY <1>1, <1>6, Upward
    <2>2. na \in T
      BY <1>1, <2>1
    <2> QED
      BY <1>1, <1>3, <2>2
  <1>8. ASSUME NEW k \in 0..nb, \A j \in 0..(k - 1) : j \in U PROVE k \in U
    <2>1. CASE k = 0
      <3>1. FlattenSeq(u) \in Seq(S)
        BY FlattenType
      <3>2. FlattenSeq(u) \o <<>> = FlattenSeq(u)
        BY <3>1
      <3>3. na + k = na
        BY <1>1, <2>1
      <3> QED
        BY <1>4, <1>7, <2>1, <3>2, <3>3
    <2>2. CASE k # 0
      <3>1. PICK m \in 0..nb : m = k - 1
        BY <1>1, <2>2
      <3>2. PICK p \in 0..Len(x) : p = na + m
        BY <1>1, <3>1
      <3>3. PICK q \in 0..Len(x) : q = na + k
        BY <1>1
      <3>4. q = p + 1 /\ k = m + 1 /\ m \in 0..(k - 1) /\ m <= nb /\ k \in 1..nb /\ k <= nb
        BY <1>1, <2>2, <3>1, <3>2, <3>3
      <3>5. FirstParts(x, p) = FlattenSeq(u) \o FirstParts(w, m)
        BY <1>8, <3>2, <3>4
      <3>6. FirstParts(x, q) = FirstParts(x, p) \o x[q]
        BY <1>5, <3>4
      <3>7. FirstParts(w, k) = FirstParts(w, m) \o w[k]
        BY <1>4, <3>4
      <3>8. x[q] = w[k]
        BY <1>1, <3>3, <3>4
      <3>9. FlattenSeq(u) \in Seq(S) /\ FirstParts(w, m) \in Seq(S) /\ w[k] \in Seq(S)
        BY <1>2, <1>4, <3>4, FlattenType
      <3>11. FirstParts(x, q) = FirstParts(x, p) \o w[k]
        BY <3>6, <3>8, Zenon
      <3>12. FirstParts(x, q) = FlattenSeq(u) \o FirstParts(w, k)
        <4> DEFINE hu == FlattenSeq(u)
                   hm == FirstParts(w, m)
                   hk == w[k]
                   hp == FirstParts(x, p)
                   hq == FirstParts(x, q)
                   hr == FirstParts(w, k)
        <4>1. hu \in Seq(S) /\ hm \in Seq(S) /\ hk \in Seq(S)
          BY <3>9
        <4>2. Joins(hp, hu, hm) /\ Joins(hq, hp, hk) /\ Joins(hr, hm, hk)
          BY <3>5, <3>7, <3>11, Zenon DEF Joins
        <4> HIDE DEF hu, hm, hk, hp, hq, hr
        <4>3. Joins(hq, hu, hr)
          BY <4>1, <4>2, JoinStep, Zenon
        <4> QED
          BY <4>3, Zenon DEF Joins, hu, hq, hr
      <3>10. FirstParts(x, na + k) = FlattenSeq(u) \o FirstParts(w, k)
        BY <3>3, <3>12
      <3> QED
        BY <3>4, <3>10
    <2> QED
      BY <2>1, <2>2
  <1>9. nb \in U
    <2>1. \A k \in 0..nb : k \in U
      <3> HIDE DEF U
      <3> QED
        BY <1>1, <1>8, Upward
    <2> QED
      BY <1>1, <2>1
  <1>10. FirstParts(x, na + nb) = FlattenSeq(u) \o FirstParts(w, nb)
    BY <1>1, <1>9
  <1> QED
    BY <1>1, <1>4, <1>5, <1>10 DEF x

LEMMA FlattenSingle ==
    ASSUME NEW S, NEW x \in Seq(Seq(S)), Len(x) = 1
    PROVE  FlattenSeq(x) = x[1]
  <1>0. Len(x) # 0 /\ 1 \in 1..Len(x)
    OBVIOUS
  <1>1. FlattenSeq(x) = Flattened(x)[1] /\ Flattened(x)[1] = FlatStep(x, 1, Flattened(x))
    <2>1. FlattenSeq(x) = Flattened(x)[Len(x)]
      BY <1>0, FlattenIs
    <2>2. Flattened(x)[1] = FlatStep(x, 1, Flattened(x))
      BY <1>0, FlattenIs
    <2> QED
      BY <2>1, <2>2
  <1> QED
    BY <1>1 DEF FlatStep

LEMMA FlattenOne ==
    ASSUME NEW S, NEW w \in Seq(S)
    PROVE  FlattenSeq(<<w>>) = w
  <1>1. <<w>> \in Seq(Seq(S)) /\ Len(<<w>>) = 1 /\ <<w>>[1] = w
    OBVIOUS
  <1> DEFINE x == <<w>>
  <1> HIDE DEF x
  <1>2. x \in Seq(Seq(S)) /\ Len(x) = 1 /\ x[1] = w
    BY <1>1 DEF x
  <1>3. FlattenSeq(x) = x[1]
    BY <1>2, FlattenSingle
  <1> QED
    BY <1>2, <1>3 DEF x

-----------------------------------------------------------------------------
(* A leaf that is printed is read again *)

\* P has from o up to q the pieces s has from i up to j, and something behind.
Same(s, i, j, P, o, q) ==
    /\ i \in Nat /\ j \in Nat /\ o \in Nat /\ q \in Nat
    /\ 1 <= i /\ i < j /\ j <= Len(s) + 1 /\ 1 <= o /\ o < q /\ q <= Len(P)
    /\ j - i = q - o
    /\ \A e \in i..(j - 1), g \in o..(q - 1) : e - i = g - o => P[g] = s[e]

LEMMA SameIs ==
    ASSUME NEW s \in Text, NEW P \in Text, NEW i \in Nat, NEW j \in Nat, NEW o \in Nat, NEW q \in Nat, Same(s, i, j, P, o, q)
    PROVE  /\ Len(s) \in Nat /\ Len(P) \in Nat
           /\ i \in Nat /\ j \in Nat /\ o \in Nat /\ q \in Nat
           /\ 1 <= i /\ i < j /\ j <= Len(s) + 1 /\ 1 <= o /\ o < q /\ q <= Len(P)
           /\ i <= Len(s) /\ o <= Len(P)
           /\ i \in Place(s) /\ j \in Place(s) /\ o \in Place(P) /\ q \in Place(P)
           /\ j - i = q - o /\ P[o] = s[i]
  <1>1. Len(s) \in Nat /\ Len(P) \in Nat
    BY TextType
  <1>2. /\ i \in Nat /\ j \in Nat /\ o \in Nat /\ q \in Nat
        /\ 1 <= i /\ i < j /\ j <= Len(s) + 1 /\ 1 <= o /\ o < q /\ q <= Len(P)
        /\ j - i = q - o
    BY DEF Same
  <1>3. i \in i..(j - 1) /\ o \in o..(q - 1) /\ i - i = o - o
    BY <1>2
  <1>4. P[o] = s[i]
    BY <1>3 DEF Same
  <1>5. i \in Place(s) /\ j \in Place(s) /\ o \in Place(P) /\ q \in Place(P)
    BY <1>1, <1>2 DEF Place
  <1> QED
    BY <1>1, <1>2, <1>4, <1>5

LEMMA RunSame ==
    ASSUME NEW s \in Text, NEW P \in Text, NEW i \in Nat, NEW j \in Nat, NEW o \in Nat, NEW q \in Nat,
           Same(s, i, j, P, o, q), NEW e \in Nat, NEW f \in Nat, NEW g \in Nat, NEW h \in Nat, NEW set,
           i <= e, f <= j, e - i = g - o, f - i = h - o,
           RunsTo(s, e, set, f), f = j => P[h] \notin set
    PROVE  RunEnd(P, g, set) = h
  <1>1. /\ Len(s) \in Nat /\ Len(P) \in Nat
        /\ i \in Nat /\ j \in Nat /\ o \in Nat /\ q \in Nat
        /\ 1 <= i /\ i < j /\ j <= Len(s) + 1 /\ 1 <= o /\ o < q /\ q <= Len(P)
        /\ j - i = q - o
    BY SameIs
  <1>2. e \in Nat /\ f \in Nat /\ g \in Nat /\ h \in Nat /\ e <= f
    BY DEF RunsTo
  <1>5. ASSUME NEW k \in g..(h - 1) PROVE P[k] \in set
    <2>1. PICK m \in e..(f - 1) : m - i = k - o
      <3>1. k - o + i \in e..(f - 1) /\ (k - o + i) - i = k - o
        BY <1>1, <1>2
      <3> QED
        BY <3>1
    <2>2. m \in i..(j - 1) /\ k \in o..(q - 1)
      BY <1>1, <1>2
    <2>3. P[k] = s[m]
      BY <2>1, <2>2 DEF Same
    <2>4. s[m] \in set
      BY DEF RunsTo
    <2> QED
      BY <2>3, <2>4
  <1>6. P[h] \notin set
    <2>1. CASE f = j
      BY <2>1
    <2>2. CASE f # j
      <3>1. f \in i..(j - 1) /\ h \in o..(q - 1) /\ f <= Len(s)
        BY <1>1, <1>2, <2>2
      <3>2. P[h] = s[f]
        BY <3>1 DEF Same
      <3>3. s[f] \notin set
        BY <3>1 DEF RunsTo
      <3> QED
        BY <3>2, <3>3
    <2> QED
      BY <2>1, <2>2
  <1>7. h \in g..(Len(P) + 1) /\ g \in Place(P)
    BY <1>1, <1>2 DEF Place
  <1>8. RunsTo(P, g, set, h)
    BY <1>5, <1>6, <1>7 DEF RunsTo
  <1> QED
    BY <1>1, <1>7, <1>8, RunEndIs

LEMMA RunUntilSame ==
    ASSUME NEW s \in Text, NEW P \in Text, NEW i \in Nat, NEW j \in Nat, NEW o \in Nat, NEW q \in Nat,
           Same(s, i, j, P, o, q), NEW e \in Nat, NEW f \in Nat, NEW g \in Nat, NEW h \in Nat, NEW set,
           i <= e, f <= j, e - i = g - o, f - i = h - o,
           RunsUntil(s, e, set, f), f = j => P[h] \in set
    PROVE  RunUntil(P, g, set) = h
  <1>1. /\ Len(s) \in Nat /\ Len(P) \in Nat
        /\ i \in Nat /\ j \in Nat /\ o \in Nat /\ q \in Nat
        /\ 1 <= i /\ i < j /\ j <= Len(s) + 1 /\ 1 <= o /\ o < q /\ q <= Len(P)
        /\ j - i = q - o
    BY SameIs
  <1>2. e \in Nat /\ f \in Nat /\ g \in Nat /\ h \in Nat /\ e <= f
    BY DEF RunsUntil
  <1>5. ASSUME NEW k \in g..(h - 1) PROVE P[k] \notin set
    <2>1. PICK m \in e..(f - 1) : m - i = k - o
      <3>1. k - o + i \in e..(f - 1) /\ (k - o + i) - i = k - o
        BY <1>1, <1>2
      <3> QED
        BY <3>1
    <2>2. m \in i..(j - 1) /\ k \in o..(q - 1)
      BY <1>1, <1>2
    <2>3. P[k] = s[m]
      BY <2>1, <2>2 DEF Same
    <2>4. s[m] \notin set
      BY DEF RunsUntil
    <2> QED
      BY <2>3, <2>4
  <1>6. P[h] \in set
    <2>1. CASE f = j
      BY <2>1
    <2>2. CASE f # j
      <3>1. f \in i..(j - 1) /\ h \in o..(q - 1) /\ f <= Len(s)
        BY <1>1, <1>2, <2>2
      <3>2. P[h] = s[f]
        BY <3>1 DEF Same
      <3>3. s[f] \in set
        BY <3>1 DEF RunsUntil
      <3> QED
        BY <3>2, <3>3
    <2> QED
      BY <2>1, <2>2
  <1>7. h \in g..(Len(P) + 1) /\ g \in Place(P)
    BY <1>1, <1>2 DEF Place
  <1>8. RunsUntil(P, g, set, h)
    BY <1>5, <1>6, <1>7 DEF RunsUntil
  <1> QED
    BY <1>1, <1>7, <1>8, RunUntilIs

Cut(s, e, f) == SubSeq(s, e, f - 1)

IsCut(w, s, e, n) ==
    Len(w) = n /\ \A k \in 1..n : w[k] = s[e + k - 1]

LEMMA CutIs ==
    ASSUME NEW s \in Text, NEW e \in Nat, NEW f \in Nat, e \in Place(s), f \in Place(s),
           e <= f, NEW n \in Nat, n = f - e
    PROVE  /\ Cut(s, e, f) \in Text /\ Cut(s, e, f) \in Seq(Pieces)
           /\ IsCut(Cut(s, e, f), s, e, n)
  <1>1. PICK m \in Int : m = f - 1
    OBVIOUS
  <1>2. \A k \in e..m : s[k] \in Pieces
    BY <1>1, TextType DEF Place
  <1>3. /\ SubSeq(s, e, m) \in Seq(Pieces)
        /\ Len(SubSeq(s, e, m)) = IF e <= m THEN m - e + 1 ELSE 0
        /\ \A k \in 1..(m - e + 1) : SubSeq(s, e, m)[k] = s[e + k - 1]
    BY <1>2, SubSeqProperties
  <1>4. Len(SubSeq(s, e, m)) = n /\ m - e + 1 = n
    BY <1>1, <1>3
  <1>5. Cut(s, e, f) = SubSeq(s, e, m)
    BY <1>1 DEF Cut
  <1>6. /\ SubSeq(s, e, m) \in Text /\ SubSeq(s, e, m) \in Seq(Pieces)
        /\ \A k \in 1..n : SubSeq(s, e, m)[k] = s[e + k - 1]
    BY <1>3, <1>4 DEF Text
  <1>7. IsCut(SubSeq(s, e, m), s, e, n)
    BY <1>4, <1>6 DEF IsCut
  <1> QED
    BY <1>5, <1>6, <1>7

LEMMA CutSame ==
    ASSUME NEW s \in Text, NEW P \in Text, NEW i \in Nat, NEW j \in Nat, NEW o \in Nat, NEW q \in Nat,
           Same(s, i, j, P, o, q), NEW e \in Nat, NEW f \in Nat, NEW g \in Nat, NEW h \in Nat,
           i <= e, e <= f, f <= j, e - i = g - o, f - i = h - o
    PROVE  Cut(P, g, h) = Cut(s, e, f)
  <1>1. /\ Len(s) \in Nat /\ Len(P) \in Nat
        /\ i \in Nat /\ j \in Nat /\ o \in Nat /\ q \in Nat
        /\ 1 <= i /\ i < j /\ j <= Len(s) + 1 /\ 1 <= o /\ o < q /\ q <= Len(P)
        /\ j - i = q - o
    BY SameIs
  <1>2. PICK n \in Nat : n = f - e /\ n = h - g
    BY <1>1
  <1>3. Cut(P, g, h) \in Seq(Pieces) /\ IsCut(Cut(P, g, h), P, g, n)
    <2>1. g \in Place(P) /\ h \in Place(P) /\ g <= h
      BY <1>1 DEF Place
    <2> QED
      BY <1>2, <2>1, CutIs
  <1>4. Cut(s, e, f) \in Seq(Pieces) /\ IsCut(Cut(s, e, f), s, e, n)
    <2>1. e \in Place(s) /\ f \in Place(s) /\ e <= f
      BY <1>1 DEF Place
    <2> QED
      BY <1>2, <2>1, CutIs
  <1>5. ASSUME NEW k \in 1..n PROVE P[g + k - 1] = s[e + k - 1]
    <2>1. PICK m \in i..(j - 1) : m = e + k - 1
      BY <1>1, <1>2
    <2>2. PICK r \in o..(q - 1) : r = g + k - 1
      BY <1>1, <1>2
    <2>3. m - i = r - o
      BY <1>1, <2>1, <2>2
    <2>4. P[r] = s[m]
      BY <2>3 DEF Same
    <2> QED
      BY <2>1, <2>2, <2>4
  <1> DEFINE u == Cut(P, g, h)
             w == Cut(s, e, f)
  <1>6. u \in Seq(Pieces) /\ w \in Seq(Pieces) /\ IsCut(u, P, g, n) /\ IsCut(w, s, e, n)
    BY <1>3, <1>4
  <1> HIDE DEF u, w
  <1>9. Len(u) = Len(w)
    BY <1>6 DEF IsCut
  <1>7. \A k \in 1..Len(u) : u[k] = w[k]
    BY <1>5, <1>6 DEF IsCut
  <1>8. u = w
    BY <1>6, <1>7, <1>9, SeqEqual
  <1> QED
    BY <1>8 DEF u, w

LEMMA Run1Same ==
    ASSUME NEW s \in Text, NEW P \in Text, NEW i \in Nat, NEW j \in Nat, NEW o \in Nat,
           NEW q \in Nat, Same(s, i, j, P, o, q)
    PROVE  /\ Cut(P, o, q) = Cut(s, i, j)
           /\ Run1(s, i, j) = Got(j, Cut(s, i, j))
           /\ Run1(P, o, q) = Got(q, Cut(s, i, j))
  <1>1. i < j /\ o < q /\ j - i = q - o
    BY SameIs
  <1>2. i <= i /\ i <= j /\ j <= j /\ i - i = o - o
    BY <1>1
  <1>3. Cut(P, o, q) = Cut(s, i, j)
    BY <1>1, <1>2, CutSame
  <1>4. Run1(s, i, j) = Got(j, Cut(s, i, j)) /\ Run1(P, o, q) = Got(q, Cut(P, o, q))
    BY <1>1 DEF Run1, Cut
  <1> QED
    BY <1>3, <1>4

\* The piece p is at e.
Here(s, e, p) == e <= Len(s) /\ s[e] = p

\* What ends a leaf.
Ender == {" ", ")"}

LEMMA IntegerIs ==
    ASSUME NEW s \in Text, NEW i \in Place(s), NEW e, e = RunEnd(s, i, {"1"})
    PROVE  /\ RunsTo(s, i, {"1"}, e) /\ e \in i..(Len(s) + 1)
           /\ integer(s, i) =
                IF e = i \/ Here(s, e, ".") THEN None ELSE Got(e, Cut(s, i, e))
  <1>1. RunsTo(s, i, {"1"}, e) /\ e \in i..(Len(s) + 1) /\ Len(s) \in Nat /\ i \in Nat
    BY RunEndIs, TextType DEF RunsTo, Place
  <1>2. integer(s, i) = LET r == Run1(s, i, e)
                        IN  IF Ok(r) /\ r.at <= Len(s) /\ s[r.at] = "." THEN None ELSE r
    BY DEF integer
  <1>3. CASE e = i
    <2>1. Run1(s, i, e) = None
      BY <1>1, <1>3 DEF Run1, Cut
    <2> QED
      BY <1>1, <1>2, <1>3, <2>1, GotEnd DEF Here
  <1>4. CASE e # i
    <2>1. Run1(s, i, e) = Got(e, Cut(s, i, e))
      BY <1>1, <1>4 DEF Run1, Cut
    <2> QED
      BY <1>1, <1>2, <1>4, <2>1, GotEnd DEF Here
  <1> QED
    BY <1>3, <1>4

LEMMA IntegerSame ==
    ASSUME NEW s \in Text, NEW P \in Text, NEW i \in Nat, NEW j \in Nat, NEW o \in Nat, NEW q \in Nat,
           Same(s, i, j, P, o, q), P[q] \in Ender, Ok(integer(s, i)), integer(s, i).at = j
    PROVE  /\ integer(P, o) = Got(q, Cut(s, i, j))
           /\ integer(s, i) = Got(j, Cut(s, i, j))
  <1>1. /\ i \in Nat /\ j \in Nat /\ o \in Nat /\ q \in Nat /\ i < j /\ o < q
        /\ i \in Place(s) /\ o \in Place(P) /\ j - i = q - o
    BY SameIs
  <1> DEFINE e == RunEnd(s, i, {"1"})
             h == RunEnd(P, o, {"1"})
  <1>2. /\ RunsTo(s, i, {"1"}, e) /\ e \in i..(Len(s) + 1)
        /\ integer(s, i) = IF e = i \/ Here(s, e, ".") THEN None
                           ELSE Got(e, Cut(s, i, e))
    BY <1>1, IntegerIs
  <1>3. /\ h \in o..(Len(P) + 1)
        /\ integer(P, o) = IF h = o \/ Here(P, h, ".") THEN None
                           ELSE Got(h, Cut(P, o, h))
    BY <1>1, IntegerIs
  <1> HIDE DEF e, h
  <1>4. e # i /\ integer(s, i) = Got(e, Cut(s, i, e)) /\ e = j
    BY <1>2, GotEnd
  <1>5. h = q
    <2>1. RunsTo(s, i, {"1"}, j) /\ i <= i /\ j <= j /\ i - i = o - o
      BY <1>1, <1>2, <1>4
    <2>2. P[q] \notin {"1"}
      BY DEF Ender
    <2>3. RunEnd(P, o, {"1"}) = q
      BY <1>1, <2>1, <2>2, RunSame
    <2> QED
      BY <2>3 DEF h
  <1>6. Cut(P, o, q) = Cut(s, i, j)
    BY Run1Same
  <1>7. P[h] # "." /\ h # o
    <2>1. P[q] # "."
      BY DEF Ender
    <2> QED
      BY <1>1, <1>5, <2>1
  <1> QED
    BY <1>3, <1>4, <1>5, <1>6, <1>7 DEF Here

\* Only digits begin an integer.
LEMMA IntegerNever ==
    ASSUME NEW s \in Text, NEW i \in Place(s), i <= Len(s) => s[i] # "1"
    PROVE  integer(s, i) = None /\ RunEnd(s, i, {"1"}) = i
  <1> DEFINE e == RunEnd(s, i, {"1"})
  <1>1. /\ RunsTo(s, i, {"1"}, e) /\ e \in i..(Len(s) + 1)
        /\ integer(s, i) = IF e = i \/ Here(s, e, ".") THEN None
                           ELSE Got(e, Cut(s, i, e))
    BY IntegerIs
  <1> HIDE DEF e
  <1>2. i \in Nat /\ Len(s) \in Nat /\ i <= Len(s) + 1
    BY TextType DEF Place
  <1>3. e = i
    <2> SUFFICES ASSUME e # i PROVE FALSE
      OBVIOUS
    <2>1. i \in i..(e - 1) /\ i <= Len(s)
      BY <1>1, <1>2
    <2>2. s[i] \in {"1"}
      BY <1>1, <2>1 DEF RunsTo
    <2> QED
      BY <2>1, <2>2
  <1> QED
    BY <1>1, <1>3 DEF e

\* A tag and more of a set.
Prefixed(s, i, p, set) ==
    IF Ok(Tag(s, i, <<p>>)) THEN Run1(s, i, RunEnd(s, i + 1, set)) ELSE None

LEMMA PrefixedIs ==
    ASSUME NEW s \in Text, NEW i \in Place(s), NEW p, NEW set
    PROVE  /\ i <= Len(s) /\ s[i] = p =>
                /\ RunsTo(s, i + 1, set, RunEnd(s, i + 1, set))
                /\ RunEnd(s, i + 1, set) \in (i + 1)..(Len(s) + 1)
                /\ Prefixed(s, i, p, set) =
                     Got(RunEnd(s, i + 1, set), Cut(s, i, RunEnd(s, i + 1, set)))
           /\ ~(i <= Len(s) /\ s[i] = p) => Prefixed(s, i, p, set) = None
  <1>1. Ok(Tag(s, i, <<p>>)) <=> i <= Len(s) /\ s[i] = p
    BY TagOne, GotEnd
  <1>2. ASSUME i <= Len(s), s[i] = p
        PROVE  /\ RunsTo(s, i + 1, set, RunEnd(s, i + 1, set))
               /\ RunEnd(s, i + 1, set) \in (i + 1)..(Len(s) + 1)
               /\ Prefixed(s, i, p, set) =
                     Got(RunEnd(s, i + 1, set), Cut(s, i, RunEnd(s, i + 1, set)))
    <2>1. i + 1 \in Place(s) /\ Len(s) \in Nat /\ i \in Nat
      BY <1>2, TextType DEF Place
    <2>2. RunsTo(s, i + 1, set, RunEnd(s, i + 1, set))
      BY <2>1, RunEndIs
    <2> DEFINE e == RunEnd(s, i + 1, set)
    <2>3. e \in (i + 1)..(Len(s) + 1)
      BY <2>2 DEF RunsTo
    <2>4. Prefixed(s, i, p, set) = Run1(s, i, e)
      BY <1>1, <1>2 DEF Prefixed
    <2> HIDE DEF e
    <2>5. Run1(s, i, e) = Got(e, Cut(s, i, e))
      BY <2>1, <2>3 DEF Run1, Cut
    <2> QED
      BY <2>2, <2>3, <2>4, <2>5 DEF e
  <1> QED
    BY <1>1, <1>2 DEF Prefixed

LEMMA PrefixedSame ==
    ASSUME NEW s \in Text, NEW P \in Text, NEW i \in Nat, NEW j \in Nat, NEW o \in Nat,
           NEW q \in Nat, Same(s, i, j, P, o, q), NEW p, NEW set, P[q] \notin set,
           Ok(Prefixed(s, i, p, set)), Prefixed(s, i, p, set).at = j
    PROVE  /\ s[i] = p
           /\ Prefixed(s, i, p, set) = Got(j, Cut(s, i, j))
           /\ Prefixed(P, o, p, set) = Got(q, Cut(s, i, j))
  <1>1. /\ Len(s) \in Nat /\ Len(P) \in Nat /\ i < j /\ o < q /\ j - i = q - o
        /\ i \in Place(s) /\ o \in Place(P) /\ i <= Len(s) /\ o <= Len(P) /\ P[o] = s[i]
    BY SameIs
  <1>2. i <= Len(s) /\ s[i] = p
    BY <1>1, PrefixedIs, GotEnd
  <1> DEFINE e == RunEnd(s, i + 1, set)
             h == RunEnd(P, o + 1, set)
  <1>3. /\ RunsTo(s, i + 1, set, e)
        /\ Prefixed(s, i, p, set) = Got(e, Cut(s, i, e))
    BY <1>1, <1>2, PrefixedIs
  <1>4. Prefixed(P, o, p, set) = Got(h, Cut(P, o, h))
    BY <1>1, <1>2, PrefixedIs
  <1> HIDE DEF e, h
  <1>5. e = j
    BY <1>3, GotEnd
  <1>6. h = q
    <2>1. PICK f \in Nat, g \in Nat : f = i + 1 /\ g = o + 1
      OBVIOUS
    <2>2. i <= f /\ j <= j /\ f - i = g - o /\ j - i = q - o
      BY <1>1, <2>1
    <2>3. RunsTo(s, f, set, j)
      BY <1>3, <1>5, <2>1
    <2>4. RunEnd(P, g, set) = q
      BY <2>2, <2>3, RunSame
    <2> QED
      BY <2>1, <2>4 DEF h
  <1>7. Cut(P, o, q) = Cut(s, i, j)
    BY Run1Same
  <1> QED
    BY <1>2, <1>3, <1>4, <1>5, <1>6, <1>7

LEMMA HexBinIs ==
    ASSUME NEW s, NEW i
    PROVE  /\ hex(s, i) = Prefixed(s, i, "#x1", {"1", "e"})
           /\ bin(s, i) = Prefixed(s, i, "#b1", {"1"})
  BY DEF hex, bin, Prefixed

LEMMA StringIs ==
    ASSUME NEW s \in Text, NEW i \in Place(s)
    PROVE  /\ i <= Len(s) /\ s[i] = Quote =>
                LET e == RunUntil(s, i + 1, {Quote})
                IN  /\ RunsUntil(s, i + 1, {Quote}, e)
                    /\ e \in (i + 1)..(Len(s) + 1)
                    /\ string(s, i) =
                         IF e <= Len(s) THEN Got(e + 1, Cut(s, i + 1, e)) ELSE None
           /\ ~(i <= Len(s) /\ s[i] = Quote) => string(s, i) = None
  <1>1. Ok(Tag(s, i, <<Quote>>)) <=> i <= Len(s) /\ s[i] = Quote
    BY TagOne, GotEnd
  <1>2. ASSUME i <= Len(s), s[i] = Quote
        PROVE  LET e == RunUntil(s, i + 1, {Quote})
               IN  /\ RunsUntil(s, i + 1, {Quote}, e)
                   /\ e \in (i + 1)..(Len(s) + 1)
                   /\ string(s, i) =
                        IF e <= Len(s) THEN Got(e + 1, Cut(s, i + 1, e)) ELSE None
    <2>1. i + 1 \in Place(s) /\ Len(s) \in Nat /\ i \in Nat
      BY <1>2, TextType DEF Place
    <2> DEFINE e == RunUntil(s, i + 1, {Quote})
    <2>2. RunsUntil(s, i + 1, {Quote}, e)
      BY <2>1, RunUntilIs
    <2>3. e \in (i + 1)..(Len(s) + 1)
      BY <2>2 DEF RunsUntil
    <2>4. string(s, i) = LET r == Tag(s, e, <<Quote>>)
                         IN  IF Ok(r) THEN Got(r.at, Cut(s, i + 1, e)) ELSE r
      BY <1>1, <1>2 DEF string, Mapped, Cut
    <2>5. e \in Place(s) /\ (e <= Len(s) => s[e] = Quote)
      BY <2>1, <2>2, <2>3 DEF RunsUntil, Place
    <2> HIDE DEF e
    <2>6. Tag(s, e, <<Quote>>) = IF e <= Len(s) /\ s[e] = Quote THEN Got(e + 1, <<Quote>>)
                                 ELSE None
      BY <2>5, TagOne
    <2>7. string(s, i) = IF e <= Len(s) THEN Got(e + 1, Cut(s, i + 1, e)) ELSE None
      <3>1. CASE e <= Len(s)
        <4>1. Tag(s, e, <<Quote>>) = Got(e + 1, <<Quote>>)
          BY <2>5, <2>6, <3>1
        <4> QED
          BY <2>4, <3>1, <4>1, GotEnd
      <3>2. CASE ~(e <= Len(s))
        <4>1. Tag(s, e, <<Quote>>) = None
          BY <2>6, <3>2
        <4> QED
          BY <2>4, <3>2, <4>1, GotEnd
      <3> QED
        BY <3>1, <3>2
    <2> QED
      BY <2>2, <2>3, <2>7 DEF e
  <1> QED
    BY <1>1, <1>2 DEF string

LEMMA CutOne ==
    ASSUME NEW s \in Text, NEW e \in Nat, NEW f \in Nat, e \in Place(s), f \in Place(s), f = e + 1
    PROVE  Cut(s, e, f) = <<s[e]>>
  <1>1. Len(s) \in Nat /\ s[e] \in Pieces /\ 1 <= e /\ e <= Len(s)
    BY TextType DEF Place
  <1>2. e <= f /\ 1 = f - e /\ 1 \in Nat
    OBVIOUS
  <1>3. Cut(s, e, f) \in Seq(Pieces) /\ IsCut(Cut(s, e, f), s, e, 1)
    BY <1>2, CutIs
  <1>4. Len(Cut(s, e, f)) = 1 /\ Cut(s, e, f)[1] = s[e]
    BY <1>3 DEF IsCut
  <1> DEFINE u == Cut(s, e, f)
             w == <<s[e]>>
  <1>5. w \in Seq(Pieces) /\ Len(w) = 1 /\ w[1] = s[e]
    BY <1>1
  <1>6. u \in Seq(Pieces) /\ Len(u) = 1 /\ u[1] = s[e]
    BY <1>3, <1>4
  <1> HIDE DEF u, w
  <1>7. Len(u) = Len(w) /\ \A k \in 1..Len(u) : u[k] = w[k]
    BY <1>5, <1>6
  <1>8. u = w
    BY <1>5, <1>6, <1>7, SeqEqual
  <1> QED
    BY <1>8 DEF u, w

LEMMA CutJoin ==
    ASSUME NEW s \in Text, NEW e \in Nat, NEW f \in Nat, NEW g \in Nat,
           e \in Place(s), e <= f, f <= g, g \in Place(s)
    PROVE  /\ Joins(Cut(s, e, g), Cut(s, e, f), Cut(s, f, g))
           /\ Cut(s, e, f) \in Text /\ Len(Cut(s, e, f)) = f - e
  <1>0. Len(s) \in Nat /\ 1 <= e /\ g <= Len(s) + 1
    BY TextType DEF Place
  <1>1. PICK n \in Nat, m \in Nat, l \in Nat : n = f - e /\ m = g - f /\ l = g - e
    <2>1. f - e \in Nat /\ g - f \in Nat /\ g - e \in Nat
      OBVIOUS
    <2> QED
      BY <2>1
  <1>2. f \in Place(s) /\ e <= g
    BY <1>0 DEF Place
  <1> DEFINE u == Cut(s, e, f)
             w == Cut(s, f, g)
             z == Cut(s, e, g)
  <1>30. u \in Seq(Pieces) /\ IsCut(u, s, e, n)
    BY <1>1, <1>2, CutIs
  <1>3. /\ u \in Seq(Pieces) /\ Len(u) = n
        /\ \A k \in 1..n : u[k] = s[e + k - 1]
    BY <1>30 DEF IsCut
  <1>40. w \in Seq(Pieces) /\ IsCut(w, s, f, m)
    BY <1>1, <1>2, CutIs
  <1>4. /\ w \in Seq(Pieces) /\ Len(w) = m
        /\ \A k \in 1..m : w[k] = s[f + k - 1]
    BY <1>40 DEF IsCut
  <1>50. z \in Seq(Pieces) /\ IsCut(z, s, e, l)
    BY <1>1, <1>2, CutIs
  <1>5. /\ z \in Seq(Pieces) /\ Len(z) = l
        /\ \A k \in 1..l : z[k] = s[e + k - 1]
    BY <1>50 DEF IsCut
  <1> HIDE DEF u, w, z
  <1> DEFINE x == u \o w
  <1>16. u \in Seq(Pieces) /\ w \in Seq(Pieces)
    BY <1>3, <1>4
  <1>6. /\ x \in Seq(Pieces) /\ Len(x) = Len(u) + Len(w)
        /\ \A k \in 1..Len(u) : x[k] = u[k]
        /\ \A k \in 1..Len(w) : x[Len(u) + k] = w[k]
    BY <1>16, JoinIs
  <1> HIDE DEF x
  <1>7. ASSUME NEW k \in 1..Len(x) PROVE x[k] = z[k]
    <2>1. k \in 1..l /\ z[k] = s[e + k - 1]
      BY <1>1, <1>3, <1>4, <1>5, <1>6
    <2>2. CASE k <= n
      BY <1>3, <1>6, <2>1, <2>2
    <2>3. CASE ~(k <= n)
      <3>1. PICK h \in 1..m : k = n + h
        <4>1. l = n + m /\ k \in Nat /\ k <= l /\ k > n
          BY <1>1, <2>1, <2>3
        <4>2. k - n \in 1..m /\ k = n + (k - n)
          BY <4>1
        <4> QED
          BY <4>2
      <3>2. x[k] = w[h]
        BY <1>3, <1>4, <1>6, <3>1
      <3>3. w[h] = s[f + h - 1]
        BY <1>4
      <3>4. f + h - 1 = e + k - 1
        BY <1>1, <3>1
      <3> QED
        BY <2>1, <3>2, <3>3, <3>4
    <2> QED
      BY <2>2, <2>3
  <1>8. Len(x) = Len(z)
    BY <1>1, <1>3, <1>4, <1>5, <1>6
  <1>9. x = z
    BY <1>5, <1>6, <1>7, <1>8, SeqEqual
  <1>10. u \in Text /\ Len(u) = f - e
    BY <1>1, <1>3 DEF Text
  <1> QED
    BY <1>9, <1>10 DEF x, u, w, z, Joins

Quoted(w) == <<Quote>> \o w \o <<Quote>>

LEMMA StringSame ==
    ASSUME NEW s \in Text, NEW P \in Text, NEW i \in Nat, NEW j \in Nat, NEW o \in Nat,
           NEW q \in Nat, Same(s, i, j, P, o, q), Ok(string(s, i)), string(s, i).at = j
    PROVE  /\ s[i] = Quote
           /\ \E w \in Text :
                /\ string(s, i) = Got(j, w) /\ string(P, o) = Got(q, w)
                /\ Quoted(w) = Cut(s, i, j)
  <1>1. /\ Len(s) \in Nat /\ Len(P) \in Nat /\ i < j /\ o < q /\ j - i = q - o
        /\ i \in Place(s) /\ o \in Place(P) /\ i <= Len(s) /\ o <= Len(P) /\ P[o] = s[i]
        /\ 1 <= i /\ j <= Len(s) + 1 /\ q <= Len(P)
    BY SameIs
  <1>2. s[i] = Quote
    BY <1>1, StringIs, GotEnd
  <1>3. PICK e \in Nat :
            /\ RunsUntil(s, i + 1, {Quote}, e) /\ e \in (i + 1)..(Len(s) + 1)
            /\ string(s, i) = IF e <= Len(s) THEN Got(e + 1, Cut(s, i + 1, e)) ELSE None
    <2> DEFINE z == RunUntil(s, i + 1, {Quote})
    <2>1. /\ RunsUntil(s, i + 1, {Quote}, z) /\ z \in (i + 1)..(Len(s) + 1)
          /\ string(s, i) = IF z <= Len(s) THEN Got(z + 1, Cut(s, i + 1, z)) ELSE None
      BY <1>1, <1>2, StringIs
    <2> HIDE DEF z
    <2>2. z \in Nat
      BY <1>1, <2>1
    <2> QED
      BY <2>1, <2>2
  <1>4. PICK h \in Nat :
            /\ h = RunUntil(P, o + 1, {Quote})
            /\ string(P, o) = IF h <= Len(P) THEN Got(h + 1, Cut(P, o + 1, h)) ELSE None
    <2> DEFINE z == RunUntil(P, o + 1, {Quote})
    <2>1. /\ z \in (o + 1)..(Len(P) + 1)
          /\ string(P, o) = IF z <= Len(P) THEN Got(z + 1, Cut(P, o + 1, z)) ELSE None
      BY <1>1, <1>2, StringIs
    <2>2. z \in Nat
      <3> HIDE DEF z
      <3> QED
        BY <1>1, <2>1
    <2> QED
      BY <2>1, <2>2
  <1>5. e <= Len(s) /\ e + 1 = j /\ i + 1 <= e
    <2>1. e <= Len(s) /\ string(s, i) = Got(e + 1, Cut(s, i + 1, e))
      BY <1>3, GotEnd
    <2>2. e + 1 = j
      BY <2>1, GotEnd
    <2> QED
      BY <1>1, <1>3, <2>1, <2>2
  <1>6. PICK f \in Nat, g \in Nat, r \in Nat : f = i + 1 /\ g = o + 1 /\ r + 1 = q
    <2>1. q - 1 \in Nat /\ q - 1 + 1 = q /\ i + 1 \in Nat /\ o + 1 \in Nat
      BY <1>1
    <2> QED
      BY <2>1
  <1>7. i <= f /\ f <= e /\ e <= j /\ f - i = g - o /\ e - i = r - o /\ e # j /\ i <= e
    BY <1>1, <1>5, <1>6
  <1>17. /\ r <= Len(P) /\ i \in Place(s) /\ f \in Place(s) /\ e \in Place(s)
         /\ j \in Place(s) /\ j = e + 1
    BY <1>1, <1>5, <1>6 DEF Place
  <1>8. h = r
    <2>1. RunsUntil(s, f, {Quote}, e)
      BY <1>3, <1>6
    <2>2. RunUntil(P, g, {Quote}) = r
      BY <1>7, <2>1, RunUntilSame
    <2> QED
      BY <1>4, <1>6, <2>2
  <1>9. Cut(P, g, r) = Cut(s, f, e)
    BY <1>7, CutSame
  <1> DEFINE w == Cut(s, f, e)
  <1>10. string(s, i) = Got(j, w) /\ string(P, o) = Got(q, w)
    BY <1>3, <1>4, <1>5, <1>6, <1>8, <1>9, <1>17
  <1> HIDE DEF w
  <1>11. w \in Text
    BY <1>7, <1>17, CutJoin DEF w
  <1>12. Cut(s, i, f) = <<Quote>>
    BY <1>2, <1>6, <1>17, CutOne
  <1>13. Cut(s, e, j) = <<Quote>>
    <2>1. s[e] = Quote
      BY <1>3, <1>5 DEF RunsUntil
    <2>2. Cut(s, e, j) = <<s[e]>>
      BY <1>17, CutOne
    <2> QED
      BY <2>1, <2>2
  <1>14. Joins(Cut(s, i, e), Cut(s, i, f), w)
    BY <1>7, <1>17, CutJoin DEF w
  <1>15. Joins(Cut(s, i, j), Cut(s, i, e), Cut(s, e, j))
    BY <1>7, <1>17, CutJoin
  <1>16. Quoted(w) = Cut(s, i, j)
    BY <1>12, <1>13, <1>14, <1>15, Zenon DEF Quoted, Joins
  <1> QED
    BY <1>2, <1>10, <1>11, <1>16

\* A piece within the window, and the one behind it.
LEMMA PieceSame ==
    ASSUME NEW s \in Text, NEW P \in Text, NEW i \in Nat, NEW j \in Nat, NEW o \in Nat,
           NEW q \in Nat, Same(s, i, j, P, o, q), NEW e \in Nat, NEW h \in Nat,
           i <= e, e <= j, e - i = h - o, NEW p, P[q] # p, e = j => ~Here(s, e, p)
    PROVE  Here(s, e, p) <=> Here(P, h, p)
  <1>1. /\ Len(s) \in Nat /\ Len(P) \in Nat /\ i < j /\ o < q /\ j - i = q - o
        /\ j <= Len(s) + 1 /\ q <= Len(P)
    BY SameIs
  <1>2. CASE e = j
    <2>1. h = q
      BY <1>1, <1>2
    <2> QED
      BY <1>2, <2>1 DEF Here
  <1>3. CASE e # j
    <2>1. e \in i..(j - 1) /\ h \in o..(q - 1) /\ e <= Len(s) /\ h <= Len(P)
      BY <1>1, <1>3
    <2>2. P[h] = s[e]
      BY <2>1 DEF Same
    <2> QED
      BY <2>1, <2>2 DEF Here
  <1> QED
    BY <1>2, <1>3

LEMMA DecimalSame ==
    ASSUME NEW s \in Text, NEW P \in Text, NEW i \in Nat, NEW j \in Nat, NEW o \in Nat,
           NEW q \in Nat, Same(s, i, j, P, o, q), P[q] \in Ender,
           Ok(decimal(s, i)), decimal(s, i).at = j
    PROVE  /\ decimal(s, i) = Got(j, Cut(s, i, j))
           /\ decimal(P, o) = Got(q, Cut(s, i, j))
           /\ integer(s, i) = None => integer(P, o) = None
  <1>1. /\ Len(s) \in Nat /\ Len(P) \in Nat /\ i < j /\ o < q /\ j - i = q - o
        /\ i \in Place(s) /\ o \in Place(P) /\ i <= Len(s) /\ o <= Len(P) /\ P[o] = s[i]
        /\ j <= Len(s) + 1 /\ q <= Len(P)
    BY SameIs
  <1>e. P[q] # "1" /\ P[q] # "." /\ P[q] # "e" /\ P[q] # "-"
    BY DEF Ender
  <1>2. PICK g \in Nat, w \in Nat, p \in Nat, z \in Nat :
            g = Sign(s, i) /\ w = Whole(s, i) /\ p = Part(s, i) /\ z = DecimalEnd(s, i)
    <2>1. /\ Sign(s, i) \in i..(Len(s) + 1) /\ Whole(s, i) \in i..(Len(s) + 1)
          /\ Part(s, i) \in i..(Len(s) + 1) /\ DecimalEnd(s, i) \in i..(Len(s) + 1)
      BY <1>1, DecimalParts
    <2> QED
      BY <1>1, <2>1
  <1>3. /\ g \in i..(Len(s) + 1) /\ RunsTo(s, g, {"1"}, w) /\ w \in i..(Len(s) + 1)
        /\ Point(s, i) => RunsTo(s, w + 1, {"1"}, p)
        /\ p \in i..(Len(s) + 1) /\ w <= p
        /\ Power(s, i) => RunsTo(s, Digits(s, p), {"1"}, z)
        /\ z \in i..(Len(s) + 1) /\ p <= z
    BY <1>1, <1>2, DecimalParts
  <1>4. decimal(s, i) = IF w = g /\ (~Point(s, i) \/ p = w + 1) THEN None
                        ELSE IF Power(s, i) /\ z = Digits(s, p) THEN Fatal
                        ELSE Run1(s, i, z)
    BY <1>2, DecimalIs
  <1>5. /\ ~(w = g /\ (~Point(s, i) \/ p = w + 1))
        /\ ~(Power(s, i) /\ z = Digits(s, p))
        /\ decimal(s, i) = Run1(s, i, z) /\ z = j
    <2>1. /\ ~(w = g /\ (~Point(s, i) \/ p = w + 1))
          /\ ~(Power(s, i) /\ z = Digits(s, p))
          /\ decimal(s, i) = Run1(s, i, z)
      BY <1>4, GotEnd
    <2>2. z = j
      BY <2>1, GotEnd DEF Run1
    <2> QED
      BY <2>1, <2>2
  <1>6. w <= p /\ p <= j /\ g <= w /\ i <= g
    BY <1>3, <1>5 DEF RunsTo
  <1>7. PICK g1 \in Nat, w1 \in Nat, p1 \in Nat :
            g1 - o = g - i /\ w1 - o = w - i /\ p1 - o = p - i
    <2>1. /\ g - i + o \in Nat /\ (g - i + o) - o = g - i
          /\ w - i + o \in Nat /\ (w - i + o) - o = w - i
          /\ p - i + o \in Nat /\ (p - i + o) - o = p - i
      BY <1>1, <1>3
    <2> QED
      BY <2>1
  <1>8. Sign(P, o) = g1
    <2>1. CASE s[i] = "-"
      <3>1. g = i + 1 /\ Sign(P, o) = o + 1
        BY <1>1, <1>2, <2>1 DEF Sign
      <3>2. g1 = o + 1
        BY <1>7, <3>1
      <3> QED
        BY <3>1, <3>2
    <2>2. CASE s[i] # "-"
      <3>1. g = i /\ Sign(P, o) = o
        BY <1>1, <1>2, <2>2 DEF Sign
      <3>2. g1 = o
        BY <1>7, <3>1
      <3> QED
        BY <3>1, <3>2
    <2> QED
      BY <2>1, <2>2
  <1>9. Whole(P, o) = w1
    <2>1. i <= g /\ w <= j /\ g - i = g1 - o /\ w - i = w1 - o /\ j - i = q - o
      BY <1>1, <1>6, <1>7
    <2>2. w = j => P[w1] \notin {"1"}
      BY <1>e, <2>1
    <2>3. RunsTo(s, g, {"1"}, w)
      BY <1>3
    <2>4. RunEnd(P, g1, {"1"}) = w1
      BY <2>1, <2>2, <2>3, RunSame
    <2> QED
      BY <1>8, <2>4 DEF Whole
  <1>10. Point(P, o) <=> Point(s, i)
    <2>1. Point(s, i) <=> Here(s, w, ".")
      BY <1>2 DEF Point, Here
    <2>2. Point(P, o) <=> Here(P, w1, ".")
      BY <1>9 DEF Point, Here
    <2>3. w = j => ~Point(s, i)
      BY <1>3, <1>6 DEF RunsTo
    <2>4. i <= w /\ w <= j /\ w - i = w1 - o
      BY <1>6, <1>7
    <2>5. Here(s, w, ".") <=> Here(P, w1, ".")
      BY <1>e, <2>1, <2>3, <2>4, PieceSame
    <2> QED
      BY <2>1, <2>2, <2>5
  <1>11. Part(P, o) = p1
    <2>1. CASE Point(s, i)
      <3>1. PICK e \in Nat, e1 \in Nat : e = w + 1 /\ e1 = w1 + 1
        OBVIOUS
      <3>2. i <= e /\ p <= j /\ e - i = e1 - o /\ p - i = p1 - o /\ j - i = q - o
        BY <1>1, <1>6, <1>7, <3>1
      <3>3. p = j => P[p1] \notin {"1"}
        BY <1>e, <3>2
      <3>4. RunsTo(s, e, {"1"}, p)
        BY <1>3, <2>1, <3>1
      <3>5. RunEnd(P, e1, {"1"}) = p1
        BY <3>2, <3>3, <3>4, RunSame
      <3> QED
        BY <1>9, <1>10, <2>1, <3>1, <3>5 DEF Part
    <2>2. CASE ~Point(s, i)
      <3>1. p = w /\ p1 = w1
        BY <1>2, <1>7, <2>2 DEF Part
      <3> QED
        BY <1>9, <1>10, <2>2, <3>1 DEF Part
    <2> QED
      BY <2>1, <2>2
  <1>12. /\ Power(s, i) => p < j /\ Digits(s, p) \in (p + 1)..(j - 1)
         /\ Power(P, o) <=> Power(s, i)
    <2>1. Power(s, i) <=> Here(s, p, "e")
      BY <1>2 DEF Power, Here
    <2>2. Power(P, o) <=> Here(P, p1, "e")
      BY <1>11 DEF Power, Here
    <2>3. Power(s, i) => p < j /\ Digits(s, p) \in (p + 1)..(j - 1)
      <3>1. Digits(s, p) \in {p + 1, p + 2}
        BY DEF Digits
      <3>2. Power(s, i) => Digits(s, p) <= z /\ z # Digits(s, p)
        BY <1>3, <1>5, <3>1 DEF RunsTo
      <3> QED
        BY <1>5, <3>1, <3>2
    <2>4. i <= p /\ p <= j /\ p - i = p1 - o
      BY <1>6, <1>7
    <2>5. p = j => ~Here(s, p, "e")
      BY <2>1, <2>3
    <2>6. Here(s, p, "e") <=> Here(P, p1, "e")
      BY <1>e, <2>4, <2>5, PieceSame
    <2> QED
      BY <2>1, <2>2, <2>3, <2>6
  <1>13. ASSUME Power(s, i)
         PROVE  DecimalEnd(P, o) = q /\ q # Digits(P, p1)
    <2>1. PICK e \in Nat, e1 \in Nat : e = p + 1 /\ e1 = p1 + 1
      OBVIOUS
    <2>2. Here(s, e, "-") <=> Here(P, e1, "-")
      <3>1. i <= e /\ e <= j /\ e - i = e1 - o
        BY <1>6, <1>7, <1>12, <1>13, <2>1
      <3>2. e = j => ~Here(s, e, "-")
        BY <1>12, <1>13, <2>1
      <3> QED
        BY <1>e, <3>1, <3>2, PieceSame
    <2>3. PICK d \in Nat, d1 \in Nat : d = Digits(s, p) /\ d1 = Digits(P, p1)
      BY DEF Digits
    <2>4. d - i = d1 - o
      <3>1. p < Len(s) /\ s[p + 1] = "-" <=> Here(s, e, "-")
        BY <1>1, <2>1 DEF Here
      <3>2. p1 < Len(P) /\ P[p1 + 1] = "-" <=> Here(P, e1, "-")
        BY <1>1, <2>1 DEF Here
      <3>3. CASE Here(s, e, "-")
        <4>1. d = p + 2 /\ d1 = p1 + 2
          BY <2>2, <2>3, <3>1, <3>2, <3>3 DEF Digits
        <4> QED
          BY <1>7, <4>1
      <3>4. CASE ~Here(s, e, "-")
        <4>1. d = p + 1 /\ d1 = p1 + 1
          BY <2>2, <2>3, <3>1, <3>2, <3>4 DEF Digits
        <4> QED
          BY <1>7, <4>1
      <3> QED
        BY <3>3, <3>4
    <2>5. i <= d /\ j <= j /\ d - i = d1 - o /\ j - i = q - o /\ d < j
      <3>1. d \in (p + 1)..(j - 1)
        BY <1>12, <1>13, <2>3
      <3> QED
        BY <1>1, <1>6, <2>4, <3>1
    <2>6. RunsTo(s, d, {"1"}, j)
      BY <1>3, <1>5, <1>13, <2>3
    <2>7. P[q] \notin {"1"}
      BY <1>e
    <2>8. RunEnd(P, d1, {"1"}) = q
      BY <2>5, <2>6, <2>7, RunSame
    <2>9. DecimalEnd(P, o) = q
      BY <1>11, <1>12, <1>13, <2>3, <2>8 DEF DecimalEnd
    <2> QED
      BY <1>1, <2>3, <2>5, <2>9
  <1>14. ASSUME ~Power(s, i) PROVE DecimalEnd(P, o) = q
    <2>1. p = j
      BY <1>2, <1>5, <1>14 DEF DecimalEnd
    <2>2. p1 = q
      BY <1>1, <1>7, <2>1
    <2> QED
      BY <1>11, <1>12, <1>14, <2>2 DEF DecimalEnd
  <1>15. /\ ~(w1 = g1 /\ (~Point(P, o) \/ p1 = w1 + 1))
         /\ ~(Power(P, o) /\ q = Digits(P, p1))
         /\ DecimalEnd(P, o) = q
    <2>1. w1 = g1 <=> w = g
      BY <1>1, <1>7
    <2>2. p1 = w1 + 1 <=> p = w + 1
      BY <1>1, <1>7
    <2> QED
      BY <1>5, <1>10, <1>12, <1>13, <1>14, <2>1, <2>2
  <1>16. decimal(P, o) = Run1(P, o, q)
    <2>1. decimal(P, o) = IF w1 = g1 /\ (~Point(P, o) \/ p1 = w1 + 1) THEN None
                          ELSE IF Power(P, o) /\ q = Digits(P, p1) THEN Fatal
                          ELSE Run1(P, o, q)
      BY <1>8, <1>9, <1>11, <1>15, DecimalIs
    <2> QED
      BY <1>15, <2>1
  <1>17. /\ Run1(s, i, j) = Got(j, Cut(s, i, j))
         /\ Run1(P, o, q) = Got(q, Cut(s, i, j))
    BY Run1Same
  <1>18. ASSUME integer(s, i) = None PROVE integer(P, o) = None
    <2>1. CASE s[i] # "1"
      BY <1>1, <2>1, IntegerNever
    <2>2. CASE s[i] = "1"
      <3>1. g = i /\ w = RunEnd(s, i, {"1"})
        BY <1>2, <2>2 DEF Sign, Whole
      <3>2. g1 = o /\ w1 = RunEnd(P, o, {"1"})
        BY <1>1, <1>7, <1>8, <1>9, <3>1 DEF Whole
      <3>3. w # i /\ Here(s, w, ".")
        <4>1. /\ RunsTo(s, i, {"1"}, w)
              /\ integer(s, i) = IF w = i \/ Here(s, w, ".") THEN None
                                 ELSE Got(w, Cut(s, i, w))
          BY <1>1, <3>1, IntegerIs
        <4>2. w = i \/ Here(s, w, ".")
          BY <1>18, <4>1, GotEnd
        <4>3. w # i
          BY <1>1, <2>2, <4>1 DEF RunsTo
        <4> QED
          BY <4>2, <4>3
      <3>4. Point(P, o)
        BY <1>2, <1>10, <3>3 DEF Point, Here
      <3>5. Here(P, w1, ".")
        BY <1>9, <3>4 DEF Point, Here
      <3> QED
        BY <1>1, <3>2, <3>5, IntegerIs
    <2> QED
      BY <2>1, <2>2
  <1> QED
    BY <1>5, <1>16, <1>17, <1>18

LEMMA RunEmpty ==
    ASSUME NEW s \in Text, NEW i \in Place(s), NEW p, NEW e, RunsTo(s, i, {p}, e)
    PROVE  e = i <=> ~Here(s, i, p)
  <1>1. Len(s) \in Nat /\ i \in Nat /\ i <= Len(s) + 1 /\ e \in i..(Len(s) + 1)
    BY TextType DEF Place, RunsTo
  <1>2. ASSUME e = i PROVE ~Here(s, i, p)
    BY <1>2 DEF RunsTo, Here
  <1>3. ASSUME e # i PROVE Here(s, i, p)
    <2>1. i \in i..(e - 1) /\ i <= Len(s)
      BY <1>1, <1>3
    <2>2. s[i] \in {p}
      BY <2>1 DEF RunsTo
    <2> QED
      BY <2>1, <2>2 DEF Here
  <1> QED
    BY <1>2, <1>3

\* No digit where the digits of a decimal may begin.
Numberless(s, g, h) == ~Here(s, g, "1") /\ ~(Here(s, g, ".") /\ Here(s, h, "1"))

LEMMA NoDecimal ==
    ASSUME NEW s \in Text, NEW i \in Place(s), NEW g \in Nat, g = Sign(s, i),
           NEW h \in Nat, h = g + 1
    PROVE  decimal(s, i) = None <=> Numberless(s, g, h)
  <1>0. Len(s) \in Nat /\ i \in Nat /\ i <= Len(s) + 1 /\ 1 <= i
    BY TextType DEF Place
  <1>1. PICK w \in Nat, p \in Nat, z \in Nat :
            w = Whole(s, i) /\ p = Part(s, i) /\ z = DecimalEnd(s, i)
    <2>1. /\ Whole(s, i) \in i..(Len(s) + 1)
          /\ Part(s, i) \in i..(Len(s) + 1) /\ DecimalEnd(s, i) \in i..(Len(s) + 1)
      BY DecimalParts
    <2> QED
      BY <1>0, <2>1
  <1>2. /\ g \in i..(Len(s) + 1) /\ RunsTo(s, g, {"1"}, w) /\ w \in i..(Len(s) + 1)
        /\ Point(s, i) => RunsTo(s, w + 1, {"1"}, p)
        /\ p \in i..(Len(s) + 1) /\ w <= p /\ p <= z
    BY <1>1, DecimalParts
  <1>3. decimal(s, i) = IF w = g /\ (~Point(s, i) \/ p = w + 1) THEN None
                        ELSE IF Power(s, i) /\ z = Digits(s, p) THEN Fatal
                        ELSE Run1(s, i, z)
    BY <1>1, DecimalIs
  <1>4. Point(s, i) <=> Here(s, w, ".")
    BY <1>1 DEF Point, Here
  <1>5. g \in Place(s) /\ g <= w
    BY <1>0, <1>2 DEF Place, RunsTo
  <1>6. w = g <=> ~Here(s, g, "1")
    BY <1>2, <1>5, RunEmpty
  <1>7. ASSUME w = g, Point(s, i) PROVE p >= h /\ (p = h <=> ~Here(s, h, "1"))
    <2>1. h \in Place(s)
      BY <1>0, <1>2, <1>4, <1>7 DEF Here, Place
    <2>2. RunsTo(s, h, {"1"}, p)
      BY <1>2, <1>7
    <2>3. p = h <=> ~Here(s, h, "1")
      BY <2>1, <2>2, RunEmpty
    <2> QED
      BY <2>2, <2>3 DEF RunsTo
  <1>8. (w = g /\ (~Point(s, i) \/ p = w + 1)) <=> Numberless(s, g, h)
    BY <1>4, <1>6, <1>7 DEF Numberless
  <1>9. ASSUME ~(w = g /\ (~Point(s, i) \/ p = w + 1)) PROVE z > i
    <2>1. CASE w # g
      BY <1>0, <1>2, <1>5, <2>1
    <2>2. CASE w = g
      BY <1>0, <1>2, <1>7, <1>9, <2>2
    <2> QED
      BY <2>1, <2>2
  <1>10. ASSUME ~(w = g /\ (~Point(s, i) \/ p = w + 1)) PROVE decimal(s, i) # None
    <2>1. Run1(s, i, z) # None
      BY <1>9, <1>10, GotEnd DEF Run1
    <2>2. Fatal # None
      BY DEF Fatal, None
    <2> QED
      BY <1>3, <1>10, <2>1, <2>2
  <1> QED
    BY <1>3, <1>8, <1>10

LEMMA LeafIs ==
    ASSUME NEW kind, NEW r
    PROVE  Leaf(kind, r) = IF Ok(r) THEN Got(r.at, <<Mark(kind, r.val)>>) ELSE r
  BY DEF Leaf, Mapped

LEMMA LeafNone ==
    ASSUME NEW kind, NEW r, NEW s, NEW i, NEW V, Yields(r, s, i, V)
    PROVE  /\ r = None => Leaf(kind, r).end = "none"
           /\ Leaf(kind, r).end = "none" => r = None
  <1> DEFINE l == Leaf(kind, r)
  <1>1. l = IF Ok(r) THEN Got(r.at, <<Mark(kind, r.val)>>) ELSE r
    BY LeafIs
  <1> HIDE DEF l
  <1>2. CASE Ok(r)
    <2>1. r # None
      BY <1>2, GotEnd
    <2>2. l.end = "ok"
      BY <1>1, <1>2, GotEnd
    <2>3. l.end # "none"
      BY <2>2
    <2> QED
      BY <2>1, <2>3 DEF l
  <1>3. CASE ~Ok(r)
    <2>1. r = None \/ r = Fatal
      BY <1>3, GotEnd DEF Yields
    <2>2. l = r
      BY <1>1, <1>3
    <2>3. None.end = "none" /\ Fatal.end # "none"
      BY GotEnd DEF None, Fatal
    <2> QED
      BY <2>1, <2>2, <2>3 DEF l
  <1> QED
    BY <1>2, <1>3

\* The alternatives of a constant, and the first of them that does not fail.
Constants(s, i) ==
    <<Leaf("UInt", integer(s, i)), Leaf("Dec", decimal(s, i)), Leaf("Hex", hex(s, i)),
      Leaf("Bin", bin(s, i)), Leaf("Str", string(s, i))>>

LEMMA ConstantIs ==
    ASSUME NEW s \in Text, NEW i \in Place(s)
    PROVE  constant(s, i) =
             IF integer(s, i) # None THEN Leaf("UInt", integer(s, i))
             ELSE IF decimal(s, i) # None THEN Leaf("Dec", decimal(s, i))
             ELSE IF hex(s, i) # None THEN Leaf("Hex", hex(s, i))
             ELSE IF bin(s, i) # None THEN Leaf("Bin", bin(s, i))
             ELSE IF string(s, i) # None THEN Leaf("Str", string(s, i))
             ELSE None
  <1> DEFINE rs == Constants(s, i)
  <1>1. /\ rs[1] = Leaf("UInt", integer(s, i)) /\ rs[2] = Leaf("Dec", decimal(s, i))
        /\ rs[3] = Leaf("Hex", hex(s, i)) /\ rs[4] = Leaf("Bin", bin(s, i))
        /\ rs[5] = Leaf("Str", string(s, i)) /\ DOMAIN rs = 1..5
    BY DEF Constants
  <1>2. constant(s, i) = First(rs)
    BY DEF constant, Constants
  <1>3. /\ integer(s, i) = None => Leaf("UInt", integer(s, i)).end = "none"
        /\ Leaf("UInt", integer(s, i)).end = "none" => integer(s, i) = None
        /\ decimal(s, i) = None => Leaf("Dec", decimal(s, i)).end = "none"
        /\ Leaf("Dec", decimal(s, i)).end = "none" => decimal(s, i) = None
        /\ hex(s, i) = None => Leaf("Hex", hex(s, i)).end = "none"
        /\ Leaf("Hex", hex(s, i)).end = "none" => hex(s, i) = None
        /\ bin(s, i) = None => Leaf("Bin", bin(s, i)).end = "none"
        /\ Leaf("Bin", bin(s, i)).end = "none" => bin(s, i) = None
        /\ string(s, i) = None => Leaf("Str", string(s, i)).end = "none"
        /\ Leaf("Str", string(s, i)).end = "none" => string(s, i) = None
    <2>1. /\ Yields(integer(s, i), s, i, Text) /\ Yields(decimal(s, i), s, i, Text)
          /\ Yields(hex(s, i), s, i, Text) /\ Yields(bin(s, i), s, i, Text)
          /\ Yields(string(s, i), s, i, Text)
      BY IntegerYields, DecimalYields, HexYields, StringYields
    <2> QED
      BY <2>1, LeafNone
  <1> HIDE DEF rs
  <1>4. \/ First(rs) = None /\ \A k \in 1..5 : rs[k].end = "none"
        \/ \E k \in 1..5 : /\ First(rs) = rs[k] /\ rs[k].end # "none"
                           /\ \A j \in 1..(k - 1) : rs[j].end = "none"
    BY <1>1, FirstIs
  <1>5. CASE First(rs) = None /\ \A k \in 1..5 : rs[k].end = "none"
    <2>1. /\ rs[1].end = "none" /\ rs[2].end = "none" /\ rs[3].end = "none"
          /\ rs[4].end = "none" /\ rs[5].end = "none"
      BY <1>5
    <2> QED
      BY <1>1, <1>2, <1>3, <1>5, <2>1
  <1>6. CASE \E k \in 1..5 : /\ First(rs) = rs[k] /\ rs[k].end # "none"
                             /\ \A j \in 1..(k - 1) : rs[j].end = "none"
    <2>1. PICK k \in 1..5 : /\ First(rs) = rs[k] /\ rs[k].end # "none"
                            /\ \A j \in 1..(k - 1) : rs[j].end = "none"
      BY <1>6
    <2>2. /\ k = 1 => First(rs) = rs[1] /\ rs[1].end # "none"
          /\ k = 2 => First(rs) = rs[2] /\ rs[2].end # "none" /\ rs[1].end = "none"
          /\ k = 3 => First(rs) = rs[3] /\ rs[3].end # "none" /\ rs[1].end = "none"
                        /\ rs[2].end = "none"
          /\ k = 4 => First(rs) = rs[4] /\ rs[4].end # "none" /\ rs[1].end = "none"
                        /\ rs[2].end = "none" /\ rs[3].end = "none"
          /\ k = 5 => First(rs) = rs[5] /\ rs[5].end # "none" /\ rs[1].end = "none"
                        /\ rs[2].end = "none" /\ rs[3].end = "none" /\ rs[4].end = "none"
      BY <2>1
    <2>3. k = 1 \/ k = 2 \/ k = 3 \/ k = 4 \/ k = 5
      BY <2>1
    <2> QED
      BY <1>1, <1>2, <1>3, <2>2, <2>3
  <1> QED
    BY <1>4, <1>5, <1>6

LEMMA QuoteOther ==
    Quote \notin {" ", "nl", "(", ")", "1", ".", "-", "#x1", "#b1"}
  BY DEF Quote

LEMMA NoNumber ==
    ASSUME NEW s \in Text, NEW i \in Place(s), i <= Len(s) => s[i] \notin {"1", ".", "-"}
    PROVE  integer(s, i) = None /\ decimal(s, i) = None
  <1>1. i \in Nat
    BY DEF Place
  <1>2. integer(s, i) = None
    BY IntegerNever
  <1>3. PICK h \in Nat : h = i + 1
    BY <1>1
  <1>4. Sign(s, i) = i
    BY DEF Sign
  <1>5. Numberless(s, i, h)
    BY DEF Numberless, Here
  <1>6. decimal(s, i) = None
    BY <1>1, <1>3, <1>4, <1>5, NoDecimal
  <1> QED
    BY <1>2, <1>6

LEMMA ConstantParts ==
    ASSUME NEW s \in Text, NEW i \in Place(s)
    PROVE  /\ integer(s, i) = None /\ decimal(s, i) = None /\ hex(s, i) = None
                /\ bin(s, i) = None /\ string(s, i) = None
                => constant(s, i) = None
           /\ constant(s, i).end = "none" =>
                /\ integer(s, i) = None /\ decimal(s, i) = None /\ hex(s, i) = None
                /\ bin(s, i) = None /\ string(s, i) = None /\ constant(s, i) = None
  <1>1. /\ Yields(integer(s, i), s, i, Text) /\ Yields(decimal(s, i), s, i, Text)
        /\ Yields(hex(s, i), s, i, Text) /\ Yields(bin(s, i), s, i, Text)
        /\ Yields(string(s, i), s, i, Text)
    BY IntegerYields, DecimalYields, HexYields, StringYields
  <1>2. /\ Leaf("UInt", integer(s, i)).end = "none" => integer(s, i) = None
        /\ Leaf("Dec", decimal(s, i)).end = "none" => decimal(s, i) = None
        /\ Leaf("Hex", hex(s, i)).end = "none" => hex(s, i) = None
        /\ Leaf("Bin", bin(s, i)).end = "none" => bin(s, i) = None
        /\ Leaf("Str", string(s, i)).end = "none" => string(s, i) = None
    BY <1>1, LeafNone
  <1> QED
    BY <1>2, ConstantIs

\* Nothing starts with a blank, a parenthesis or at the end of the text.
LEMMA SingleNone ==
    ASSUME NEW s \in Text, NEW i \in Place(s), NEW what,
           i <= Len(s) => s[i] \in Blanks \cup Parens
    PROVE  single(what, s, i) = None
  <1>1. i \in Nat /\ Len(s) \in Nat /\ i <= Len(s) + 1
    BY TextType DEF Place
  <1>2. i <= Len(s) => s[i] \in {" ", "nl", "(", ")"}
    BY DEF Blanks, Parens
  <1>3. i <= Len(s) => s[i] \notin {"1", ".", "-", "#x1", "#b1", "Int", "Real"}
    BY <1>2
  <1>4. i <= Len(s) => s[i] # Quote
    BY <1>2, QuoteOther
  <1>5. symbol(s, i) = None
    <2> DEFINE e == RunUntil(s, i, Blanks \cup Parens)
    <2>1. RunsUntil(s, i, Blanks \cup Parens, e)
      BY RunUntilIs
    <2>2. symbol(s, i) = Run1(s, i, e)
      BY DEF symbol
    <2> HIDE DEF e
    <2>3. e \in i..(Len(s) + 1) /\ \A k \in i..(e - 1) : s[k] \notin Blanks \cup Parens
      BY <2>1 DEF RunsUntil
    <2>4. ~(e > i)
      <3> SUFFICES ASSUME e > i PROVE FALSE
        OBVIOUS
      <3>1. i \in i..(e - 1) /\ i <= Len(s)
        BY <1>1, <2>3
      <3>2. s[i] \notin Blanks \cup Parens
        BY <2>3, <3>1
      <3> QED
        BY <3>1, <3>2
    <2> QED
      BY <2>2, <2>4 DEF Run1
  <1>6. integer(s, i) = None /\ decimal(s, i) = None
    BY <1>3, NoNumber
  <1>7. hex(s, i) = None /\ bin(s, i) = None
    BY <1>3, HexBinIs, PrefixedIs
  <1>8. string(s, i) = None
    BY <1>4, StringIs
  <1>9. constant(s, i) = None
    BY <1>6, <1>7, <1>8, ConstantParts
  <1>10. Tag(s, i, <<"Int">>) = None /\ Tag(s, i, <<"Real">>) = None
    BY <1>3, TagOne
  <1>11. Leaf("Symbol", symbol(s, i)) = None /\ Leaf("UserDef", symbol(s, i)) = None
         /\ Leaf("Int", Tag(s, i, <<"Int">>)) = None
         /\ Leaf("Real", Tag(s, i, <<"Real">>)) = None
    BY <1>5, <1>10, LeafIs, GotEnd
  <1>12. CASE what = "sexp"
    <2>1. single(what, s, i) = First(<<constant(s, i), Leaf("Symbol", symbol(s, i))>>)
      BY <1>12 DEF single
    <2> QED
      BY <1>9, <1>11, <2>1, First2, GotEnd
  <1>13. CASE what # "sexp"
    <2> DEFINE rs == <<Leaf("Int", Tag(s, i, <<"Int">>)), Leaf("Real", Tag(s, i, <<"Real">>)),
                       Leaf("UserDef", symbol(s, i))>>
    <2>1. DOMAIN rs = 1..3 /\ rs[1] = None /\ rs[2] = None /\ rs[3] = None
      BY <1>11
    <2>2. single(what, s, i) = First(rs)
      BY <1>13 DEF single
    <2> HIDE DEF rs
    <2>3. \A k \in 1..3 : rs[k] = None
      BY <2>1
    <2> QED
      BY <2>1, <2>2, <2>3, FirstIs
  <1> QED
    BY <1>12, <1>13

LEMMA SymbolIs ==
    ASSUME NEW s \in Text, NEW i \in Place(s), NEW j \in Nat, Ok(symbol(s, i)),
           symbol(s, i).at = j
    PROVE  /\ RunsUntil(s, i, Blanks \cup Parens, j) /\ i < j /\ j <= Len(s) + 1
           /\ symbol(s, i) = Run1(s, i, j)
           /\ j <= Len(s) => s[j] \in Blanks \cup Parens
  <1> DEFINE e == RunUntil(s, i, Blanks \cup Parens)
  <1>1. RunsUntil(s, i, Blanks \cup Parens, e)
    BY RunUntilIs
  <1>2. symbol(s, i) = Run1(s, i, e)
    BY DEF symbol
  <1> HIDE DEF e
  <1>3. e > i /\ e = j
    BY <1>2, GotEnd DEF Run1
  <1>4. j \in i..(Len(s) + 1) /\ i \in Nat /\ Len(s) \in Nat
    BY <1>1, <1>3, TextType DEF RunsUntil, Place
  <1> QED
    BY <1>1, <1>2, <1>3, <1>4 DEF RunsUntil

\* What is no constant and starts with no quote is no constant when printed.
LEMMA SymbolSame ==
    ASSUME NEW s \in Text, NEW P \in Text, NEW i \in Nat, NEW j \in Nat, NEW o \in Nat,
           NEW q \in Nat, Same(s, i, j, P, o, q), P[q] \in Ender,
           Ok(symbol(s, i)), symbol(s, i).at = j
    PROVE  /\ symbol(s, i) = Got(j, Cut(s, i, j))
           /\ symbol(P, o) = Got(q, Cut(s, i, j))
           /\ constant(s, i).end = "none" /\ s[i] # Quote => constant(P, o) = None
  <1>1. /\ i \in Place(s) /\ o \in Place(P) /\ i < j /\ o < q /\ j - i = q - o
        /\ i <= Len(s) /\ o <= Len(P) /\ j <= Len(s) + 1 /\ q <= Len(P)
        /\ Len(s) \in Nat /\ Len(P) \in Nat /\ P[o] = s[i]
    BY SameIs
  <1>2. /\ RunsUntil(s, i, Blanks \cup Parens, j)
        /\ symbol(s, i) = Run1(s, i, j)
        /\ j <= Len(s) => s[j] \in Blanks \cup Parens
    BY <1>1, SymbolIs
  <1>3. /\ Run1(s, i, j) = Got(j, Cut(s, i, j))
        /\ Run1(P, o, q) = Got(q, Cut(s, i, j))
    BY Run1Same
  <1>4. symbol(P, o) = Run1(P, o, q)
    <2>1. i <= i /\ j <= j /\ i - i = o - o /\ j - i = q - o
      BY <1>1
    <2>2. PICK set : set = Blanks \cup Parens
      OBVIOUS
    <2>4. P[q] \in set
      BY <2>2 DEF Ender, Blanks, Parens
    <2>5. RunsUntil(s, i, set, j)
      BY <1>2, <2>2
    <2>6. RunUntil(P, o, set) = q
      BY <2>1, <2>4, <2>5, RunUntilSame
    <2>3. RunUntil(P, o, Blanks \cup Parens) = q
      BY <2>2, <2>6
    <2> QED
      BY <2>3 DEF symbol
  <1>5. ASSUME constant(s, i).end = "none", s[i] # Quote
        PROVE  constant(P, o) = None
    <2>1. /\ decimal(s, i) = None /\ hex(s, i) = None /\ bin(s, i) = None
      BY <1>1, <1>5, ConstantParts
    <2>2. s[i] # "#x1" /\ s[i] # "#b1"
      <3>1. s[i] = "#x1" => hex(s, i) # None
        BY <1>1, HexBinIs, PrefixedIs, GotEnd
      <3>2. s[i] = "#b1" => bin(s, i) # None
        BY <1>1, HexBinIs, PrefixedIs, GotEnd
      <3> QED
        BY <2>1, <3>1, <3>2
    <2>3. hex(P, o) = None /\ bin(P, o) = None
      BY <1>1, <2>2, HexBinIs, PrefixedIs
    <2>4. string(P, o) = None
      BY <1>1, <1>5, StringIs
    <2>5. PICK g \in Nat, g1 \in Nat, h \in Nat, h1 \in Nat :
              /\ g = Sign(s, i) /\ g1 = Sign(P, o) /\ h = g + 1 /\ h1 = g1 + 1
      BY DEF Sign
    <2>6. g - i = g1 - o /\ i <= g /\ g <= j /\ (s[i] # "-" => g = i)
      BY <1>1, <2>5 DEF Sign
    <2>7. Numberless(s, g, h)
      BY <1>1, <2>1, <2>5, NoDecimal
    <2>8. ~Here(s, j, "1") /\ ~Here(s, j, ".")
      <3>1. "1" \notin Blanks \cup Parens /\ "." \notin Blanks \cup Parens
        BY DEF Blanks, Parens
      <3> QED
        BY <1>2, <3>1 DEF Here
    <2>9. P[q] # "1" /\ P[q] # "."
      BY DEF Ender
    <2>10. Here(s, g, "1") <=> Here(P, g1, "1")
      BY <2>6, <2>8, <2>9, PieceSame
    <2>11. Here(s, g, ".") <=> Here(P, g1, ".")
      BY <2>6, <2>8, <2>9, PieceSame
    <2>12. Here(s, g, ".") => (Here(s, h, "1") <=> Here(P, h1, "1"))
      <3> SUFFICES ASSUME Here(s, g, ".") PROVE Here(s, h, "1") <=> Here(P, h1, "1")
        OBVIOUS
      <3>1. g # j
        BY <2>8
      <3>2. i <= h /\ h <= j /\ h - i = h1 - o
        BY <2>5, <2>6, <3>1
      <3> QED
        BY <2>8, <2>9, <3>2, PieceSame
    <2>13. Numberless(P, g1, h1)
      BY <2>7, <2>10, <2>11, <2>12 DEF Numberless
    <2>14. decimal(P, o) = None
      BY <1>1, <2>5, <2>13, NoDecimal
    <2>15. P[o] # "1"
      <3>1. s[i] # "-" => ~Here(s, i, "1")
        BY <2>6, <2>7 DEF Numberless
      <3>2. s[i] # "1"
        BY <1>1, <3>1 DEF Here
      <3> QED
        BY <1>1, <3>2
    <2>16. integer(P, o) = None
      BY <1>1, <2>15, IntegerNever
    <2> QED
      BY <1>1, <2>3, <2>4, <2>14, <2>16, ConstantParts
  <1> QED
    BY <1>2, <1>3, <1>4, <1>5

\* A leaf of a kind that was read as it is printed.
LEMMA WrittenIs ==
    ASSUME NEW kind, NEW w
    PROVE  /\ kind # "Str" => Written(Mark(kind, w)) = w
           /\ Written(Mark("Str", w)) = Quoted(w)
           /\ Mark(kind, w).kind = kind /\ Mark(kind, w).text = w
  <1>1. Mark(kind, w).kind = kind /\ Mark(kind, w).text = w
        /\ Mark("Str", w).kind = "Str" /\ Mark("Str", w).text = w
    BY DEF Mark
  <1> QED
    BY <1>1 DEF Written, Quoted

LEMMA LeafGot ==
    ASSUME NEW kind, NEW j, NEW w
    PROVE  Leaf(kind, Got(j, w)) = Got(j, <<Mark(kind, w)>>)
  BY LeafIs, GotEnd

LEMMA ConstantSame ==
    ASSUME NEW s \in Text, NEW P \in Text, NEW i \in Nat, NEW j \in Nat, NEW o \in Nat,
           NEW q \in Nat, Same(s, i, j, P, o, q), P[q] \in Ender,
           Ok(constant(s, i)), constant(s, i).at = j
    PROVE  \E m : /\ constant(s, i) = Got(j, <<m>>) /\ constant(P, o) = Got(q, <<m>>)
                  /\ Written(m) = Cut(s, i, j) /\ m.kind # "Symbol"
  <1>1. i \in Place(s) /\ o \in Place(P) /\ P[o] = s[i] /\ i <= Len(s) /\ o <= Len(P)
    BY SameIs
  <1> DEFINE w == Cut(s, i, j)
  <1>2. /\ \A kind, r : Ok(Leaf(kind, r)) => Ok(r) /\ Leaf(kind, r).at = r.at
        /\ \A kind, v : Leaf(kind, Got(j, v)) = Got(j, <<Mark(kind, v)>>)
        /\ \A kind, v : Leaf(kind, Got(q, v)) = Got(q, <<Mark(kind, v)>>)
        /\ \A v : Got(j, v) # None /\ Got(q, v) # None
    <2>1. \A kind, r : Ok(Leaf(kind, r)) => Ok(r) /\ Leaf(kind, r).at = r.at
      BY LeafIs, GotEnd
    <2>2. \A v : Got(j, v).end # None.end /\ Got(q, v).end # None.end
      BY GotEnd
    <2> QED
      BY <2>1, <2>2, LeafGot
  <1> HIDE DEF w
  <1>3. CASE integer(s, i) # None
    <2>1. constant(s, i) = Leaf("UInt", integer(s, i))
      BY <1>1, <1>3, ConstantIs
    <2>2. integer(P, o) = Got(q, w) /\ integer(s, i) = Got(j, w)
      BY <1>2, <2>1, IntegerSame DEF w
    <2>3. constant(P, o) = Leaf("UInt", integer(P, o))
      BY <1>1, <1>2, <2>2, ConstantIs
    <2>4. Written(Mark("UInt", w)) = w /\ Mark("UInt", w).kind # "Symbol"
      BY WrittenIs
    <2> QED
      BY <1>2, <2>1, <2>2, <2>3, <2>4 DEF w
  <1>4. CASE integer(s, i) = None /\ decimal(s, i) # None
    <2>1. constant(s, i) = Leaf("Dec", decimal(s, i))
      BY <1>1, <1>4, ConstantIs
    <2>2. decimal(P, o) = Got(q, w) /\ decimal(s, i) = Got(j, w) /\ integer(P, o) = None
      BY <1>2, <1>4, <2>1, DecimalSame DEF w
    <2>3. constant(P, o) = Leaf("Dec", decimal(P, o))
      BY <1>1, <1>2, <2>2, ConstantIs
    <2>4. Written(Mark("Dec", w)) = w /\ Mark("Dec", w).kind # "Symbol"
      BY WrittenIs
    <2> QED
      BY <1>2, <2>1, <2>2, <2>3, <2>4 DEF w
  <1>5. CASE integer(s, i) = None /\ decimal(s, i) = None /\ hex(s, i) # None
    <2>1. constant(s, i) = Leaf("Hex", hex(s, i))
      BY <1>1, <1>5, ConstantIs
    <2>2. Ok(hex(s, i)) /\ hex(s, i).at = j
      BY <1>2, <2>1
    <2>3. P[q] \notin {"1", "e"}
      BY DEF Ender
    <2>4. hex(P, o) = Got(q, w) /\ hex(s, i) = Got(j, w) /\ s[i] = "#x1"
      BY <2>2, <2>3, HexBinIs, PrefixedSame DEF w
    <2>5. integer(P, o) = None /\ decimal(P, o) = None
      BY <1>1, <2>4, NoNumber
    <2>6. constant(P, o) = Leaf("Hex", hex(P, o))
      BY <1>1, <1>2, <2>4, <2>5, ConstantIs
    <2>7. Written(Mark("Hex", w)) = w /\ Mark("Hex", w).kind # "Symbol"
      BY WrittenIs
    <2> QED
      BY <1>2, <2>1, <2>4, <2>6, <2>7 DEF w
  <1>6. CASE /\ integer(s, i) = None /\ decimal(s, i) = None /\ hex(s, i) = None
             /\ bin(s, i) # None
    <2>1. constant(s, i) = Leaf("Bin", bin(s, i))
      BY <1>1, <1>6, ConstantIs
    <2>2. Ok(bin(s, i)) /\ bin(s, i).at = j
      BY <1>2, <2>1
    <2>3. P[q] \notin {"1"}
      BY DEF Ender
    <2>4. bin(P, o) = Got(q, w) /\ bin(s, i) = Got(j, w) /\ s[i] = "#b1"
      BY <2>2, <2>3, HexBinIs, PrefixedSame DEF w
    <2>5. integer(P, o) = None /\ decimal(P, o) = None
      BY <1>1, <2>4, NoNumber
    <2>6. hex(P, o) = None
      BY <1>1, <2>4, HexBinIs, PrefixedIs
    <2>7. constant(P, o) = Leaf("Bin", bin(P, o))
      BY <1>1, <1>2, <2>4, <2>5, <2>6, ConstantIs
    <2>8. Written(Mark("Bin", w)) = w /\ Mark("Bin", w).kind # "Symbol"
      BY WrittenIs
    <2> QED
      BY <1>2, <2>1, <2>4, <2>7, <2>8 DEF w
  <1>7. CASE /\ integer(s, i) = None /\ decimal(s, i) = None /\ hex(s, i) = None
             /\ bin(s, i) = None
    <2>1. constant(s, i) = Leaf("Str", string(s, i))
      BY <1>1, <1>7, ConstantIs, GotEnd
    <2>2. Ok(string(s, i)) /\ string(s, i).at = j
      BY <1>2, <2>1
    <2>3. s[i] = Quote
      BY <2>2, StringSame
    <2>4. PICK v \in Text : /\ string(s, i) = Got(j, v) /\ string(P, o) = Got(q, v)
                            /\ Quoted(v) = w
      BY <2>2, StringSame DEF w
    <2>5. integer(P, o) = None /\ decimal(P, o) = None
      BY <1>1, <2>3, QuoteOther, NoNumber
    <2>6. hex(P, o) = None /\ bin(P, o) = None
      <3>1. P[o] # "#x1" /\ P[o] # "#b1"
        BY <1>1, <2>3, QuoteOther
      <3> QED
        BY <1>1, <3>1, HexBinIs, PrefixedIs
    <2>7. constant(P, o) = Leaf("Str", string(P, o))
      BY <1>1, <1>2, <2>4, <2>5, <2>6, ConstantIs
    <2>8. Written(Mark("Str", v)) = Quoted(v) /\ Mark("Str", v).kind # "Symbol"
      BY WrittenIs
    <2> QED
      BY <1>2, <2>1, <2>4, <2>7, <2>8 DEF w
  <1> QED
    BY <1>3, <1>4, <1>5, <1>6, <1>7

LEMMA SexpIs ==
    ASSUME NEW s \in Text, NEW i \in Place(s)
    PROVE  single("sexp", s, i) = IF constant(s, i).end # "none" THEN constant(s, i)
                                  ELSE Leaf("Symbol", symbol(s, i))
  <1>1. single("sexp", s, i) = First(<<constant(s, i), Leaf("Symbol", symbol(s, i))>>)
    BY DEF single
  <1>2. Yields(symbol(s, i), s, i, Text)
    BY SymbolYields
  <1>3. Leaf("Symbol", symbol(s, i)).end = "none" => Leaf("Symbol", symbol(s, i)) = None
    <2>1. Leaf("Symbol", symbol(s, i)).end = "none" => symbol(s, i) = None
      BY <1>2, LeafNone
    <2> QED
      BY <2>1, LeafIs, GotEnd
  <1> QED
    BY <1>1, <1>3, First2

LEMMA SortIs ==
    ASSUME NEW s \in Text, NEW i \in Place(s), NEW what, what # "sexp"
    PROVE  single(what, s, i) =
             IF Here(s, i, "Int") THEN Got(i + 1, <<Mark("Int", <<"Int">>)>>)
             ELSE IF Here(s, i, "Real") THEN Got(i + 1, <<Mark("Real", <<"Real">>)>>)
             ELSE Leaf("UserDef", symbol(s, i))
  <1> DEFINE u == Leaf("UserDef", symbol(s, i))
             rs == <<Leaf("Int", Tag(s, i, <<"Int">>)), Leaf("Real", Tag(s, i, <<"Real">>)), u>>
  <1>1. single(what, s, i) = First(rs)
    BY DEF single
  <1>2. u.end = "none" => u = None
    <2>1. Yields(symbol(s, i), s, i, Text)
      BY SymbolYields
    <2>2. u.end = "none" => symbol(s, i) = None
      BY <2>1, LeafNone
    <2> QED
      BY <2>2, LeafIs, GotEnd
  <1>3. /\ Leaf("Int", Tag(s, i, <<"Int">>)) =
             IF Here(s, i, "Int") THEN Got(i + 1, <<Mark("Int", <<"Int">>)>>) ELSE None
        /\ Leaf("Real", Tag(s, i, <<"Real">>)) =
             IF Here(s, i, "Real") THEN Got(i + 1, <<Mark("Real", <<"Real">>)>>) ELSE None
    <2> SUFFICES ASSUME NEW p, NEW kind
                 PROVE  Leaf(kind, Tag(s, i, <<p>>)) =
                          IF Here(s, i, p) THEN Got(i + 1, <<Mark(kind, <<p>>)>>) ELSE None
      OBVIOUS
    <2>1. Tag(s, i, <<p>>) = IF Here(s, i, p) THEN Got(i + 1, <<p>>) ELSE None
      BY TagOne DEF Here
    <2>2. Leaf(kind, Got(i + 1, <<p>>)) = Got(i + 1, <<Mark(kind, <<p>>)>>)
      BY LeafGot
    <2>3. Leaf(kind, None) = None
      BY LeafIs, GotEnd
    <2> QED
      BY <2>1, <2>2, <2>3
  <1> HIDE DEF u
  <1>4. /\ DOMAIN rs = 1..3 /\ rs[3] = u
        /\ rs[1] = IF Here(s, i, "Int") THEN Got(i + 1, <<Mark("Int", <<"Int">>)>>) ELSE None
        /\ rs[2] = IF Here(s, i, "Real") THEN Got(i + 1, <<Mark("Real", <<"Real">>)>>) ELSE None
    BY <1>3
  <1> HIDE DEF rs
  <1>5. \/ First(rs) = None /\ \A k \in 1..3 : rs[k].end = "none"
        \/ \E k \in 1..3 : /\ First(rs) = rs[k] /\ rs[k].end # "none"
                           /\ \A m \in 1..(k - 1) : rs[m].end = "none"
    BY <1>4, FirstIs
  <1>6. First(rs) = IF rs[1].end # "none" THEN rs[1]
                    ELSE IF rs[2].end # "none" THEN rs[2]
                    ELSE IF rs[3].end # "none" THEN rs[3] ELSE None
    BY <1>5
  <1>7. /\ rs[1].end # "none" <=> Here(s, i, "Int")
        /\ rs[2].end # "none" <=> Here(s, i, "Real")
    BY <1>4, GotEnd
  <1> QED
    BY <1>1, <1>2, <1>4, <1>6, <1>7 DEF u

\* The same leaf is read from s at i up to j and from P at o up to q.
Alike(what, s, i, j, P, o, q) ==
    \E m : /\ single(what, s, i) = Got(j, <<m>>) /\ single(what, P, o) = Got(q, <<m>>)
           /\ Written(m) = Cut(s, i, j)

LEMMA SingleSame ==
    ASSUME NEW s \in Text, NEW P \in Text, NEW i \in Nat, NEW j \in Nat, NEW o \in Nat,
           NEW q \in Nat, Same(s, i, j, P, o, q), P[q] \in Ender, NEW what,
           Ok(single(what, s, i)), single(what, s, i).at = j,
           Unbroken(single(what, s, i).val)
    PROVE  Alike(what, s, i, j, P, o, q)
  <1>1. /\ i \in Place(s) /\ o \in Place(P) /\ P[o] = s[i] /\ i <= Len(s) /\ o <= Len(P)
        /\ j \in Place(s) /\ i < j /\ j - i = q - o
    BY SameIs
  <1>2. /\ \A kind, r : Ok(Leaf(kind, r)) => Ok(r) /\ Leaf(kind, r).at = r.at
        /\ \A kind, v : Leaf(kind, Got(j, v)) = Got(j, <<Mark(kind, v)>>)
        /\ \A kind, v : Leaf(kind, Got(q, v)) = Got(q, <<Mark(kind, v)>>)
    <2>1. \A kind, r : Ok(Leaf(kind, r)) => Ok(r) /\ Leaf(kind, r).at = r.at
      BY LeafIs, GotEnd
    <2> QED
      BY <2>1, LeafGot
  <1> DEFINE w == Cut(s, i, j)
  <1>3. w[1] = s[i]
    <2>1. PICK n \in Nat : n = j - i
      BY <1>1
    <2>2. IsCut(w, s, i, n) /\ 1 \in 1..n
      BY <1>1, <2>1, CutIs
    <2>3. i + 1 - 1 = i
      OBVIOUS
    <2> HIDE DEF w
    <2> QED
      BY <2>2, <2>3 DEF IsCut
  <1> HIDE DEF w
  <1>4. CASE what = "sexp" /\ constant(s, i).end # "none"
    <2>1. single(what, s, i) = constant(s, i)
      BY <1>1, <1>4, SexpIs
    <2>2. PICK m : /\ constant(s, i) = Got(j, <<m>>) /\ constant(P, o) = Got(q, <<m>>)
                   /\ Written(m) = Cut(s, i, j)
      BY <2>1, ConstantSame
    <2>3. constant(P, o).end # "none"
      BY <2>2, GotEnd
    <2>4. single(what, P, o) = constant(P, o)
      BY <1>1, <1>4, <2>3, SexpIs
    <2> QED
      BY <2>1, <2>2, <2>4 DEF Alike
  <1>5. CASE what = "sexp" /\ constant(s, i).end = "none"
    <2>1. single(what, s, i) = Leaf("Symbol", symbol(s, i))
      BY <1>1, <1>5, SexpIs
    <2>2. Ok(symbol(s, i)) /\ symbol(s, i).at = j
      BY <1>2, <2>1
    <2>3. /\ symbol(s, i) = Got(j, w) /\ symbol(P, o) = Got(q, w)
          /\ s[i] # Quote => constant(P, o) = None
      BY <1>5, <2>2, SymbolSame DEF w
    <2>4. single(what, s, i) = Got(j, <<Mark("Symbol", w)>>)
      BY <1>2, <2>1, <2>3
    <2>5. s[i] # Quote
      <3>1. single(what, s, i).val = <<Mark("Symbol", w)>>
        BY <2>4, GotEnd
      <3>2. 1 \in DOMAIN <<Mark("Symbol", w)>> /\ <<Mark("Symbol", w)>>[1] = Mark("Symbol", w)
        OBVIOUS
      <3>3. Mark("Symbol", w).kind = "Symbol" /\ Mark("Symbol", w).text = w
        BY WrittenIs
      <3>4. w[1] # Quote
        BY <3>1, <3>2, <3>3 DEF Unbroken
      <3> QED
        BY <1>3, <3>4
    <2>6. single(what, P, o) = Leaf("Symbol", symbol(P, o))
      BY <1>1, <1>5, <2>3, <2>5, SexpIs, GotEnd
    <2>7. single(what, P, o) = Got(q, <<Mark("Symbol", w)>>)
      BY <1>2, <2>3, <2>6
    <2>8. Written(Mark("Symbol", w)) = w
      BY WrittenIs
    <2> QED
      BY <2>4, <2>7, <2>8 DEF w, Alike
  <1>6. ASSUME NEW kind \in {"Int", "Real"}, what # "sexp", Here(s, i, kind)
        PROVE  Alike(what, s, i, j, P, o, q)
    <2>1. Here(P, o, kind) /\ s[i] = kind
      BY <1>1, <1>6 DEF Here
    <2>2. /\ single(what, s, i) = Got(i + 1, <<Mark(kind, <<kind>>)>>)
          /\ single(what, P, o) = Got(o + 1, <<Mark(kind, <<kind>>)>>)
      <3>1. /\ single(what, s, i) =
                 IF Here(s, i, "Int") THEN Got(i + 1, <<Mark("Int", <<"Int">>)>>)
                 ELSE IF Here(s, i, "Real") THEN Got(i + 1, <<Mark("Real", <<"Real">>)>>)
                 ELSE Leaf("UserDef", symbol(s, i))
            /\ single(what, P, o) =
                 IF Here(P, o, "Int") THEN Got(o + 1, <<Mark("Int", <<"Int">>)>>)
                 ELSE IF Here(P, o, "Real") THEN Got(o + 1, <<Mark("Real", <<"Real">>)>>)
                 ELSE Leaf("UserDef", symbol(P, o))
        BY <1>1, <1>6, SortIs
      <3>2. CASE kind = "Int"
        BY <1>6, <2>1, <3>1, <3>2
      <3>3. CASE kind = "Real"
        <4>1. ~Here(s, i, "Int") /\ ~Here(P, o, "Int")
          BY <1>1, <2>1, <3>3 DEF Here
        <4> QED
          BY <1>6, <2>1, <3>1, <3>3, <4>1
      <3> QED
        BY <1>6, <3>2, <3>3
    <2>3. j = i + 1 /\ q = o + 1
      <3>1. j = i + 1
        BY <2>2, GotEnd
      <3> QED
        BY <1>1, <3>1
    <2>4. Cut(s, i, j) = <<kind>>
      BY <1>1, <2>1, <2>3, CutOne
    <2>5. Written(Mark(kind, <<kind>>)) = <<kind>>
      <3>1. kind # "Str"
        BY <1>6
      <3> QED
        BY <3>1, WrittenIs
    <2> QED
      BY <2>2, <2>3, <2>4, <2>5 DEF Alike
  <1>7. CASE what # "sexp" /\ ~Here(s, i, "Int") /\ ~Here(s, i, "Real")
    <2>1. ~Here(P, o, "Int") /\ ~Here(P, o, "Real")
      BY <1>1, <1>7 DEF Here
    <2>2. /\ single(what, s, i) = Leaf("UserDef", symbol(s, i))
          /\ single(what, P, o) = Leaf("UserDef", symbol(P, o))
      BY <1>1, <1>7, <2>1, SortIs
    <2>3. Ok(symbol(s, i)) /\ symbol(s, i).at = j
      BY <1>2, <2>2
    <2>4. symbol(s, i) = Got(j, w) /\ symbol(P, o) = Got(q, w)
      BY <2>3, SymbolSame DEF w
    <2>5. Written(Mark("UserDef", w)) = w
      BY WrittenIs
    <2>6. single(what, s, i) = Got(j, <<Mark("UserDef", w)>>)
          /\ single(what, P, o) = Got(q, <<Mark("UserDef", w)>>)
      BY <1>2, <2>2, <2>4
    <2> QED
      BY <2>5, <2>6 DEF w, Alike
  <1> QED
    BY <1>4, <1>5, <1>6, <1>7

-----------------------------------------------------------------------------
(* Where the parts of a printed tree stand *)

\* The text w stands in P from o up to q, and something is behind it.
From(P, o, q, w) == o >= 1 /\ Stands(P, o, w) /\ q = o + Len(w) /\ q <= Len(P)

LEMMA FromJoin ==
    ASSUME NEW P \in Text, NEW o \in Nat, NEW q \in Nat, NEW u \in Text, NEW w \in Text,
           NEW x, Joins(x, u, w), From(P, o, q, x)
    PROVE  \E g \in Nat : From(P, o, g, u) /\ From(P, g, q, w)
  <1>1. /\ Len(x) = Len(u) + Len(w) /\ Len(u) \in Nat /\ Len(w) \in Nat /\ Len(P) \in Nat
    BY JoinIs, TextType DEF Joins, Text
  <1>2. Stands(P, o, u) /\ Stands(P, o + Len(u), w)
    <2>1. Stands(P, o, u \o w)
      BY DEF From, Joins
    <2> QED
      BY <2>1, StandsJoin DEF Text
  <1>3. PICK g \in Nat : g = o + Len(u)
    BY <1>1
  <1>4. o >= 1 /\ q = o + Len(x) /\ q <= Len(P)
    BY DEF From
  <1>5. g >= 1 /\ g <= Len(P) /\ q = g + Len(w)
    BY <1>1, <1>3, <1>4
  <1>6. From(P, o, g, u)
    BY <1>2, <1>3, <1>4, <1>5 DEF From
  <1>7. From(P, g, q, w)
    BY <1>2, <1>3, <1>4, <1>5 DEF From
  <1> QED
    BY <1>6, <1>7

LEMMA FromOne ==
    ASSUME NEW P \in Text, NEW o \in Nat, NEW q \in Nat, NEW p, From(P, o, q, <<p>>)
    PROVE  q = o + 1 /\ P[o] = p
  <1>1. Len(<<p>>) = 1
    OBVIOUS
  <1>2. Stands(P, o, <<p>>)
    BY DEF From
  <1>3. P[o] = p
    BY <1>2, StandsOne DEF Text
  <1> QED
    BY <1>1, <1>3 DEF From

LEMMA MarksWritten ==
    ASSUME NEW v \in Marks
    PROVE  [k \in DOMAIN v |-> Written(v[k])] \in Seq(Text)
  <1>1. ASSUME NEW m \in MarkSet PROVE Written(m) \in Text
    <2>1. m.text \in Text
      BY DEF MarkSet
    <2>2. Quote \in Pieces
      BY DEF Pieces
    <2>3. <<Quote>> \in Text
      BY <2>2 DEF Text
    <2>4. <<Quote>> \o m.text \o <<Quote>> \in Text
      BY <2>1, <2>3 DEF Text
    <2> QED
      BY <2>1, <2>4 DEF Written
  <1>2. DOMAIN v = 1..Len(v) /\ Len(v) \in Nat /\ \A k \in 1..Len(v) : v[k] \in MarkSet
    BY DEF Marks
  <1> QED
    BY <1>1, <1>2

LEMMA PrintType ==
    ASSUME NEW v \in Marks
    PROVE  tree_to_string(v) \in Text
  <1>1. [k \in DOMAIN v |-> Written(v[k])] \in Seq(Seq(Pieces))
    BY MarksWritten DEF Text
  <1> QED
    BY <1>1, FlattenType DEF tree_to_string, Text

LEMMA PrintJoin ==
    ASSUME NEW u \in Marks, NEW w \in Marks, NEW x, Joins(x, u, w)
    PROVE  /\ x \in Marks
           /\ Joins(tree_to_string(x), tree_to_string(u), tree_to_string(w))
  <1> DEFINE F(v) == [k \in DOMAIN v |-> Written(v[k])]
  <1>1. F(u) \in Seq(Seq(Pieces)) /\ F(w) \in Seq(Seq(Pieces))
    BY MarksWritten DEF Text
  <1>2. F(x) = F(u) \o F(w)
    <2>1. u \in Seq(MarkSet) /\ w \in Seq(MarkSet) /\ x = u \o w
      BY DEF Marks, Joins
    <2>2. /\ Len(x) = Len(u) + Len(w) /\ Len(u) \in Nat /\ Len(w) \in Nat
          /\ \A k \in 1..Len(u) : x[k] = u[k]
          /\ \A k \in 1..Len(w) : x[Len(u) + k] = w[k]
      BY <2>1, JoinIs
    <2>3. /\ DOMAIN x = 1..Len(x) /\ DOMAIN u = 1..Len(u) /\ DOMAIN w = 1..Len(w)
      BY <2>1
    <2>4. Len(F(u)) = Len(u) /\ Len(F(w)) = Len(w)
      BY <2>2, <2>3
    <2> DEFINE y == F(u) \o F(w)
    <2>5. /\ y \in Seq(Seq(Pieces)) /\ Len(y) = Len(u) + Len(w)
          /\ \A k \in 1..Len(u) : y[k] = F(u)[k]
          /\ \A k \in 1..Len(w) : y[Len(u) + k] = F(w)[k]
      <3>1. PICK f, g : f = F(u) /\ g = F(w)
        OBVIOUS
      <3> HIDE DEF F
      <3>2. f \in Seq(Seq(Pieces)) /\ g \in Seq(Seq(Pieces))
        BY <1>1, <3>1
      <3>3. /\ f \o g \in Seq(Seq(Pieces)) /\ Len(f \o g) = Len(f) + Len(g)
            /\ \A k \in 1..Len(f) : (f \o g)[k] = f[k]
            /\ \A k \in 1..Len(g) : (f \o g)[Len(f) + k] = g[k]
        BY <3>2, JoinIs
      <3> QED
        BY <2>4, <3>1, <3>3
    <2>6. /\ \A k \in 1..Len(u) : F(u)[k] = Written(u[k])
          /\ \A k \in 1..Len(w) : F(w)[k] = Written(w[k])
          /\ \A k \in 1..Len(x) : F(x)[k] = Written(x[k])
          /\ DOMAIN F(x) = 1..Len(x)
      BY <2>3
    <2>7. ASSUME NEW k \in 1..Len(x) PROVE F(x)[k] = y[k]
      <3> HIDE DEF F, y
      <3>1. CASE k <= Len(u)
        <4>1. k \in 1..Len(u)
          BY <2>2, <3>1
        <4> QED
          BY <2>2, <2>5, <2>6, <4>1
      <3>2. CASE ~(k <= Len(u))
        <4>1. PICK m \in 1..Len(w) : k = Len(u) + m
          <5>1. k - Len(u) \in 1..Len(w) /\ k = Len(u) + (k - Len(u))
            BY <2>2, <3>2
          <5> QED
            BY <5>1
        <4>2. y[k] = Written(w[m]) /\ x[k] = w[m]
          BY <2>2, <2>5, <2>6, <4>1
        <4> QED
          BY <2>6, <4>2
      <3> QED
        BY <3>1, <3>2
    <2>8. F(x) = [k \in 1..Len(x) |-> F(x)[k]]
      BY <2>6
    <2>9. DOMAIN y = 1..Len(x) /\ y = [k \in 1..Len(x) |-> y[k]]
      <3> HIDE DEF F, y
      <3> QED
        BY <2>2, <2>5
    <2> QED
      <3> HIDE DEF F
      <3>1. [k \in 1..Len(x) |-> F(x)[k]] = [k \in 1..Len(x) |-> y[k]]
        BY <2>7
      <3> QED
        BY <2>8, <2>9, <3>1
  <1>3. FlattenSeq(F(x)) = FlattenSeq(F(u)) \o FlattenSeq(F(w))
    <2> HIDE DEF F
    <2> QED
      BY <1>1, <1>2, FlattenJoin
  <1>4. x \in Marks
    BY DEF Joins, Marks
  <1> QED
    BY <1>3, <1>4 DEF tree_to_string, Joins

LEMMA PrintOne ==
    ASSUME NEW m \in MarkSet
    PROVE  tree_to_string(<<m>>) = Written(m) /\ Written(m) \in Text /\ <<m>> \in Marks
  <1> DEFINE f == [k \in DOMAIN <<m>> |-> Written(<<m>>[k])]
  <1>1. <<m>> \in Marks
    BY OneIn DEF Marks
  <1>2. f \in Seq(Seq(Pieces))
    BY <1>1, MarksWritten DEF Text
  <1>3. Len(f) = 1 /\ f[1] = Written(m)
    BY DEF f
  <1> HIDE DEF f
  <1>4. FlattenSeq(f) = Written(m) /\ Written(m) \in Text
    BY <1>2, <1>3, FlattenSingle DEF Text
  <1> QED
    BY <1>1, <1>4 DEF tree_to_string, f

LEMMA MarkTypes ==
    /\ Open \in MarkSet /\ Close \in MarkSet /\ Between \in MarkSet
    /\ Written(Open) = <<"(">> /\ Written(Close) = <<")">> /\ Written(Between) = <<" ">>
  <1>1. "(" \in Pieces /\ ")" \in Pieces /\ " " \in Pieces
    BY DEF Pieces, Blanks, Parens
  <1>2. <<"(">> \in Text /\ <<")">> \in Text /\ <<" ">> \in Text
    <2>1. \A p \in Pieces : <<p>> \in Text
      BY OneIn DEF Text
    <2> QED
      BY <1>1, <2>1
  <1>3. Open \in MarkSet /\ Close \in MarkSet /\ Between \in MarkSet
    BY <1>2 DEF Open, Close, Between, Mark, MarkSet, Kinds
  <1>4. Written(Open) = <<"(">> /\ Written(Close) = <<")">> /\ Written(Between) = <<" ">>
    <2>1. \A kind, w : kind # "Str" => Written(Mark(kind, w)) = w
      BY WrittenIs
    <2>2. "Open" # "Str" /\ "Close" # "Str" /\ "Between" # "Str"
      OBVIOUS
    <2> QED
      BY <2>1, <2>2 DEF Open, Close, Between
  <1> QED
    BY <1>3, <1>4

LEMMA ListFrom ==
    ASSUME NEW P \in Text, NEW o \in Nat, NEW q \in Nat, NEW v \in Marks,
           From(P, o, q, tree_to_string(<<Open>> \o v \o <<Close>>))
    PROVE  \E g \in Nat, h \in Nat :
             /\ g = o + 1 /\ q = h + 1 /\ P[o] = "(" /\ P[h] = ")"
             /\ From(P, g, h, tree_to_string(v))
  <1>1. PICK x, y : Joins(x, <<Open>>, v) /\ Joins(y, x, <<Close>>)
    BY DEF Joins
  <1>2. y = <<Open>> \o v \o <<Close>>
    BY <1>1 DEF Joins
  <1>3. /\ <<Open>> \in Marks /\ tree_to_string(<<Open>>) = <<"(">>
        /\ <<Close>> \in Marks /\ tree_to_string(<<Close>>) = <<")">>
    BY MarkTypes, PrintOne
  <1>4. /\ x \in Marks
        /\ Joins(tree_to_string(x), <<"(">>, tree_to_string(v))
    BY <1>1, <1>3, PrintJoin
  <1>5. Joins(tree_to_string(y), tree_to_string(x), <<")">>)
    BY <1>1, <1>3, <1>4, PrintJoin
  <1>6. /\ tree_to_string(x) \in Text /\ tree_to_string(v) \in Text
        /\ <<"(">> \in Text /\ <<")">> \in Text
    BY <1>3, <1>4, PrintType
  <1>7. PICK h \in Nat : From(P, o, h, tree_to_string(x)) /\ From(P, h, q, <<")">>)
    BY <1>2, <1>5, <1>6, FromJoin
  <1>8. PICK g \in Nat : From(P, o, g, <<"(">>) /\ From(P, g, h, tree_to_string(v))
    BY <1>4, <1>6, <1>7, FromJoin
  <1>9. q = h + 1 /\ P[h] = ")" /\ g = o + 1 /\ P[o] = "("
    BY <1>7, <1>8, FromOne
  <1> QED
    BY <1>8, <1>9

LEMMA MoreFrom ==
    ASSUME NEW P \in Text, NEW o \in Nat, NEW q \in Nat, NEW u \in Marks, NEW v \in Marks,
           From(P, o, q, tree_to_string(u \o <<Between>> \o v))
    PROVE  \E g \in Nat, h \in Nat :
             /\ h = g + 1 /\ P[g] = " "
             /\ From(P, o, g, tree_to_string(u)) /\ From(P, h, q, tree_to_string(v))
  <1>1. PICK x, y : Joins(x, u, <<Between>>) /\ Joins(y, x, v)
    BY DEF Joins
  <1>2. y = u \o <<Between>> \o v
    BY <1>1 DEF Joins
  <1>3. <<Between>> \in Marks /\ tree_to_string(<<Between>>) = <<" ">>
    BY MarkTypes, PrintOne
  <1>4. /\ x \in Marks
        /\ Joins(tree_to_string(x), tree_to_string(u), <<" ">>)
    BY <1>1, <1>3, PrintJoin
  <1>5. Joins(tree_to_string(y), tree_to_string(x), tree_to_string(v))
    BY <1>1, <1>4, PrintJoin
  <1>6. /\ tree_to_string(x) \in Text /\ tree_to_string(v) \in Text
        /\ tree_to_string(u) \in Text /\ <<" ">> \in Text
    BY <1>3, <1>4, PrintType
  <1>7. PICK h \in Nat : From(P, o, h, tree_to_string(x)) /\ From(P, h, q, tree_to_string(v))
    BY <1>2, <1>5, <1>6, FromJoin
  <1>8. PICK g \in Nat : From(P, o, g, tree_to_string(u)) /\ From(P, g, h, <<" ">>)
    BY <1>4, <1>6, <1>7, FromJoin
  <1>9. h = g + 1 /\ P[g] = " "
    BY <1>8, FromOne
  <1> QED
    BY <1>7, <1>8, <1>9

LEMMA UnbrokenJoin ==
    ASSUME NEW u \in Marks, NEW w \in Marks, NEW x, Joins(x, u, w), Unbroken(x)
    PROVE  Unbroken(u) /\ Unbroken(w) /\ x \in Marks
  <1>1. u \in Seq(MarkSet) /\ w \in Seq(MarkSet) /\ x = u \o w
    BY DEF Marks, Joins
  <1>2. /\ x \in Seq(MarkSet) /\ Len(x) = Len(u) + Len(w) /\ Len(u) \in Nat /\ Len(w) \in Nat
        /\ \A k \in 1..Len(u) : x[k] = u[k]
        /\ \A k \in 1..Len(w) : x[Len(u) + k] = w[k]
    BY <1>1, JoinIs
  <1>3. DOMAIN x = 1..Len(x) /\ DOMAIN u = 1..Len(u) /\ DOMAIN w = 1..Len(w)
    BY <1>1, <1>2
  <1>4. \A k \in 1..Len(u) : k \in DOMAIN x
    BY <1>2, <1>3
  <1>5. \A k \in 1..Len(w) : Len(u) + k \in DOMAIN x
    BY <1>2, <1>3
  <1>6. Unbroken(u)
    BY <1>2, <1>3, <1>4 DEF Unbroken
  <1>7. Unbroken(w)
    BY <1>2, <1>3, <1>5 DEF Unbroken
  <1> QED
    BY <1>2, <1>6, <1>7 DEF Marks

LEMMA UnbrokenList ==
    ASSUME NEW v \in Marks, Unbroken(<<Open>> \o v \o <<Close>>)
    PROVE  Unbroken(v)
  <1>1. PICK x, y : Joins(x, <<Open>>, v) /\ Joins(y, x, <<Close>>)
    BY DEF Joins
  <1>2. Unbroken(y)
    BY <1>1 DEF Joins
  <1>3. <<Open>> \in Marks /\ <<Close>> \in Marks
    BY MarkTypes, PrintOne
  <1>4. x \in Marks
    BY <1>1, <1>3, PrintJoin
  <1>5. Unbroken(x)
    BY <1>1, <1>2, <1>3, <1>4, UnbrokenJoin
  <1> QED
    BY <1>1, <1>3, <1>5, UnbrokenJoin

LEMMA UnbrokenMore ==
    ASSUME NEW u \in Marks, NEW v \in Marks, Unbroken(u \o <<Between>> \o v)
    PROVE  Unbroken(u) /\ Unbroken(v)
  <1>1. PICK x, y : Joins(x, u, <<Between>>) /\ Joins(y, x, v)
    BY DEF Joins
  <1>2. Unbroken(y)
    BY <1>1 DEF Joins
  <1>3. <<Between>> \in Marks
    BY MarkTypes, PrintOne
  <1>4. x \in Marks
    BY <1>1, <1>3, PrintJoin
  <1>5. Unbroken(x) /\ Unbroken(v)
    BY <1>1, <1>2, <1>4, UnbrokenJoin
  <1> QED
    BY <1>1, <1>3, <1>5, UnbrokenJoin

LEMMA NoBlank ==
    ASSUME NEW s \in Text, NEW i \in Nat, NEW j \in Nat, i >= 1, j <= Len(s), s[j] \notin Blanks
    PROVE  /\ i = j => multispace0(s, i) = j
           /\ j = i + 1 /\ s[i] \in Blanks => multispace0(s, i) = j
  <1>1. Len(s) \in Nat
    BY TextType
  <1>2. ASSUME i = j PROVE multispace0(s, i) = j
    <2>1. i \in Place(s)
      BY <1>1, <1>2 DEF Place
    <2>2. RunsTo(s, i, Blanks, j)
      BY <1>1, <1>2 DEF RunsTo
    <2> QED
      BY <1>1, <2>1, <2>2, BlanksAt, RunUnique
  <1>3. ASSUME j = i + 1, s[i] \in Blanks PROVE multispace0(s, i) = j
    <2>1. i \in Place(s)
      BY <1>1, <1>3 DEF Place
    <2>2. RunsTo(s, i, Blanks, j)
      BY <1>1, <1>3 DEF RunsTo
    <2> QED
      BY <1>1, <2>1, <2>2, BlanksAt, RunUnique
  <1> QED
    BY <1>2, <1>3

-----------------------------------------------------------------------------
(* Trees *)

\* A leaf prints as the pieces it was read from.
LEMMA SingleText ==
    ASSUME NEW s \in Text, NEW i \in Nat, i \in Place(s), NEW what, Ok(single(what, s, i)),
           Unbroken(single(what, s, i).val)
    PROVE  \E m \in MarkSet, j \in Nat :
             /\ single(what, s, i) = Got(j, <<m>>) /\ Written(m) = Cut(s, i, j)
             /\ i < j /\ j \in Place(s)
             /\ i <= Len(s) /\ s[i] \notin Blanks \cup Parens
  <1>1. Yields(single(what, s, i), s, i, Marks)
    BY SingleYields
  <1>2. i \in Nat /\ Len(s) \in Nat /\ 1 <= i
    BY TextType DEF Place
  <1>3. PICK j \in Nat : j = single(what, s, i).at /\ i < j /\ j \in Place(s)
    <2>1. single(what, s, i).at \in (i + 1)..(Len(s) + 1)
      BY <1>1, YieldsAt
    <2> QED
      BY <1>2, <2>1 DEF Place
  <1>4. i <= Len(s) /\ s[i] \notin Blanks \cup Parens
    <2>1. single(what, s, i) # None
      BY GotEnd
    <2> QED
      BY <1>2, <2>1, SingleNone DEF Place
  <1>5. PICK P \in Text, q \in Nat : Same(s, i, j, P, 1, q) /\ P[q] \in Ender
    <2> DEFINE w == Cut(s, i, j)
    <2>1. PICK n \in Nat : n = j - i
      BY <1>2, <1>3
    <2>2. w \in Text /\ w \in Seq(Pieces) /\ IsCut(w, s, i, n)
      BY <1>2, <1>3, <2>1, CutIs
    <2> HIDE DEF w
    <2>3. PICK b \in Seq(Pieces) : Len(b) = 1 /\ b[1] \in Ender
      <3>1. PICK p \in Pieces : p \in Ender
        BY DEF Pieces, Blanks, Ender
      <3> QED
        BY <3>1, OneIn
    <2>4. PICK P \in Text : /\ Len(P) = Len(w) + 1
                            /\ \A k \in 1..Len(w) : P[k] = w[k]
                            /\ P[Len(w) + 1] \in Ender
      <3>1. PICK P : P = w \o b
        OBVIOUS
      <3>2. /\ P \in Seq(Pieces) /\ Len(P) = Len(w) + Len(b)
            /\ \A k \in 1..Len(w) : P[k] = w[k]
            /\ \A k \in 1..Len(b) : P[Len(w) + k] = b[k]
        BY <2>2, <3>1, JoinIs
      <3>3. 1 \in 1..Len(b)
        BY <2>3
      <3> QED
        BY <2>3, <3>2, <3>3 DEF Text
    <2>5. Len(w) = n /\ \A k \in 1..n : w[k] = s[i + k - 1]
      BY <2>2 DEF IsCut
    <2>6. PICK q \in Nat : q = n + 1
      OBVIOUS
    <2>7. ASSUME NEW e \in i..(j - 1), NEW g \in 1..(q - 1), e - i = g - 1
          PROVE  P[g] = s[e]
      <3>1. g \in 1..n /\ e = i + g - 1
        BY <1>2, <2>6, <2>7
      <3> QED
        BY <2>4, <2>5, <3>1
    <2>8. Same(s, i, j, P, 1, q)
      <3>1. j <= Len(s) + 1
        BY <1>3 DEF Place
      <3>2. i < j /\ 1 < q /\ q <= Len(P) /\ j - i = q - 1
        BY <1>3, <2>1, <2>4, <2>5, <2>6
      <3> QED
        BY <1>2, <2>7, <3>1, <3>2 DEF Same
    <2> QED
      BY <2>4, <2>5, <2>6, <2>8
  <1>7. PICK m : single(what, s, i) = Got(j, <<m>>) /\ Written(m) = Cut(s, i, j)
    <2>1. 1 \in Nat /\ single(what, s, i).at = j
      BY <1>3
    <2> QED
      BY <1>5, <2>1, SingleSame DEF Alike
  <1>8. m \in MarkSet
    <2>1. <<m>> \in Marks
      <3>1. single(what, s, i).val \in Marks
        BY <1>1, YieldsAt
      <3> QED
        BY <1>7, <3>1, GotEnd
    <2>2. 1 \in 1..Len(<<m>>) /\ <<m>>[1] = m
      OBVIOUS
    <2>3. <<m>>[1] \in MarkSet
      BY <2>1, <2>2 DEF Marks
    <2> QED
      BY <2>2, <2>3
  <1> QED
    BY <1>3, <1>4, <1>7, <1>8

\* A leaf whose print stands in P is read from it.
LEMMA SingleAgain ==
    ASSUME NEW s \in Text, NEW i \in Nat, i \in Place(s), NEW what, Ok(single(what, s, i)),
           Unbroken(single(what, s, i).val),
           NEW P \in Text, NEW o \in Nat, NEW q \in Nat,
           From(P, o, q, tree_to_string(single(what, s, i).val)), P[q] \in Ender
    PROVE  /\ single(what, P, o) = Got(q, single(what, s, i).val)
           /\ o < q /\ P[o] \notin Blanks \cup Parens
  <1>1. PICK m \in MarkSet, j \in Nat :
             /\ single(what, s, i) = Got(j, <<m>>) /\ Written(m) = Cut(s, i, j)
             /\ i < j /\ j \in Place(s)
             /\ i <= Len(s) /\ s[i] \notin Blanks \cup Parens
    BY SingleText
  <1>2. i \in Nat /\ Len(s) \in Nat /\ Len(P) \in Nat /\ 1 <= i /\ j <= Len(s) + 1
    BY <1>1, TextType DEF Place
  <1> DEFINE w == Cut(s, i, j)
  <1>3. tree_to_string(single(what, s, i).val) = w
    BY <1>1, PrintOne, GotEnd
  <1>4. PICK n \in Nat : n = j - i
    BY <1>1, <1>2
  <1>5. IsCut(w, s, i, n)
    BY <1>1, <1>2, <1>4, CutIs
  <1> HIDE DEF w
  <1>6. /\ Len(w) = n /\ \A k \in 1..n : w[k] = s[i + k - 1]
        /\ o >= 1 /\ q = o + n /\ q <= Len(P) /\ \A d \in 1..n : P[o - 1 + d] = w[d]
    BY <1>3, <1>5 DEF IsCut, From, Stands
  <1>7. ASSUME NEW e \in i..(j - 1), NEW g \in o..(q - 1), e - i = g - o
        PROVE  P[g] = s[e]
    <2>1. PICK d \in 1..n : d = g - o + 1
      <3>1. g - o + 1 \in 1..n
        BY <1>6
      <3> QED
        BY <3>1
    <2>2. g = o - 1 + d /\ e = i + d - 1
      BY <1>2, <1>7, <2>1
    <2> QED
      BY <1>6, <2>2
  <1>8. Same(s, i, j, P, o, q)
    BY <1>1, <1>2, <1>4, <1>6, <1>7 DEF Same
  <1>9. PICK mm : /\ single(what, s, i) = Got(j, <<mm>>) /\ single(what, P, o) = Got(q, <<mm>>)
                  /\ Written(mm) = Cut(s, i, j)
    <2>1. single(what, s, i).at = j
      BY <1>1, GotEnd
    <2>2. Alike(what, s, i, j, P, o, q)
      BY <1>8, <2>1, SingleSame
    <2> QED
      BY <2>2 DEF Alike
  <1>10. single(what, P, o) = Got(q, single(what, s, i).val)
    BY <1>9, GotEnd
  <1>11. P[o] = s[i] /\ o < q
    BY <1>2, <1>8, SameIs
  <1> QED
    BY <1>1, <1>10, <1>11

ThisTree(what, s, i) == Tree(what, s, i, Many(what, s))

LEMMA ThisTreeIs ==
    ASSUME NEW s \in Text, NEW i \in Place(s), NEW what
    PROVE  /\ ThisTree(what, s, i) =
                ThenBlanks(s, IF ListAt(s, multispace0(s, i), Many(what, s)).end # "none"
                              THEN ListAt(s, multispace0(s, i), Many(what, s))
                              ELSE single(what, s, multispace0(s, i)))
           /\ Yields(ThisTree(what, s, i), s, i, Marks)
           /\ Yields(ListAt(s, multispace0(s, i), Many(what, s)), s, multispace0(s, i), Marks)
  <1> DEFINE M == Many(what, s)
             j == multispace0(s, i)
             p == ListAt(s, j, M)
             r == single(what, s, j)
  <1>1. \A k \in Place(s) : Yields(M[k], s, k, Marks)
    BY ManyIs
  <1>2. i \in Nat /\ Len(s) \in Nat /\ 1 <= i
    BY TextType DEF Place
  <1>3. \A k \in (i + 1)..(Len(s) + 1) : Yields(M[k], s, k, Marks)
    BY <1>1, <1>2 DEF Place
  <1>4. j \in Place(s) /\ j \in i..(Len(s) + 1)
    BY BlanksAt
  <1> HIDE DEF M
  <1>5. Yields(Tree(what, s, i, M), s, i, Marks)
    BY <1>3, TreeYields
  <1>6. Tree(what, s, i, M) = ThenBlanks(s, First(<<p, r>>))
    BY TreeIs
  <1>7. r.end = "none" => r = None
    <2>1. Yields(r, s, j, Marks)
      BY <1>4, SingleYields
    <2> HIDE DEF r
    <2> QED
      BY <2>1, GotEnd DEF Yields
  <1>8. First(<<p, r>>) = IF p.end # "none" THEN p ELSE r
    <2> HIDE DEF p, r
    <2> QED
      BY <1>7, First2
  <1>9. Yields(p, s, j, Marks)
    <2>1. j <= Len(s) => Yields(M[j + 1], s, j + 1, Marks)
      <3> HIDE DEF j
      <3> QED
        BY <1>2, <1>3, <1>4
    <2> HIDE DEF j
    <2> QED
      BY <1>4, <2>1, ListYields
  <1> QED
    BY <1>5, <1>6, <1>8, <1>9 DEF ThisTree, M

LEMMA ManyThis ==
    ASSUME NEW s \in Text, NEW i \in Place(s), NEW what, NEW r, r = ThisTree(what, s, i),
           NEW m, m = Many(what, s)[i], NEW more, more = Many(what, s)[r.at]
    PROVE  m = IF ~Ok(r) \/ more.end = "none" THEN r
               ELSE IF Ok(more) THEN Got(more.at, r.val \o <<Between>> \o more.val)
               ELSE more
  <1>1. m = ManyStep(what, s, i, Many(what, s))
    BY ManyIs
  <1> QED
    BY <1>1, ManyStepIs DEF ThisTree

\* No expression begins with a closing parenthesis.
LEMMA ManyNone ==
    ASSUME NEW s \in Text, NEW i \in Nat, i >= 1, i <= Len(s), s[i] = ")", NEW what
    PROVE  Many(what, s)[i] = None /\ multispace0(s, i) = i
  <1>1. i \in Place(s)
    BY TextType DEF Place
  <1>2. s[i] \notin Blanks /\ s[i] \in Blanks \cup Parens /\ s[i] # "("
    BY DEF Blanks, Parens
  <1>3. multispace0(s, i) = i
    BY <1>2, NoBlank
  <1>4. single(what, s, i) = None
    BY <1>1, <1>2, SingleNone
  <1>5. ListAt(s, i, Many(what, s)) = None
    BY <1>1, <1>2, ListIs
  <1>6. ThisTree(what, s, i) = ThenBlanks(s, None)
    BY <1>1, <1>3, <1>4, <1>5, ThisTreeIs, GotEnd
  <1>7. ThisTree(what, s, i) = None
    BY <1>6, GotEnd DEF ThenBlanks
  <1>8. PICK m, more : m = Many(what, s)[i] /\ more = Many(what, s)[None.at]
    OBVIOUS
  <1>9. m = None
    BY <1>1, <1>7, <1>8, ManyThis, GotEnd
  <1> QED
    BY <1>3, <1>8, <1>9

\* The value of r is printed in P from o up to q, where a piece of the set is.
Fits(r, P, o, q, set) ==
    Ok(r) /\ Unbroken(r.val) /\ From(P, o, q, tree_to_string(r.val)) /\ P[q] \in set
Starts(P, o, q) == o < q /\ P[o] \notin Blanks

\* A printed tree is read again behind it.
TreeAgain(what, s, i) ==
    \A P \in Text, o \in Nat, q \in Nat :
        Fits(ThisTree(what, s, i), P, o, q, Ender) =>
            /\ Starts(P, o, q)
            /\ ThisTree(what, P, o) = Got(multispace0(P, q), ThisTree(what, s, i).val)
ManyAgain(what, s, i) ==
    \A P \in Text, o \in Nat, q \in Nat :
        Fits(Many(what, s)[i], P, o, q, {")"}) =>
            /\ Starts(P, o, q)
            /\ Many(what, P)[o] = Got(q, Many(what, s)[i].val)

LEMMA ManyOnce ==
    ASSUME NEW s \in Text, NEW i \in Place(s), NEW what,
           \A k \in Place(s) : i < k => ManyAgain(what, s, k), TreeAgain(what, s, i)
    PROVE  ManyAgain(what, s, i)
  <1> SUFFICES ASSUME NEW P \in Text, NEW o \in Nat, NEW q \in Nat,
                      Fits(Many(what, s)[i], P, o, q, {")"})
               PROVE  Starts(P, o, q) /\ Many(what, P)[o] = Got(q, Many(what, s)[i].val)
    BY DEF ManyAgain
  <1>1. PICK r, m, more : /\ r = ThisTree(what, s, i) /\ m = Many(what, s)[i]
                          /\ more = Many(what, s)[r.at]
    OBVIOUS
  <1>2. m = IF ~Ok(r) \/ more.end = "none" THEN r
            ELSE IF Ok(more) THEN Got(more.at, r.val \o <<Between>> \o more.val)
            ELSE more
    BY <1>1, ManyThis
  <1>3. /\ Ok(m) /\ Unbroken(m.val) /\ From(P, o, q, tree_to_string(m.val)) /\ P[q] = ")"
    BY <1>1 DEF Fits
  <1>4. o >= 1 /\ q >= 1 /\ q <= Len(P)
    <2>1. PICK n : n = Len(tree_to_string(m.val))
      OBVIOUS
    <2>2. n \in Nat
      <3>1. m.val \in Marks
        BY <1>1, <1>3, ManyIs, YieldsAt
      <3> QED
        BY <2>1, <3>1, PrintType, TextType
    <2>3. o >= 1 /\ q = o + n /\ q <= Len(P)
      BY <1>3, <2>1 DEF From
    <2> QED
      BY <2>2, <2>3
  <1>5. o \in Place(P) /\ q \in Place(P)
    <2>1. Len(P) \in Nat
      BY TextType
    <2>2. o <= q
      <3>1. PICK n \in Nat : n = Len(tree_to_string(m.val))
        <4>1. m.val \in Marks
          BY <1>1, <1>3, ManyIs, YieldsAt
        <4> QED
          BY <4>1, PrintType, TextType
      <3>2. q = o + n
        BY <1>3, <3>1 DEF From
      <3> QED
        BY <3>2
    <2> QED
      BY <1>4, <2>1, <2>2 DEF Place
  <1>6. Ok(r) /\ r.at \in Place(s) /\ i < r.at /\ r.val \in Marks
    <2>1. Ok(r)
      BY <1>2, <1>3
    <2>2. Yields(r, s, i, Marks)
      BY <1>1, ThisTreeIs
    <2>3. r.at \in (i + 1)..(Len(s) + 1) /\ r.val \in Marks
      BY <2>1, <2>2, YieldsAt
    <2>4. i \in Nat /\ 1 <= i /\ Len(s) \in Nat
      BY TextType DEF Place
    <2> QED
      BY <2>1, <2>3, <2>4 DEF Place
  <1>7. CASE more.end = "none"
    <2>1. m = r
      BY <1>2, <1>7
    <2>2. P[q] \in Ender
      BY <1>3 DEF Ender
    <2>3. Fits(r, P, o, q, Ender)
      BY <1>3, <2>1, <2>2 DEF Fits
    <2>4. Starts(P, o, q) /\ ThisTree(what, P, o) = Got(multispace0(P, q), r.val)
      BY <1>1, <2>3 DEF TreeAgain
    <2>5. Many(what, P)[q] = None /\ multispace0(P, q) = q
      BY <1>3, <1>4, ManyNone
    <2>6. PICK r1, m1, more1 :
              /\ r1 = ThisTree(what, P, o) /\ m1 = Many(what, P)[o]
              /\ more1 = Many(what, P)[r1.at]
      OBVIOUS
    <2>7. r1 = Got(q, r.val) /\ more1 = None
      BY <2>4, <2>5, <2>6, GotEnd
    <2>8. m1 = IF ~Ok(r1) \/ more1.end = "none" THEN r1
               ELSE IF Ok(more1) THEN Got(more1.at, r1.val \o <<Between>> \o more1.val)
               ELSE more1
      BY <1>5, <2>6, ManyThis
    <2>9. m1 = Got(q, r.val)
      BY <2>7, <2>8, GotEnd
    <2> QED
      BY <1>1, <2>1, <2>4, <2>6, <2>9
  <1>8. CASE more.end # "none"
    <2>1. Ok(more) /\ m = Got(more.at, r.val \o <<Between>> \o more.val)
      BY <1>2, <1>3, <1>6, <1>8
    <2>2. more.val \in Marks
      <3>1. Yields(more, s, r.at, Marks)
        BY <1>1, <1>6, ManyIs
      <3> QED
        BY <2>1, <3>1, YieldsAt
    <2>3. m.val = r.val \o <<Between>> \o more.val
      <3>1. PICK v : v = r.val \o <<Between>> \o more.val
        OBVIOUS
      <3>2. m = Got(more.at, v)
        BY <2>1, <3>1
      <3>3. m.val = v
        BY <3>2, GotEnd
      <3> QED
        BY <3>1, <3>3
    <2>4. Unbroken(r.val) /\ Unbroken(more.val)
      BY <1>3, <1>6, <2>2, <2>3, UnbrokenMore
    <2>5. PICK g \in Nat, h \in Nat :
             /\ h = g + 1 /\ P[g] = " "
             /\ From(P, o, g, tree_to_string(r.val)) /\ From(P, h, q, tree_to_string(more.val))
      BY <1>3, <1>6, <2>2, <2>3, MoreFrom
    <2>6. P[g] \in Ender /\ P[g] \in Blanks /\ h = g + 1
      BY <2>5 DEF Ender, Blanks
    <2>7. Fits(r, P, o, g, Ender)
      BY <1>6, <2>4, <2>5, <2>6 DEF Fits
    <2>8. Starts(P, o, g) /\ ThisTree(what, P, o) = Got(multispace0(P, g), r.val)
      BY <1>1, <2>7 DEF TreeAgain
    <2>9. Fits(more, P, h, q, {")"})
      BY <1>3, <2>1, <2>4, <2>5 DEF Fits
    <2>10. Starts(P, h, q) /\ Many(what, P)[h] = Got(q, more.val)
      BY <1>1, <1>6, <2>9 DEF ManyAgain
    <2>11. multispace0(P, g) = h
      <3>1. P[h] \notin Blanks /\ h < q
        BY <2>10 DEF Starts
      <3>2. g >= 1
        BY <1>4, <2>8 DEF Starts
      <3>3. h <= Len(P) /\ h = g + 1
        <4>1. Len(P) \in Nat
          BY TextType
        <4> QED
          BY <1>4, <2>6, <3>1, <4>1
      <3> QED
        BY <2>6, <3>1, <3>2, <3>3, NoBlank
    <2>12. PICK r1, m1, more1 :
              /\ r1 = ThisTree(what, P, o) /\ m1 = Many(what, P)[o]
              /\ more1 = Many(what, P)[r1.at]
      OBVIOUS
    <2>13. r1 = Got(h, r.val) /\ more1 = Got(q, more.val)
      BY <2>8, <2>10, <2>11, <2>12, GotEnd
    <2>14. m1 = IF ~Ok(r1) \/ more1.end = "none" THEN r1
                ELSE IF Ok(more1) THEN Got(more1.at, r1.val \o <<Between>> \o more1.val)
                ELSE more1
      BY <1>5, <2>12, ManyThis
    <2>15. m1 = Got(q, m.val)
      <3>1. /\ Ok(r1) /\ r1.val = r.val /\ Ok(more1) /\ more1.end = "ok"
            /\ more1.at = q /\ more1.val = more.val
        BY <2>13, GotEnd
      <3>2. "ok" # "none"
        OBVIOUS
      <3> QED
        BY <2>3, <2>14, <3>1, <3>2
    <2>16. Starts(P, o, q)
      <3>1. o < g /\ P[o] \notin Blanks /\ h < q
        BY <2>8, <2>10 DEF Starts
      <3>2. o < q
        BY <2>6, <3>1
      <3> QED
        BY <3>1, <3>2 DEF Starts
    <2> QED
      BY <1>1, <2>12, <2>15, <2>16
  <1> QED
    BY <1>7, <1>8

LEMMA TreeOnce ==
    ASSUME NEW s \in Text, NEW i \in Place(s), NEW what,
           \A k \in Place(s) : i < k => ManyAgain(what, s, k)
    PROVE  TreeAgain(what, s, i)
  <1> SUFFICES ASSUME NEW P \in Text, NEW o \in Nat, NEW q \in Nat,
                      Fits(ThisTree(what, s, i), P, o, q, Ender)
               PROVE  /\ Starts(P, o, q)
                      /\ ThisTree(what, P, o) = Got(multispace0(P, q), ThisTree(what, s, i).val)
    BY DEF TreeAgain
  <1>0. PICK t : t = ThisTree(what, s, i)
    OBVIOUS
  <1>1. PICK j \in Nat : t = ThisTree(what, s, i) /\ j = multispace0(s, i)
    <2>1. multispace0(s, i) \in Nat
      BY BlanksAt DEF Place
    <2> QED
      BY <1>0, <2>1
  <1>2. j \in Place(s) /\ i <= j /\ i \in Nat /\ Len(s) \in Nat /\ Len(P) \in Nat
    BY <1>1, BlanksAt, TextType DEF Place
  <1>3. PICK p, r : p = ListAt(s, j, Many(what, s)) /\ r = single(what, s, j)
    OBVIOUS
  <1>4. t = ThenBlanks(s, IF p.end # "none" THEN p ELSE r) /\ Yields(p, s, j, Marks)
    BY <1>1, <1>3, ThisTreeIs
  <1>5. Ok(t) /\ Unbroken(t.val) /\ From(P, o, q, tree_to_string(t.val)) /\ P[q] \in Ender
    BY <1>1 DEF Fits
  <1>6. o >= 1 /\ q <= Len(P)
    BY <1>5 DEF From
  <1>7. CASE p.end = "none"
    <2>1. t = ThenBlanks(s, r)
      BY <1>4, <1>7
    <2>2. Ok(r) /\ t.val = r.val
      <3>1. Ok(r)
        BY <1>5, <2>1 DEF ThenBlanks
      <3> QED
        BY <2>1, <3>1, GotEnd DEF ThenBlanks
    <2>3. /\ single(what, P, o) = Got(q, r.val)
          /\ o < q /\ P[o] \notin Blanks \cup Parens
      BY <1>2, <1>3, <1>5, <2>2, SingleAgain
    <2>4. o \in Place(P) /\ o <= Len(P)
      BY <1>2, <1>6, <2>3 DEF Place
    <2>5. P[o] # "(" /\ P[o] \notin Blanks
      BY <2>3 DEF Parens
    <2>6. multispace0(P, o) = o
      BY <1>6, <2>4, <2>5, NoBlank
    <2>7. ListAt(P, o, Many(what, P)) = None
      BY <2>4, <2>5, ListIs
    <2>8. ThisTree(what, P, o) = ThenBlanks(P, Got(q, r.val))
      BY <2>3, <2>4, <2>6, <2>7, ThisTreeIs, GotEnd
    <2>9. ThisTree(what, P, o) = Got(multispace0(P, q), r.val)
      BY <2>8, GotEnd DEF ThenBlanks
    <2> QED
      BY <1>1, <2>2, <2>3, <2>5, <2>9 DEF Starts
  <1>8. CASE p.end # "none"
    <2>1. t = ThenBlanks(s, p)
      BY <1>4, <1>8
    <2>2. Ok(p) /\ t.val = p.val
      <3>1. Ok(p)
        BY <1>5, <2>1 DEF ThenBlanks
      <3> QED
        BY <2>1, <3>1, GotEnd DEF ThenBlanks
    <2>3. PICK jj \in Nat : jj = j + 1
      OBVIOUS
    <2>4. PICK c, m : m = Many(what, s)[jj] /\ c = Closed(s, m)
      OBVIOUS
    <2>5. /\ j <= Len(s) /\ s[j] = "(" /\ Ok(c)
          /\ p = Got(c.at, <<Open>> \o c.val \o <<Close>>)
      <3>1. p = IF j <= Len(s) /\ s[j] = "("
                THEN IF Ok(c) THEN Got(c.at, <<Open>> \o c.val \o <<Close>>) ELSE c
                ELSE None
        BY <1>2, <1>3, <2>3, <2>4, ListIs
      <3> QED
        BY <2>2, <3>1, GotEnd
    <2>6. jj \in Place(s) /\ i < jj
      BY <1>2, <2>3, <2>5 DEF Place
    <2>7. Ok(m) /\ c.val = m.val /\ m.val \in Marks
      <3>1. Yields(m, s, jj, Marks)
        BY <2>4, <2>6, ManyIs
      <3>2. Ok(m)
        BY <2>4, <2>5 DEF Closed
      <3>3. c = Mapped(Tag(s, m.at, <<")">>), LAMBDA v : m.val)
        BY <2>4, <3>2 DEF Closed
      <3>4. c.val = m.val
        BY <2>5, <3>3, GotEnd DEF Mapped
      <3> QED
        BY <3>1, <3>2, <3>4, YieldsAt
    <2>8. t.val = <<Open>> \o m.val \o <<Close>>
      <3>1. PICK v : v = <<Open>> \o m.val \o <<Close>>
        OBVIOUS
      <3>2. p = Got(c.at, v)
        BY <2>5, <2>7, <3>1
      <3>3. p.val = v
        BY <3>2, GotEnd
      <3> QED
        BY <2>2, <3>1, <3>3
    <2>9. PICK g \in Nat, h \in Nat :
             /\ g = o + 1 /\ q = h + 1 /\ P[o] = "(" /\ P[h] = ")"
             /\ From(P, g, h, tree_to_string(m.val))
      <3>1. PICK v \in Marks : v = m.val
        BY <2>7
      <3>2. From(P, o, q, tree_to_string(<<Open>> \o v \o <<Close>>))
        BY <1>5, <2>8, <3>1
      <3> QED
        BY <3>1, <3>2, ListFrom
    <2>10. Unbroken(m.val)
      BY <1>5, <2>7, <2>8, UnbrokenList
    <2>11. Fits(m, P, g, h, {")"})
      BY <2>7, <2>9, <2>10 DEF Fits
    <2>12. Starts(P, g, h) /\ Many(what, P)[g] = Got(h, m.val)
      BY <2>4, <2>6, <2>11 DEF ManyAgain
    <2>13. /\ o < q /\ o <= Len(P) /\ o \in Place(P) /\ h \in Place(P) /\ h <= Len(P)
           /\ g = o + 1 /\ q = h + 1
      BY <1>2, <1>6, <2>9, <2>12 DEF Starts, Place
    <2>14. Closed(P, Many(what, P)[g]) = Got(q, m.val)
      <3>1. Tag(P, h, <<")">>) = Got(q, <<")">>)
        BY <2>9, <2>13, TagOne
      <3> QED
        BY <2>12, <3>1, GotEnd DEF Closed, Mapped
    <2>15. ListAt(P, o, Many(what, P)) = Got(q, t.val)
      <3>1. PICK v : v = <<Open>> \o m.val \o <<Close>>
        OBVIOUS
      <3>2. PICK c1 : c1 = Closed(P, Many(what, P)[g]) /\ Ok(c1) /\ c1.at = q /\ c1.val = m.val
        BY <2>14, GotEnd
      <3>3. ListAt(P, o, Many(what, P)) =
              IF Ok(c1) THEN Got(c1.at, <<Open>> \o c1.val \o <<Close>>) ELSE c1
        BY <2>9, <2>13, <3>2, ListIs
      <3> QED
        BY <2>8, <3>2, <3>3
    <2>16. P[o] \notin Blanks
      BY <2>9 DEF Blanks
    <2>17. multispace0(P, o) = o
      BY <1>6, <2>13, <2>16, NoBlank
    <2>18. ThisTree(what, P, o) = ThenBlanks(P, Got(q, t.val))
      <3>1. Got(q, t.val).end # "none"
        BY GotEnd
      <3> QED
        BY <2>13, <2>15, <2>17, <3>1, ThisTreeIs
    <2>19. ThisTree(what, P, o) = Got(multispace0(P, q), t.val)
      BY <2>18, GotEnd DEF ThenBlanks
    <2> QED
      BY <1>1, <2>13, <2>16, <2>19 DEF Starts
  <1> QED
    BY <1>7, <1>8

\* Trees and the trees of a list are read again when they are printed.
LEMMA TreesAgain ==
    ASSUME NEW s \in Text, NEW what, NEW i \in Place(s)
    PROVE  TreeAgain(what, s, i) /\ ManyAgain(what, s, i)
  <1> DEFINE L == Len(s) + 1
             T == {k \in 1..L : TreeAgain(what, s, k) /\ ManyAgain(what, s, k)}
  <1>1. L \in Nat /\ Place(s) = 1..L
    BY TextType DEF Place
  <1>2. ASSUME NEW k \in 1..L, \A m \in (k + 1)..L : m \in T PROVE k \in T
    <2>1. \A m \in Place(s) : k < m => ManyAgain(what, s, m)
      BY <1>1, <1>2
    <2>2. k \in Place(s)
      BY <1>1
    <2>3. TreeAgain(what, s, k)
      BY <2>1, <2>2, TreeOnce
    <2>4. ManyAgain(what, s, k)
      BY <2>1, <2>2, <2>3, ManyOnce
    <2> QED
      BY <2>3, <2>4
  <1>3. \A k \in 1..L : k \in T
    <2> HIDE DEF T, L
    <2> QED
      BY <1>1, <1>2, Downward
  <1> QED
    BY <1>1, <1>3

-----------------------------------------------------------------------------
(* Commands that are known *)

LEMMA FirstAt ==
    ASSUME NEW rs, NEW n \in Nat, DOMAIN rs = 1..n, NEW k \in 1..n, rs[k].end # "none",
           \A j \in 1..(k - 1) : rs[j].end = "none"
    PROVE  First(rs) = rs[k]
  <1>1. \/ First(rs) = None /\ \A m \in 1..n : rs[m].end = "none"
        \/ \E m \in 1..n : /\ First(rs) = rs[m] /\ rs[m].end # "none"
                           /\ \A j \in 1..(m - 1) : rs[j].end = "none"
    BY FirstIs
  <1>2. PICK m \in 1..n : /\ First(rs) = rs[m] /\ rs[m].end # "none"
                          /\ \A j \in 1..(m - 1) : rs[j].end = "none"
    BY <1>1
  <1>3. ~(m < k)
    <2>1. m < k => m \in 1..(k - 1)
      OBVIOUS
    <2> QED
      BY <1>2, <2>1
  <1>4. ~(k < m)
    <2>1. k < m => k \in 1..(m - 1)
      OBVIOUS
    <2> QED
      BY <1>2, <2>1
  <1>5. k = m
    BY <1>3, <1>4
  <1> QED
    BY <1>2, <1>5

\* What a command does with its tree, and what one without a tree does.
AsCmd(kind, r) == IF Ok(r) THEN Got(r.at, Cmd(kind, <<>>, r.val)) ELSE r
AsPlain(kind, r) == IF Ok(r) THEN Got(r.at, Cmd(kind, <<>>, <<>>)) ELSE r

LEMMA NakedParts ==
    ASSUME NEW s, NEW i
    PROVE  /\ NakedCommands(s, i)[1] = AsCmd("Assert", naked_assert(s, i))
           /\ NakedCommands(s, i)[2] = AsCmd("CheckSatAssuming", naked_csa(s, i))
           /\ NakedCommands(s, i)[3] = AsPlain("CheckSat", Tag(s, i, CheckWord))
           /\ NakedCommands(s, i)[4] = AsPlain("GetModel", Tag(s, i, ModelWord))
           /\ NakedCommands(s, i)[5] = AsPlain("Logic", naked_logic(s, i))
           /\ NakedCommands(s, i)[6] = naked_decl_const(s, i)
           /\ DOMAIN NakedCommands(s, i) = 1..6
           /\ naked_command(s, i) = First(NakedCommands(s, i))
  <1>1. naked_command(s, i) = First(NakedCommands(s, i))
    BY DEF naked_command, NakedCommands
  <1>2. /\ NakedCommands(s, i)[1] =
             Mapped(naked_assert(s, i), LAMBDA e : Cmd("Assert", <<>>, e))
        /\ NakedCommands(s, i)[2] =
             Mapped(naked_csa(s, i), LAMBDA e : Cmd("CheckSatAssuming", <<>>, e))
        /\ NakedCommands(s, i)[3] =
             Mapped(Tag(s, i, <<"check-sat">>), LAMBDA v : Cmd("CheckSat", <<>>, <<>>))
        /\ NakedCommands(s, i)[4] =
             Mapped(Tag(s, i, <<"get-model">>), LAMBDA v : Cmd("GetModel", <<>>, <<>>))
        /\ NakedCommands(s, i)[5] =
             Mapped(naked_logic(s, i), LAMBDA v : Cmd("Logic", <<>>, <<>>))
        /\ NakedCommands(s, i)[6] = naked_decl_const(s, i)
        /\ DOMAIN NakedCommands(s, i) = 1..6
    BY DEF NakedCommands
  <1>3. NakedCommands(s, i)[1] = AsCmd("Assert", naked_assert(s, i))
    BY <1>2 DEF Mapped, AsCmd
  <1>4. NakedCommands(s, i)[2] = AsCmd("CheckSatAssuming", naked_csa(s, i))
    BY <1>2 DEF Mapped, AsCmd
  <1>5. NakedCommands(s, i)[3] = AsPlain("CheckSat", Tag(s, i, CheckWord))
    BY <1>2 DEF Mapped, AsPlain, CheckWord
  <1>6. NakedCommands(s, i)[4] = AsPlain("GetModel", Tag(s, i, ModelWord))
    BY <1>2 DEF Mapped, AsPlain, ModelWord
  <1>7. NakedCommands(s, i)[5] = AsPlain("Logic", naked_logic(s, i))
    BY <1>2 DEF Mapped, AsPlain
  <1> QED
    BY <1>1, <1>2, <1>3, <1>4, <1>5, <1>6, <1>7

\* The word of a command, and the blanks behind it.
Behind(s, i, word) == multispace0(s, Tag(s, multispace0(s, i), word).at)
HasWord(s, i, word) == Ok(Tag(s, multispace0(s, i), word))

LEMMA WordsAre ==
    ASSUME NEW s, NEW i
    PROVE  /\ naked_assert(s, i) =
                IF HasWord(s, i, AssertWord)
                THEN ThisTree("sexp", s, Behind(s, i, AssertWord)) ELSE None
           /\ naked_csa(s, i) =
                IF HasWord(s, i, CsaWord)
                THEN ThisTree("sexp", s, Behind(s, i, CsaWord)) ELSE None
           /\ naked_logic(s, i) =
                IF HasWord(s, i, LogicWord) THEN wsSymbol(s, Behind(s, i, LogicWord)) ELSE None
           /\ naked_decl_const(s, i) =
                IF HasWord(s, i, DeclWord) THEN Declared(s, Behind(s, i, DeclWord)) ELSE None
  <1>1. naked_assert(s, i) = IF HasWord(s, i, AssertWord)
                             THEN ThisTree("sexp", s, Behind(s, i, AssertWord)) ELSE None
    BY DEF naked_assert, Preceded, HasWord, Behind, AssertWord, ThisTree, sexp
  <1>2. naked_csa(s, i) = IF HasWord(s, i, CsaWord)
                          THEN ThisTree("sexp", s, Behind(s, i, CsaWord)) ELSE None
    BY DEF naked_csa, Preceded, HasWord, Behind, CsaWord, ThisTree, sexp
  <1>3. naked_logic(s, i) =
             IF HasWord(s, i, LogicWord) THEN wsSymbol(s, Behind(s, i, LogicWord)) ELSE None
    BY DEF naked_logic, Preceded, HasWord, Behind, LogicWord
  <1>4. naked_decl_const(s, i) =
             IF HasWord(s, i, DeclWord) THEN Declared(s, Behind(s, i, DeclWord)) ELSE None
    BY DeclIs DEF HasWord, Behind
  <1> QED
    BY <1>1, <1>2, <1>3, <1>4

LEMMA DeclaredIs ==
    ASSUME NEW s, NEW i, NEW v, v = wsSymbol(s, i), NEW t, t = ThisTree("sort", s, v.at)
    PROVE  Declared(s, i) = IF Ok(v)
                            THEN IF Ok(t) THEN Got(t.at, Cmd("DeclConst", v.val, t.val)) ELSE t
                            ELSE v
  BY DEF Declared, Mapped, ThisTree, sort

LEMMA BehindPlace ==
    ASSUME NEW s \in Text, NEW i \in Place(s), NEW w \in Text, w # <<>>, HasWord(s, i, w)
    PROVE  Behind(s, i, w) \in Place(s)
  <1> DEFINE j == multispace0(s, i)
             r == Tag(s, j, w)
  <1>1. j \in Place(s)
    BY BlanksAt
  <1> HIDE DEF j
  <1>2. Yields(r, s, j, Text) /\ Ok(r)
    BY <1>1, TagYields DEF HasWord, j
  <1> HIDE DEF r
  <1>3. r.at \in (j + 1)..(Len(s) + 1)
    BY <1>2, YieldsAt
  <1>4. r.at \in Place(s)
    BY <1>1, <1>3, TextType DEF Place
  <1> QED
    BY <1>4, BlanksAt DEF Behind, r, j

\* v is a tree, and w a symbol, that was read from s.
Read(what, s, v) ==
    \E i \in Nat : i \in Place(s) /\ Ok(ThisTree(what, s, i)) /\ ThisTree(what, s, i).val = v
Named(s, w) == \E i \in Nat : i \in Place(s) /\ Ok(symbol(s, i)) /\ symbol(s, i).val = w

\* c is a command that was read from s, and not as an unknown one.
Sourced(s, c) ==
    \/ c.kind \in {"Assert", "CheckSatAssuming"} /\ c.text = <<>> /\ Read("sexp", s, c.tree)
    \/ c.kind \in {"CheckSat", "GetModel", "Logic"} /\ c.text = <<>> /\ c.tree = <<>>
    \/ c.kind = "DeclConst" /\ Named(s, c.text) /\ Read("sort", s, c.tree)

LEMMA CmdParts ==
    ASSUME NEW kind, NEW text, NEW tree
    PROVE  /\ Cmd(kind, text, tree).kind = kind /\ Cmd(kind, text, tree).text = text
           /\ Cmd(kind, text, tree).tree = tree
  BY DEF Cmd

LEMMA ReadBehind ==
    ASSUME NEW s \in Text, NEW i \in Place(s), NEW w \in Text, w # <<>>, HasWord(s, i, w), NEW what,
           Ok(ThisTree(what, s, Behind(s, i, w)))
    PROVE  Read(what, s, ThisTree(what, s, Behind(s, i, w)).val)
  <1>1. PICK j : j = Behind(s, i, w)
    OBVIOUS
  <1>2. j \in Place(s)
    BY <1>1, BehindPlace
  <1>3. j \in Nat
    BY <1>2 DEF Place
  <1> QED
    BY <1>1, <1>2, <1>3 DEF Read

LEMMA AsIs ==
    ASSUME NEW kind, NEW r
    PROVE  /\ Ok(AsCmd(kind, r)) => Ok(r) /\ AsCmd(kind, r).val = Cmd(kind, <<>>, r.val)
           /\ Ok(AsPlain(kind, r)) => Ok(r) /\ AsPlain(kind, r).val = Cmd(kind, <<>>, <<>>)
  BY GotEnd DEF AsCmd, AsPlain

LEMMA SexpSourced ==
    ASSUME NEW s \in Text, NEW i \in Place(s), NEW kind \in {"Assert", "CheckSatAssuming"},
           NEW w \in Text, w # <<>>, NEW r,
           r = IF HasWord(s, i, w) THEN ThisTree("sexp", s, Behind(s, i, w)) ELSE None,
           Ok(AsCmd(kind, r))
    PROVE  Sourced(s, AsCmd(kind, r).val)
  <1>1. Ok(r) /\ AsCmd(kind, r).val = Cmd(kind, <<>>, r.val)
    BY AsIs
  <1>2. HasWord(s, i, w) /\ r = ThisTree("sexp", s, Behind(s, i, w))
    BY <1>1, GotEnd
  <1>3. Read("sexp", s, r.val)
    BY <1>1, <1>2, ReadBehind
  <1> QED
    BY <1>1, <1>3, CmdParts DEF Sourced

LEMMA PlainSourced ==
    ASSUME NEW s, NEW kind \in {"CheckSat", "GetModel", "Logic"}, NEW r, Ok(AsPlain(kind, r))
    PROVE  Sourced(s, AsPlain(kind, r).val)
  BY AsIs, CmdParts DEF Sourced

LEMMA WsSymbolNamed ==
    ASSUME NEW s \in Text, NEW i \in Place(s), Ok(wsSymbol(s, i))
    PROVE  Named(s, wsSymbol(s, i).val) /\ wsSymbol(s, i).at \in Place(s)
  <1>1. PICK j : j = multispace0(s, i)
    OBVIOUS
  <1>2. j \in Place(s)
    BY <1>1, BlanksAt
  <1>3. PICK r : r = symbol(s, j)
    OBVIOUS
  <1>4. wsSymbol(s, i) = ThenBlanks(s, r)
    BY <1>1, <1>3 DEF wsSymbol
  <1>5. Ok(r) /\ wsSymbol(s, i).val = r.val
    BY <1>4, GotEnd DEF ThenBlanks
  <1>6. j \in Nat
    BY <1>2 DEF Place
  <1>7. Named(s, wsSymbol(s, i).val)
    BY <1>2, <1>3, <1>5, <1>6 DEF Named
  <1>8. wsSymbol(s, i).at \in (i + 1)..(Len(s) + 1)
    BY WsSymbolYields, YieldsAt
  <1>9. wsSymbol(s, i).at \in Place(s)
    BY <1>8, TextType DEF Place
  <1> QED
    BY <1>7, <1>9

LEMMA DeclSourced ==
    ASSUME NEW s \in Text, NEW i \in Place(s), Ok(naked_decl_const(s, i))
    PROVE  Sourced(s, naked_decl_const(s, i).val)
  <1>1. /\ HasWord(s, i, DeclWord)
        /\ naked_decl_const(s, i) = Declared(s, Behind(s, i, DeclWord))
    BY WordsAre, GotEnd
  <1>2. PICK j : j = Behind(s, i, DeclWord) /\ j \in Place(s)
    BY <1>1, BehindPlace, WordTypes
  <1>3. PICK v, t, d : v = wsSymbol(s, j) /\ t = ThisTree("sort", s, v.at) /\ d = Declared(s, j)
    OBVIOUS
  <1>4. d = IF Ok(v) THEN IF Ok(t) THEN Got(t.at, Cmd("DeclConst", v.val, t.val)) ELSE t
                     ELSE v
    BY <1>3, DeclaredIs
  <1>5. Ok(d) /\ d = naked_decl_const(s, i)
    BY <1>1, <1>2, <1>3
  <1>6. Ok(v) /\ Ok(t) /\ d.val = Cmd("DeclConst", v.val, t.val)
    BY <1>4, <1>5, GotEnd
  <1>7. Named(s, v.val) /\ v.at \in Place(s)
    BY <1>2, <1>3, <1>6, WsSymbolNamed
  <1>8. v.at \in Nat
    BY <1>7 DEF Place
  <1>9. Read("sort", s, t.val)
    BY <1>3, <1>6, <1>7, <1>8 DEF Read
  <1> QED
    BY <1>5, <1>6, <1>7, <1>9, CmdParts DEF Sourced

LEMMA NakedSourced ==
    ASSUME NEW s \in Text, NEW i \in Place(s), Ok(naked_command(s, i))
    PROVE  Sourced(s, naked_command(s, i).val)
  <1>1. PICK rs : rs = NakedCommands(s, i)
    OBVIOUS
  <1>2. /\ rs[1] = AsCmd("Assert", naked_assert(s, i))
        /\ rs[2] = AsCmd("CheckSatAssuming", naked_csa(s, i))
        /\ rs[3] = AsPlain("CheckSat", Tag(s, i, CheckWord))
        /\ rs[4] = AsPlain("GetModel", Tag(s, i, ModelWord))
        /\ rs[5] = AsPlain("Logic", naked_logic(s, i))
        /\ rs[6] = naked_decl_const(s, i)
        /\ DOMAIN rs = 1..6
        /\ naked_command(s, i) = First(rs)
    BY <1>1, NakedParts
  <1>3. PICK k \in 1..6 : First(rs) = rs[k]
    <2>1. \/ First(rs) = None /\ \A m \in 1..6 : rs[m].end = "none"
          \/ \E m \in 1..6 : /\ First(rs) = rs[m] /\ rs[m].end # "none"
                             /\ \A j \in 1..(m - 1) : rs[j].end = "none"
      BY <1>2, FirstIs
    <2> QED
      BY <1>2, <2>1, GotEnd
  <1>4. Ok(rs[k]) /\ naked_command(s, i) = rs[k]
    BY <1>2, <1>3
  <1>5. CASE k = 1
    <2>1. Ok(AsCmd("Assert", naked_assert(s, i)))
      BY <1>2, <1>4, <1>5
    <2>2. Sourced(s, AsCmd("Assert", naked_assert(s, i)).val)
      BY <2>1, WordsAre, WordTypes, SexpSourced
    <2> QED
      BY <1>2, <1>4, <1>5, <2>2
  <1>6. CASE k = 2
    <2>1. Ok(AsCmd("CheckSatAssuming", naked_csa(s, i)))
      BY <1>2, <1>4, <1>6
    <2>2. Sourced(s, AsCmd("CheckSatAssuming", naked_csa(s, i)).val)
      BY <2>1, WordsAre, WordTypes, SexpSourced
    <2> QED
      BY <1>2, <1>4, <1>6, <2>2
  <1>7. CASE k = 3
    BY <1>2, <1>4, <1>7, PlainSourced
  <1>8. CASE k = 4
    BY <1>2, <1>4, <1>8, PlainSourced
  <1>9. CASE k = 5
    BY <1>2, <1>4, <1>9, PlainSourced
  <1>10. CASE k = 6
    BY <1>2, <1>4, <1>10, DeclSourced
  <1>11. k = 1 \/ k = 2 \/ k = 3 \/ k = 4 \/ k = 5 \/ k = 6
    BY <1>3
  <1> QED
    BY <1>5, <1>6, <1>7, <1>8, <1>9, <1>10, <1>11

LEMMA ClosedIs ==
    ASSUME NEW s, NEW r
    PROVE  Ok(Closed(s, r)) => Ok(r) /\ Closed(s, r).val = r.val
  <1>1. Ok(Closed(s, r)) => Ok(r)
    BY DEF Closed
  <1>2. Ok(r) => Closed(s, r) = Mapped(Tag(s, r.at, <<")">>), LAMBDA v : r.val)
    BY DEF Closed
  <1> QED
    BY <1>1, <1>2, GotEnd DEF Mapped

LEMMA KnownIs ==
    ASSUME NEW s \in Text, NEW i \in Place(s), Ok(known(s, i))
    PROVE  Sourced(s, known(s, i).val)
  <1>1. PICK j, r : j = multispace0(s, i + 1) /\ r = naked_command(s, j)
    OBVIOUS
  <1>2. Ok(Tag(s, i, <<"(">>))
    BY GotEnd DEF known
  <1>3. i <= Len(s) /\ i \in Nat /\ Len(s) \in Nat
    BY <1>2, TagOne, GotEnd, TextType DEF Place
  <1>4. i + 1 \in Place(s)
    BY <1>3 DEF Place
  <1>5. j \in Place(s)
    BY <1>1, <1>4, BlanksAt
  <1>6. PICK c, t : t = ThenBlanks(s, r) /\ c = Closed(s, t) /\ known(s, i) = ThenBlanks(s, c)
    BY <1>1, <1>2 DEF known
  <1>7. Ok(c) /\ known(s, i).val = c.val
    BY <1>6, GotEnd DEF ThenBlanks
  <1>8. Ok(t) /\ c.val = t.val
    BY <1>6, <1>7, ClosedIs
  <1>9. Ok(r) /\ t.val = r.val
    BY <1>6, <1>8, GotEnd DEF ThenBlanks
  <1> QED
    BY <1>1, <1>5, <1>7, <1>8, <1>9, NakedSourced

-----------------------------------------------------------------------------
(* Commands that are printed *)

LEMMA JoinFirst ==
    ASSUME NEW x \in Pieces, NEW w \in Text, NEW v \in Text, Len(v) = Len(w) + 1,
           v[1] = x, \A k \in 1..Len(w) : v[k + 1] = w[k]
    PROVE  Joins(v, <<x>>, w)
  <1>1. PICK u \in Seq(Pieces) : u = <<x>> /\ Len(u) = 1 /\ u[1] = x
    BY OneIn
  <1>2. /\ u \o w \in Seq(Pieces) /\ Len(u \o w) = Len(u) + Len(w) /\ Len(w) \in Nat
        /\ \A k \in 1..Len(u) : (u \o w)[k] = u[k]
        /\ \A k \in 1..Len(w) : (u \o w)[Len(u) + k] = w[k]
    BY JoinIs DEF Text
  <1>3. PICK j \in Seq(Pieces) : j = u \o w
    BY <1>2
  <1>4. Len(j) = Len(v) /\ j[1] = x
    BY <1>1, <1>2, <1>3
  <1>5. ASSUME NEW k \in 1..Len(j) PROVE j[k] = v[k]
    <2>1. CASE k = 1
      BY <1>4, <2>1
    <2>2. CASE k # 1
      <3>1. PICK m \in 1..Len(w) : k = m + 1
        <4>1. k - 1 \in 1..Len(w) /\ k = k - 1 + 1
          BY <1>2, <1>4, <2>2
        <4> QED
          BY <4>1
      <3>2. j[1 + m] = w[m]
        BY <1>1, <1>2, <1>3
      <3>3. 1 + m = k /\ v[m + 1] = w[m]
        BY <3>1
      <3> QED
        BY <3>1, <3>2, <3>3
    <2> QED
      BY <2>1, <2>2
  <1>6. j = v
    BY <1>4, <1>5, SeqEqual DEF Text
  <1> QED
    BY <1>1, <1>3, <1>6 DEF Joins

LEMMA JoinEnd ==
    ASSUME NEW x \in Pieces, NEW w \in Text, NEW v \in Text, Len(v) = Len(w) + 1,
           v[Len(v)] = x, \A k \in 1..Len(w) : v[k] = w[k]
    PROVE  Joins(v, w, <<x>>)
  <1>1. PICK u \in Seq(Pieces) : u = <<x>> /\ Len(u) = 1 /\ u[1] = x
    BY OneIn
  <1>2. /\ w \o u \in Seq(Pieces) /\ Len(w \o u) = Len(w) + Len(u) /\ Len(w) \in Nat
        /\ \A k \in 1..Len(w) : (w \o u)[k] = w[k]
        /\ \A k \in 1..Len(u) : (w \o u)[Len(w) + k] = u[k]
    BY JoinIs DEF Text
  <1>3. PICK j \in Seq(Pieces) : j = w \o u
    BY <1>2
  <1>4. Len(j) = Len(v) /\ j[Len(v)] = x
    BY <1>1, <1>2, <1>3
  <1>5. ASSUME NEW k \in 1..Len(j) PROVE j[k] = v[k]
    <2>1. k = Len(v) \/ k \in 1..Len(w)
      BY <1>2, <1>4
    <2> QED
      BY <1>2, <1>3, <1>4, <2>1
  <1>6. j = v
    BY <1>4, <1>5, SeqEqual DEF Text
  <1> QED
    BY <1>1, <1>3, <1>6 DEF Joins

LEMMA Tuples ==
    ASSUME NEW w \in Pieces, NEW x \in Pieces, NEW y \in Pieces, NEW z \in Pieces,
           NEW u \in Pieces
    PROVE  /\ <<w>> \in Text /\ <<w, x>> \in Text /\ <<w, x, y>> \in Text
           /\ <<w, x, y, z>> \in Text /\ <<w, x, y, z, u>> \in Text
           /\ Joins(<<w, x>>, <<w>>, <<x>>)
           /\ Joins(<<w, x, y>>, <<w>>, <<x, y>>)
           /\ Joins(<<w, x, y, z>>, <<w>>, <<x, y, z>>)
           /\ Joins(<<w, x, y>>, <<w, x>>, <<y>>)
           /\ Joins(<<w, x, y, z, u>>, <<w, x, y, z>>, <<u>>)
  <1>1. /\ <<w>> \in Seq(Pieces) /\ <<x>> \in Seq(Pieces) /\ <<w, x>> \in Seq(Pieces)
        /\ <<x, y>> \in Seq(Pieces) /\ <<w, x, y>> \in Seq(Pieces)
        /\ <<x, y, z>> \in Seq(Pieces) /\ <<w, x, y, z>> \in Seq(Pieces)
        /\ <<w, x, y, z, u>> \in Seq(Pieces)
    OBVIOUS
  <1>2. Joins(<<w, x>>, <<w>>, <<x>>)
    <2>1. PICK v \in Text, m \in Text : v = <<w, x>> /\ m = <<x>>
      BY <1>1 DEF Text
    <2>2. Len(v) = Len(m) + 1 /\ v[1] = w /\ \A k \in 1..Len(m) : v[k + 1] = m[k]
      BY <2>1
    <2> QED
      BY <2>1, <2>2, JoinFirst
  <1>3. Joins(<<w, x, y>>, <<w>>, <<x, y>>)
    <2>1. PICK v \in Text, m \in Text : v = <<w, x, y>> /\ m = <<x, y>>
      BY <1>1 DEF Text
    <2>2. Len(v) = Len(m) + 1 /\ v[1] = w /\ \A k \in 1..Len(m) : v[k + 1] = m[k]
      BY <2>1
    <2> QED
      BY <2>1, <2>2, JoinFirst
  <1>4. Joins(<<w, x, y, z>>, <<w>>, <<x, y, z>>)
    <2>1. PICK v \in Text, m \in Text : v = <<w, x, y, z>> /\ m = <<x, y, z>>
      BY <1>1 DEF Text
    <2>2. Len(v) = Len(m) + 1 /\ v[1] = w /\ \A k \in 1..Len(m) : v[k + 1] = m[k]
      BY <2>1
    <2> QED
      BY <2>1, <2>2, JoinFirst
  <1>5. Joins(<<w, x, y>>, <<w, x>>, <<y>>)
    <2>1. PICK v \in Text, m \in Text : v = <<w, x, y>> /\ m = <<w, x>>
      BY <1>1 DEF Text
    <2>2. Len(v) = Len(m) + 1 /\ v[Len(v)] = y /\ \A k \in 1..Len(m) : v[k] = m[k]
      BY <2>1
    <2> QED
      BY <2>1, <2>2, JoinEnd
  <1>6. Joins(<<w, x, y, z, u>>, <<w, x, y, z>>, <<u>>)
    <2>1. PICK v \in Text, m \in Text : v = <<w, x, y, z, u>> /\ m = <<w, x, y, z>>
      BY <1>1 DEF Text
    <2>2. Len(v) = Len(m) + 1 /\ v[Len(v)] = u /\ \A k \in 1..Len(m) : v[k] = m[k]
      BY <2>1
    <2> QED
      BY <2>1, <2>2, JoinEnd
  <1> QED
    BY <1>1, <1>2, <1>3, <1>4, <1>5, <1>6 DEF Text

LEMMA FromTwo ==
    ASSUME NEW P \in Text, NEW o \in Nat, NEW q \in Nat, NEW x \in Pieces, NEW y \in Pieces,
           From(P, o, q, <<x, y>>)
    PROVE  \E d \in Nat : d = o + 1 /\ q = d + 1 /\ P[o] = x /\ P[d] = y
  <1>1. <<x>> \in Text /\ <<y>> \in Text /\ Joins(<<x, y>>, <<x>>, <<y>>)
    BY Tuples
  <1>2. PICK d \in Nat : From(P, o, d, <<x>>) /\ From(P, d, q, <<y>>)
    BY <1>1, FromJoin
  <1> QED
    BY <1>2, FromOne

LEMMA FromThree ==
    ASSUME NEW P \in Text, NEW o \in Nat, NEW q \in Nat, NEW x \in Pieces, NEW y \in Pieces,
           NEW z \in Pieces, From(P, o, q, <<x, y, z>>)
    PROVE  \E d \in Nat, e \in Nat :
             d = o + 1 /\ e = d + 1 /\ q = e + 1 /\ P[o] = x /\ P[d] = y /\ P[e] = z
  <1>1. <<x>> \in Text /\ <<y, z>> \in Text /\ Joins(<<x, y, z>>, <<x>>, <<y, z>>)
    BY Tuples
  <1>2. PICK d \in Nat : From(P, o, d, <<x>>) /\ From(P, d, q, <<y, z>>)
    BY <1>1, FromJoin
  <1>3. d = o + 1 /\ P[o] = x
    BY <1>2, FromOne
  <1>4. PICK e \in Nat : e = d + 1 /\ q = e + 1 /\ P[d] = y /\ P[e] = z
    BY <1>2, FromTwo
  <1> QED
    BY <1>3, <1>4

LEMMA FromFour ==
    ASSUME NEW P \in Text, NEW o \in Nat, NEW q \in Nat, NEW w \in Pieces, NEW x \in Pieces,
           NEW y \in Pieces, NEW z \in Pieces, From(P, o, q, <<w, x, y, z>>)
    PROVE  \E d \in Nat, e \in Nat, f \in Nat :
             /\ d = o + 1 /\ e = d + 1 /\ f = e + 1 /\ q = f + 1
             /\ P[o] = w /\ P[d] = x /\ P[e] = y /\ P[f] = z
  <1>1. <<w>> \in Text /\ <<x, y, z>> \in Text /\ Joins(<<w, x, y, z>>, <<w>>, <<x, y, z>>)
    BY Tuples
  <1>2. PICK d \in Nat : From(P, o, d, <<w>>) /\ From(P, d, q, <<x, y, z>>)
    BY <1>1, FromJoin
  <1>3. d = o + 1 /\ P[o] = w
    BY <1>2, FromOne
  <1>4. PICK e \in Nat, f \in Nat :
           e = d + 1 /\ f = e + 1 /\ q = f + 1 /\ P[d] = x /\ P[e] = y /\ P[f] = z
    BY <1>2, FromThree
  <1> QED
    BY <1>3, <1>4

\* Everything of a command but its last parenthesis.
Body(c) ==
    CASE c.kind = "Logic" -> <<"(", "set-logic", " ", "QLIA">>
      [] c.kind = "CheckSat" -> <<"(", "check-sat">>
      [] c.kind = "CheckSatAssuming" ->
            <<"(", "check-sat", "-assuming", " ">> \o tree_to_string(c.tree)
      [] c.kind = "GetModel" -> <<"(", "get-model">>
      [] c.kind = "DeclConst" ->
            <<"(", "declare-const", " ">> \o c.text \o <<" ">> \o tree_to_string(c.tree)
      [] c.kind = "Assert" -> <<"(", "assert", " ">> \o tree_to_string(c.tree)
      [] OTHER -> <<>>

LEMMA PieceTypes ==
    /\ "(" \in Pieces /\ ")" \in Pieces /\ " " \in Pieces /\ "nl" \in Pieces
    /\ "assert" \in Pieces /\ "check-sat" \in Pieces /\ "-assuming" \in Pieces
    /\ "get-model" \in Pieces /\ "set-logic" \in Pieces /\ "declare-const" \in Pieces
    /\ "QLIA" \in Pieces
  BY DEF Pieces, Blanks, Parens

LEMMA TextJoins ==
    ASSUME NEW u \in Text, NEW t \in Text
    PROVE  u \o t \in Text
  BY JoinIs DEF Text

LEMMA BodyIs ==
    ASSUME NEW c \in CmdSet, c.kind # "Generic"
    PROVE  Body(c) \in Text /\ Joins(to_string(c), Body(c), <<")">>)
  <1>1. PICK t \in Text, n \in Text : t = tree_to_string(c.tree) /\ n = c.text
    BY PrintType DEF CmdSet
  <1>2. PICK w \in Pieces, x \in Pieces, y \in Pieces, z \in Pieces, u \in Pieces :
          w = "(" /\ x = "set-logic" /\ y = " " /\ z = "QLIA" /\ u = ")"
    BY PieceTypes, Zenon
  <1>3. CASE c.kind = "Logic"
    <2>1. Body(c) = <<w, x, y, z>>
      BY <1>2, <1>3, Zenon DEF Body
    <2>2. to_string(c) = <<w, x, y, z, u>>
      BY <1>2, <1>3, Zenon DEF to_string
    <2>3. <<w, x, y, z>> \in Text /\ Joins(<<w, x, y, z, u>>, <<w, x, y, z>>, <<u>>)
      BY Tuples, Zenon
    <2>4. Body(c) \in Text /\ Joins(to_string(c), Body(c), <<u>>)
      BY <2>1, <2>2, <2>3, Zenon
    <2> QED
      BY <1>2, <2>4, Zenon
  <1>4. CASE c.kind = "CheckSat"
    <2>1. PICK v \in Pieces : v = "check-sat"
      BY PieceTypes
    <2>2. Body(c) = <<w, v>>
      BY <1>2, <1>4, <2>1, Zenon DEF Body
    <2>3. to_string(c) = <<w, v, u>>
      BY <1>2, <1>4, <2>1, Zenon DEF to_string
    <2>4. <<w, v>> \in Text /\ Joins(<<w, v, u>>, <<w, v>>, <<u>>)
      BY Tuples, Zenon
    <2>5. Body(c) \in Text /\ Joins(to_string(c), Body(c), <<u>>)
      BY <2>2, <2>3, <2>4, Zenon
    <2> QED
      BY <1>2, <2>5, Zenon
  <1>5. CASE c.kind = "GetModel"
    <2>1. PICK v \in Pieces : v = "get-model"
      BY PieceTypes
    <2>2. Body(c) = <<w, v>>
      BY <1>2, <1>5, <2>1, Zenon DEF Body
    <2>3. to_string(c) = <<w, v, u>>
      BY <1>2, <1>5, <2>1, Zenon DEF to_string
    <2>4. <<w, v>> \in Text /\ Joins(<<w, v, u>>, <<w, v>>, <<u>>)
      BY Tuples, Zenon
    <2>5. Body(c) \in Text /\ Joins(to_string(c), Body(c), <<u>>)
      BY <2>2, <2>3, <2>4, Zenon
    <2> QED
      BY <1>2, <2>5, Zenon
  <1>6. CASE c.kind = "Assert"
    <2>1. PICK v \in Pieces, f \in Text : v = "assert" /\ f = <<w, v, y>>
      BY PieceTypes, Tuples
    <2>2. Body(c) = f \o t
      BY <1>1, <1>2, <1>6, <2>1, Zenon DEF Body
    <2>3. to_string(c) = f \o t \o <<u>>
      BY <1>1, <1>2, <1>6, <2>1, Zenon DEF to_string
    <2>4. Body(c) \in Text /\ Joins(to_string(c), Body(c), <<u>>)
      BY <2>2, <2>3, TextJoins DEF Joins
    <2> QED
      BY <1>2, <2>4, Zenon
  <1>7. CASE c.kind = "CheckSatAssuming"
    <2>1. PICK v \in Pieces, r \in Pieces, f \in Text :
             v = "check-sat" /\ r = "-assuming" /\ f = <<w, v, r, y>>
      BY PieceTypes, Tuples
    <2>2. Body(c) = f \o t
      BY <1>1, <1>2, <1>7, <2>1, Zenon DEF Body
    <2>3. to_string(c) = f \o t \o <<u>>
      BY <1>1, <1>2, <1>7, <2>1, Zenon DEF to_string
    <2>4. Body(c) \in Text /\ Joins(to_string(c), Body(c), <<u>>)
      BY <2>2, <2>3, TextJoins DEF Joins
    <2> QED
      BY <1>2, <2>4, Zenon
  <1>8. CASE c.kind = "DeclConst"
    <2>1. PICK v \in Pieces, f \in Text, b \in Text :
             v = "declare-const" /\ f = <<w, v, y>> /\ b = <<y>>
      BY PieceTypes, Tuples
    <2>2. Body(c) = f \o n \o b \o t
      BY <1>1, <1>2, <1>8, <2>1, Zenon DEF Body
    <2>3. to_string(c) = f \o n \o b \o t \o <<u>>
      BY <1>1, <1>2, <1>8, <2>1, Zenon DEF to_string
    <2>4. f \o n \in Text /\ f \o n \o b \in Text /\ f \o n \o b \o t \in Text
      <3>1. f \o n \in Text
        BY TextJoins
      <3>2. f \o n \o b \in Text
        BY <3>1, TextJoins
      <3> QED
        BY <3>1, <3>2, TextJoins
    <2>5. Body(c) \in Text /\ Joins(to_string(c), Body(c), <<u>>)
      BY <2>2, <2>3, <2>4 DEF Joins
    <2> QED
      BY <1>2, <2>5, Zenon
  <1>9. c.kind \in CmdKinds
    BY DEF CmdSet
  <1> QED
    BY <1>3, <1>4, <1>5, <1>6, <1>7, <1>8, <1>9 DEF CmdKinds

LEMMA SameFrom ==
    ASSUME NEW s \in Text, NEW i \in Nat, NEW j \in Nat, i \in Place(s), j \in Place(s), i < j,
           NEW P \in Text, NEW o \in Nat, NEW q \in Nat, From(P, o, q, Cut(s, i, j))
    PROVE  Same(s, i, j, P, o, q)
  <1>1. i \in Nat /\ Len(s) \in Nat /\ Len(P) \in Nat /\ 1 <= i /\ j <= Len(s) + 1
    BY TextType DEF Place
  <1>2. PICK n \in Nat : n = j - i
    OBVIOUS
  <1>3. PICK w : w = Cut(s, i, j)
    OBVIOUS
  <1>4. IsCut(w, s, i, n)
    <2>1. i <= j
      OBVIOUS
    <2> QED
      BY <1>2, <1>3, <2>1, CutIs
  <1>5. /\ Len(w) = n /\ \A k \in 1..n : w[k] = s[i + k - 1]
        /\ o >= 1 /\ q = o + n /\ q <= Len(P) /\ \A d \in 1..n : P[o - 1 + d] = w[d]
    BY <1>3, <1>4 DEF IsCut, From, Stands
  <1>6. ASSUME NEW e \in i..(j - 1), NEW g \in o..(q - 1), e - i = g - o
        PROVE  P[g] = s[e]
    <2>1. PICK d \in 1..n : d = g - o + 1
      <3>1. g - o + 1 \in 1..n
        BY <1>5
      <3> QED
        BY <3>1
    <2>2. g = o - 1 + d /\ e = i + d - 1
      BY <1>1, <1>6, <2>1
    <2> QED
      BY <1>5, <2>2
  <1> QED
    BY <1>1, <1>2, <1>5, <1>6 DEF Same

\* A printed symbol is read again.
LEMMA SymbolAgain ==
    ASSUME NEW s \in Text, NEW w, Named(s, w),
           NEW P \in Text, NEW o \in Nat, NEW q \in Nat, From(P, o, q, w), P[q] \in Ender
    PROVE  symbol(P, o) = Got(q, w) /\ o < q /\ P[o] \notin Blanks
  <1>1. PICK i \in Nat : i \in Place(s) /\ Ok(symbol(s, i)) /\ symbol(s, i).val = w
    BY DEF Named
  <1>2. PICK j \in Nat : symbol(s, i).at = j
    <2>1. symbol(s, i).at \in (i + 1)..(Len(s) + 1)
      BY <1>1, SymbolYields, YieldsAt
    <2> QED
      BY <1>1, <2>1, TextType
  <1>3. /\ RunsUntil(s, i, Blanks \cup Parens, j) /\ i < j /\ j <= Len(s) + 1
        /\ symbol(s, i) = Run1(s, i, j)
    BY <1>1, <1>2, SymbolIs
  <1>4. j \in Place(s)
    BY <1>1, <1>3, TextType DEF Place
  <1>5. w = Cut(s, i, j)
    <2>1. PICK v : v = Cut(s, i, j)
      OBVIOUS
    <2>2. symbol(s, i) = Got(j, v)
      BY <1>3, <2>1 DEF Run1, Cut
    <2>3. symbol(s, i).val = v
      BY <2>2, GotEnd
    <2> QED
      BY <1>1, <2>1, <2>3
  <1>6. Same(s, i, j, P, o, q)
    BY <1>1, <1>3, <1>4, <1>5, SameFrom
  <1>7. symbol(P, o) = Got(q, w)
    BY <1>1, <1>2, <1>5, <1>6, SymbolSame
  <1>8. P[o] = s[i] /\ o < q
    BY <1>6, SameIs
  <1>9. s[i] \notin Blanks
    <2>1. \A k \in i..(j - 1) : s[k] \notin Blanks \cup Parens
      BY <1>3 DEF RunsUntil
    <2>2. i \in i..(j - 1)
      BY <1>3
    <2> QED
      BY <2>1, <2>2
  <1> QED
    BY <1>7, <1>8, <1>9

LEMMA TagHas ==
    ASSUME NEW s \in Text, NEW i \in Nat, i \in Place(s), NEW w \in Text, Ok(Tag(s, i, w)),
           NEW k \in 1..Len(w), NEW h \in Nat, h = i + k - 1
    PROVE  h <= Len(s) /\ s[h] = w[k]
  <1>1. Len(w) \in Nat /\ Len(s) \in Nat /\ 1 <= i
    BY TextType DEF Place
  <1>2. PICK e \in Nat : e = i + Len(w) - 1
    BY <1>1
  <1>3. e <= Len(s) /\ SubSeq(s, i, e) = w
    BY <1>2, GotEnd DEF Tag
  <1>4. \A m \in i..e : s[m] \in Pieces
    BY <1>1, <1>3, TextType
  <1>5. \A m \in 1..(e - i + 1) : SubSeq(s, i, e)[m] = s[i + m - 1]
    BY <1>1, <1>2, <1>4, SubSeqProperties
  <1>6. k \in 1..(e - i + 1)
    BY <1>1, <1>2
  <1>7. SubSeq(s, i, e)[k] = s[i + k - 1]
    BY <1>5, <1>6
  <1>8. w[k] = s[h]
    BY <1>3, <1>7
  <1>9. h <= e
    BY <1>1, <1>2, <1>6
  <1> QED
    BY <1>1, <1>3, <1>8, <1>9

LEMMA TagTwo ==
    ASSUME NEW s \in Text, NEW i \in Nat, i >= 1, NEW d \in Nat, d = i + 1, d <= Len(s),
           NEW x \in Pieces, NEW y \in Pieces, s[i] = x, s[d] = y
    PROVE  Tag(s, i, <<x, y>>) = Got(d + 1, <<x, y>>)
  <1>1. Len(s) \in Nat
    BY TextType
  <1>2. PICK v \in Text : v = <<x, y>>
    BY Tuples
  <1>3. Len(v) = 2 /\ v[1] = x /\ v[2] = y
    BY <1>2
  <1>4. \A m \in i..d : s[m] \in Pieces
    BY <1>1, TextType
  <1>5. PICK u : u = SubSeq(s, i, d)
    OBVIOUS
  <1>6. u \in Seq(Pieces) /\ Len(u) = 2 /\ \A m \in 1..2 : u[m] = s[i + m - 1]
    <2>1. /\ SubSeq(s, i, d) \in Seq(Pieces)
          /\ Len(SubSeq(s, i, d)) = (IF i <= d THEN d - i + 1 ELSE 0)
          /\ \A m \in 1..(d - i + 1) : SubSeq(s, i, d)[m] = s[i + m - 1]
      BY <1>4, SubSeqProperties
    <2>2. d - i + 1 = 2 /\ i <= d
      OBVIOUS
    <2> QED
      BY <1>5, <2>1, <2>2
  <1>7. u[1] = x /\ u[2] = y
    BY <1>6
  <1>8. u = v
    BY <1>3, <1>6, <1>7, SeqEqual DEF Text
  <1>9. i + Len(v) - 1 = d /\ i + Len(v) = d + 1
    BY <1>3
  <1> QED
    BY <1>2, <1>5, <1>8, <1>9 DEF Tag

\* A printed tree in front of a parenthesis is read again.
LEMMA TreeRead ==
    ASSUME NEW s \in Text, NEW what, NEW v, Read(what, s, v), Unbroken(v), NEW P \in Text,
           NEW f \in Nat, NEW h \in Nat, From(P, f, h, tree_to_string(v)), P[h] = ")"
    PROVE  ThisTree(what, P, f) = Got(h, v) /\ f < h /\ P[f] \notin Blanks
  <1>1. PICK i \in Nat :
          i \in Place(s) /\ Ok(ThisTree(what, s, i)) /\ ThisTree(what, s, i).val = v
    BY DEF Read
  <1>2. P[h] \in Ender /\ P[h] \notin Blanks /\ h >= 1 /\ h <= Len(P)
    <2>1. P[h] \in Ender /\ P[h] \notin Blanks
      BY DEF Ender, Blanks
    <2>2. f >= 1 /\ h = f + Len(tree_to_string(v)) /\ h <= Len(P) /\ Len(tree_to_string(v)) \in Nat
      <3>1. v \in Marks
        <4>1. Yields(ThisTree(what, s, i), s, i, Marks)
          BY <1>1, ThisTreeIs
        <4> QED
          BY <1>1, <4>1, YieldsAt
      <3>2. Len(tree_to_string(v)) \in Nat
        BY <3>1, PrintType, TextType
      <3> QED
        BY <3>2 DEF From
    <2> QED
      BY <2>1, <2>2
  <1>3. Fits(ThisTree(what, s, i), P, f, h, Ender)
    BY <1>1, <1>2 DEF Fits
  <1>4. TreeAgain(what, s, i)
    BY <1>1, TreesAgain
  <1>5. Starts(P, f, h) /\ ThisTree(what, P, f) = Got(multispace0(P, h), v)
    BY <1>1, <1>3, <1>4 DEF TreeAgain
  <1>6. multispace0(P, h) = h
    BY <1>2, NoBlank
  <1> QED
    BY <1>5, <1>6 DEF Starts

LEMMA WordPieces ==
    /\ AssertWord = <<"assert">> /\ AssertWord[1] = "assert"
    /\ CsaWord = <<"check-sat", "-assuming">> /\ CsaWord[1] = "check-sat"
    /\ CsaWord[2] = "-assuming" /\ Len(CsaWord) = 2
    /\ CheckWord = <<"check-sat">> /\ CheckWord[1] = "check-sat"
    /\ ModelWord = <<"get-model">> /\ ModelWord[1] = "get-model"
    /\ LogicWord = <<"set-logic">> /\ LogicWord[1] = "set-logic"
    /\ DeclWord = <<"declare-const">> /\ DeclWord[1] = "declare-const"
  BY DEF AssertWord, CsaWord, CheckWord, ModelWord, LogicWord, DeclWord

LEMMA NoWord ==
    ASSUME NEW P \in Text, NEW g \in Nat, g >= 1, g <= Len(P), P[g] \notin Blanks,
           NEW w \in Text, w # <<>>, w[1] # P[g]
    PROVE  ~HasWord(P, g, w) /\ Tag(P, g, w) = None
  <1>1. multispace0(P, g) = g
    BY NoBlank
  <1>2. g \in Place(P) /\ 1 \in 1..Len(w) /\ g = g + 1 - 1
    BY TextType DEF Place, Text
  <1>3. ~Ok(Tag(P, g, w))
    BY <1>2, TagHas
  <1>4. Tag(P, g, w) = None
    BY <1>3, GotEnd DEF Tag
  <1> QED
    BY <1>1, <1>3, <1>4 DEF HasWord

LEMMA OneWord ==
    ASSUME NEW P \in Text, NEW g \in Nat, NEW e \in Nat, NEW f \in Nat, g >= 1, e = g + 1,
           f = e + 1, f <= Len(P), P[g] \notin Blanks, P[e] \in Blanks, P[f] \notin Blanks
    PROVE  HasWord(P, g, <<P[g]>>) /\ Behind(P, g, <<P[g]>>) = f
  <1>1. g <= Len(P) /\ Len(P) \in Nat /\ g \in Place(P) /\ e >= 1
    BY TextType DEF Place
  <1>2. multispace0(P, g) = g
    BY <1>1, NoBlank
  <1>3. Tag(P, g, <<P[g]>>) = Got(e, <<P[g]>>)
    BY <1>1, TagOne
  <1>4. multispace0(P, e) = f
    BY <1>1, NoBlank
  <1> QED
    BY <1>2, <1>3, <1>4, GotEnd DEF HasWord, Behind

LEMMA TwoWords ==
    ASSUME NEW P \in Text, NEW g \in Nat, NEW d \in Nat, NEW e \in Nat, NEW f \in Nat, g >= 1,
           d = g + 1, e = d + 1, f = e + 1, f <= Len(P), P[g] \notin Blanks, P[e] \in Blanks,
           P[f] \notin Blanks
    PROVE  HasWord(P, g, <<P[g], P[d]>>) /\ Behind(P, g, <<P[g], P[d]>>) = f
  <1>1. g <= Len(P) /\ d <= Len(P) /\ Len(P) \in Nat /\ g \in Place(P) /\ e >= 1
    BY TextType DEF Place
  <1>2. multispace0(P, g) = g
    BY <1>1, NoBlank
  <1>3. PICK x \in Pieces, y \in Pieces : x = P[g] /\ y = P[d]
    BY <1>1, TextType
  <1>4. Tag(P, g, <<x, y>>) = Got(e, <<x, y>>)
    BY <1>1, <1>3, TagTwo
  <1>5. multispace0(P, e) = f
    BY <1>1, NoBlank
  <1> QED
    BY <1>2, <1>3, <1>4, <1>5, GotEnd DEF HasWord, Behind

\* The command c stands between parentheses in P, from o up to h.
Within(P, o, h, c) ==
    \E g \in Nat, e \in Nat :
        /\ g = o + 1 /\ P[o] = "(" /\ P[g] \notin Blanks /\ o >= 1 /\ g <= h /\ h <= Len(P)
        /\ naked_command(P, g) = Got(e, c) /\ multispace0(P, e) = h

LEMMA FirstOne ==
    ASSUME NEW rs, DOMAIN rs = 1..6, NEW k \in 1..6, Ok(rs[k]),
           \A j \in 1..(k - 1) : rs[j] = None
    PROVE  First(rs) = rs[k]
  <1>1. rs[k].end # "none" /\ \A j \in 1..(k - 1) : rs[j].end = "none"
    BY GotEnd DEF Ok
  <1>2. PICK n \in Nat : n = 6
    OBVIOUS
  <1>3. DOMAIN rs = 1..n /\ k \in 1..n
    BY <1>2
  <1> QED
    BY <1>1, <1>3, FirstAt

LEMMA AssertAgain ==
    ASSUME NEW s \in Text, NEW v \in Marks, Read("sexp", s, v), Unbroken(v), NEW P \in Text,
           NEW o \in Nat, NEW g \in Nat, NEW e \in Nat, NEW f \in Nat, NEW h \in Nat,
           o >= 1, g = o + 1, e = g + 1, f = e + 1,
           P[o] = "(", P[g] = "assert", P[e] \in Blanks, P[h] = ")",
           From(P, f, h, tree_to_string(v))
    PROVE  Within(P, o, h, Cmd("Assert", <<>>, v))
  <1>1. ThisTree("sexp", P, f) = Got(h, v) /\ f < h /\ P[f] \notin Blanks
    BY TreeRead
  <1>2. h <= Len(P) /\ Len(P) \in Nat
    BY TextType DEF From
  <1>3. P[g] \notin Blanks /\ P[h] \notin Blanks
    BY DEF Blanks
  <1>4. /\ g >= 1 /\ f <= Len(P) /\ g <= h /\ h >= 1
    BY <1>1, <1>2
  <1>5. HasWord(P, g, <<P[g]>>) /\ Behind(P, g, <<P[g]>>) = f
    BY <1>1, <1>3, <1>4, OneWord
  <1>6. <<P[g]>> = AssertWord
    BY WordPieces
  <1>7. naked_assert(P, g) = Got(h, v)
    BY <1>1, <1>5, <1>6, WordsAre, Zenon
  <1>8. PICK rs, c : rs = NakedCommands(P, g) /\ c = Cmd("Assert", <<>>, v)
    OBVIOUS
  <1>9. AsCmd("Assert", Got(h, v)) = Got(h, c)
    BY <1>8, GotEnd DEF AsCmd
  <1>10. /\ rs[1] = AsCmd("Assert", naked_assert(P, g))
         /\ DOMAIN rs = 1..6 /\ naked_command(P, g) = First(rs)
    BY <1>8, NakedParts, Zenon
  <1>11. rs[1] = Got(h, c) /\ Ok(rs[1])
    BY <1>7, <1>9, <1>10, GotEnd
  <1>12. First(rs) = rs[1]
    <2>1. 1 \in 1..6 /\ \A j \in 1..(1 - 1) : rs[j] = None
      OBVIOUS
    <2> QED
      BY <1>10, <1>11, <2>1, FirstOne
  <1>13. multispace0(P, h) = h
    BY <1>2, <1>3, <1>4, NoBlank
  <1>14. naked_command(P, g) = Got(h, c)
    BY <1>10, <1>11, <1>12
  <1> QED
    BY <1>2, <1>3, <1>4, <1>8, <1>13, <1>14 DEF Within

LEMMA CsaAgain ==
    ASSUME NEW s \in Text, NEW v \in Marks, Read("sexp", s, v), Unbroken(v), NEW P \in Text,
           NEW o \in Nat, NEW g \in Nat, NEW d \in Nat, NEW e \in Nat, NEW f \in Nat,
           NEW h \in Nat, o >= 1, g = o + 1, d = g + 1, e = d + 1, f = e + 1,
           P[o] = "(", P[g] = "check-sat", P[d] = "-assuming", P[e] \in Blanks, P[h] = ")",
           From(P, f, h, tree_to_string(v))
    PROVE  Within(P, o, h, Cmd("CheckSatAssuming", <<>>, v))
  <1>1. ThisTree("sexp", P, f) = Got(h, v) /\ f < h /\ P[f] \notin Blanks
    BY TreeRead
  <1>2. h <= Len(P) /\ Len(P) \in Nat
    BY TextType DEF From
  <1>3. P[g] \notin Blanks /\ P[h] \notin Blanks
    BY DEF Blanks
  <1>4. /\ g >= 1 /\ f <= Len(P) /\ g <= h /\ h >= 1 /\ g <= Len(P)
    BY <1>1, <1>2
  <1>5. HasWord(P, g, <<P[g], P[d]>>) /\ Behind(P, g, <<P[g], P[d]>>) = f
    BY <1>1, <1>3, <1>4, TwoWords
  <1>6. <<P[g], P[d]>> = CsaWord
    BY WordPieces
  <1>7. naked_csa(P, g) = Got(h, v)
    BY <1>1, <1>5, <1>6, WordsAre, Zenon
  <1>8. naked_assert(P, g) = None
    <2>1. AssertWord[1] # P[g]
      BY WordPieces
    <2>2. ~HasWord(P, g, AssertWord)
      BY <1>3, <1>4, <2>1, WordTypes, NoWord
    <2> QED
      BY <2>2, WordsAre, Zenon
  <1>9. PICK rs, c : rs = NakedCommands(P, g) /\ c = Cmd("CheckSatAssuming", <<>>, v)
    OBVIOUS
  <1>10. /\ AsCmd("CheckSatAssuming", Got(h, v)) = Got(h, c)
         /\ AsCmd("Assert", None) = None
    BY <1>9, GotEnd DEF AsCmd
  <1>11. /\ rs[1] = AsCmd("Assert", naked_assert(P, g))
         /\ rs[2] = AsCmd("CheckSatAssuming", naked_csa(P, g))
         /\ DOMAIN rs = 1..6 /\ naked_command(P, g) = First(rs)
    BY <1>9, NakedParts, Zenon
  <1>12. rs[2] = Got(h, c) /\ Ok(rs[2]) /\ rs[1] = None
    BY <1>7, <1>8, <1>10, <1>11, GotEnd
  <1>13. First(rs) = rs[2]
    <2>1. 2 \in 1..6 /\ \A j \in 1..(2 - 1) : rs[j] = None
      BY <1>12
    <2> QED
      BY <1>11, <1>12, <2>1, FirstOne
  <1>14. multispace0(P, h) = h
    BY <1>2, <1>3, <1>4, NoBlank
  <1>15. naked_command(P, g) = Got(h, c)
    BY <1>11, <1>12, <1>13
  <1> QED
    BY <1>2, <1>3, <1>4, <1>9, <1>14, <1>15 DEF Within

LEMMA CheckAgain ==
    ASSUME NEW P \in Text, NEW o \in Nat, NEW g \in Nat, NEW h \in Nat, o >= 1, g = o + 1,
           h = g + 1, h <= Len(P), P[o] = "(", P[g] = "check-sat", P[h] = ")"
    PROVE  Within(P, o, h, Cmd("CheckSat", <<>>, <<>>))
  <1>1. P[g] \notin Blanks /\ P[h] \notin Blanks
    BY DEF Blanks
  <1>2. g >= 1 /\ g <= Len(P) /\ h >= 1 /\ g <= h /\ Len(P) \in Nat /\ g \in Place(P)
    BY TextType DEF Place
  <1>3. naked_assert(P, g) = None
    <2>1. AssertWord[1] # P[g]
      BY WordPieces
    <2>2. ~HasWord(P, g, AssertWord)
      BY <1>1, <1>2, <2>1, WordTypes, NoWord
    <2> QED
      BY <2>2, WordsAre, Zenon
  <1>4. naked_csa(P, g) = None
    <2>1. multispace0(P, g) = g
      BY <1>1, <1>2, NoBlank
    <2>2. ~Ok(Tag(P, g, CsaWord))
      <3> SUFFICES ASSUME Ok(Tag(P, g, CsaWord)) PROVE FALSE
        OBVIOUS
      <3>1. 2 \in 1..Len(CsaWord) /\ h = g + 2 - 1
        BY WordPieces
      <3>2. P[h] = CsaWord[2]
        BY <1>2, <3>1, WordTypes, TagHas
      <3> QED
        BY <3>2, WordPieces
    <2>3. ~HasWord(P, g, CsaWord)
      BY <2>1, <2>2 DEF HasWord
    <2> QED
      BY <2>3, WordsAre, Zenon
  <1>5. Tag(P, g, CheckWord) = Got(h, CheckWord)
    <2>1. CheckWord = <<P[g]>>
      BY WordPieces
    <2> QED
      BY <1>2, <2>1, TagOne
  <1>6. PICK rs, c : rs = NakedCommands(P, g) /\ c = Cmd("CheckSat", <<>>, <<>>)
    OBVIOUS
  <1>7. /\ AsPlain("CheckSat", Got(h, CheckWord)) = Got(h, c)
        /\ AsCmd("Assert", None) = None /\ AsCmd("CheckSatAssuming", None) = None
    BY <1>6, GotEnd DEF AsCmd, AsPlain
  <1>8. /\ rs[1] = AsCmd("Assert", naked_assert(P, g))
        /\ rs[2] = AsCmd("CheckSatAssuming", naked_csa(P, g))
        /\ rs[3] = AsPlain("CheckSat", Tag(P, g, CheckWord))
        /\ DOMAIN rs = 1..6 /\ naked_command(P, g) = First(rs)
    BY <1>6, NakedParts, Zenon
  <1>9. rs[3] = Got(h, c) /\ Ok(rs[3]) /\ rs[1] = None /\ rs[2] = None
    BY <1>3, <1>4, <1>5, <1>7, <1>8, GotEnd
  <1>10. First(rs) = rs[3]
    <2>1. 3 \in 1..6 /\ \A j \in 1..(3 - 1) : rs[j] = None
      BY <1>9
    <2> QED
      BY <1>8, <1>9, <2>1, FirstOne
  <1>11. multispace0(P, h) = h
    BY <1>1, <1>2, NoBlank
  <1>12. naked_command(P, g) = Got(h, c)
    BY <1>8, <1>9, <1>10
  <1> QED
    BY <1>1, <1>2, <1>6, <1>11, <1>12 DEF Within

\* None of the commands that begin with one of the first two words.
LEMMA NotThese ==
    ASSUME NEW P \in Text, NEW g \in Nat, g >= 1, g <= Len(P), P[g] \notin Blanks,
           P[g] \notin {"assert", "check-sat"}, NEW rs, rs = NakedCommands(P, g)
    PROVE  /\ rs[1] = None /\ rs[2] = None /\ rs[3] = None
           /\ P[g] # "get-model" => rs[4] = None
           /\ P[g] # "set-logic" => rs[5] = None
  <1>1. /\ AsCmd("Assert", None) = None /\ AsCmd("CheckSatAssuming", None) = None
        /\ AsPlain("CheckSat", None) = None /\ AsPlain("GetModel", None) = None
        /\ AsPlain("Logic", None) = None
    BY GotEnd DEF AsCmd, AsPlain
  <1>2. /\ AssertWord[1] # P[g] /\ CsaWord[1] # P[g] /\ CheckWord[1] # P[g]
        /\ P[g] # "get-model" => ModelWord[1] # P[g]
        /\ P[g] # "set-logic" => LogicWord[1] # P[g]
    BY WordPieces
  <1>3. /\ ~HasWord(P, g, AssertWord) /\ ~HasWord(P, g, CsaWord)
        /\ Tag(P, g, CheckWord) = None
        /\ P[g] # "get-model" => Tag(P, g, ModelWord) = None
        /\ P[g] # "set-logic" => ~HasWord(P, g, LogicWord)
    BY <1>2, WordTypes, NoWord
  <1>4. /\ naked_assert(P, g) = None /\ naked_csa(P, g) = None
        /\ P[g] # "set-logic" => naked_logic(P, g) = None
    BY <1>3, WordsAre, Zenon
  <1>5. /\ rs[1] = AsCmd("Assert", naked_assert(P, g))
        /\ rs[2] = AsCmd("CheckSatAssuming", naked_csa(P, g))
        /\ rs[3] = AsPlain("CheckSat", Tag(P, g, CheckWord))
        /\ rs[4] = AsPlain("GetModel", Tag(P, g, ModelWord))
        /\ rs[5] = AsPlain("Logic", naked_logic(P, g))
    BY NakedParts, Zenon
  <1> QED
    BY <1>1, <1>3, <1>4, <1>5, Zenon

LEMMA ModelAgain ==
    ASSUME NEW P \in Text, NEW o \in Nat, NEW g \in Nat, NEW h \in Nat, o >= 1, g = o + 1,
           h = g + 1, h <= Len(P), P[o] = "(", P[g] = "get-model", P[h] = ")"
    PROVE  Within(P, o, h, Cmd("GetModel", <<>>, <<>>))
  <1>1. P[g] \notin Blanks /\ P[h] \notin Blanks /\ P[g] \notin {"assert", "check-sat"}
    BY DEF Blanks
  <1>2. g >= 1 /\ g <= Len(P) /\ h >= 1 /\ g <= h /\ Len(P) \in Nat /\ g \in Place(P)
    BY TextType DEF Place
  <1>3. Tag(P, g, ModelWord) = Got(h, ModelWord)
    <2>1. ModelWord = <<P[g]>>
      BY WordPieces
    <2> QED
      BY <1>2, <2>1, TagOne
  <1>4. PICK rs, c : rs = NakedCommands(P, g) /\ c = Cmd("GetModel", <<>>, <<>>)
    OBVIOUS
  <1>5. AsPlain("GetModel", Got(h, ModelWord)) = Got(h, c)
    BY <1>4, GotEnd DEF AsPlain
  <1>6. /\ rs[4] = AsPlain("GetModel", Tag(P, g, ModelWord))
        /\ DOMAIN rs = 1..6 /\ naked_command(P, g) = First(rs)
    BY <1>4, NakedParts, Zenon
  <1>7. rs[4] = Got(h, c) /\ Ok(rs[4])
    BY <1>3, <1>5, <1>6, GotEnd
  <1>8. rs[1] = None /\ rs[2] = None /\ rs[3] = None
    BY <1>1, <1>2, <1>4, NotThese
  <1>9. First(rs) = rs[4]
    <2>1. 4 \in 1..6 /\ \A j \in 1..(4 - 1) : rs[j] = None
      BY <1>8
    <2> QED
      BY <1>6, <1>7, <2>1, FirstOne
  <1>10. multispace0(P, h) = h
    BY <1>1, <1>2, NoBlank
  <1>11. naked_command(P, g) = Got(h, c)
    BY <1>6, <1>7, <1>9
  <1> QED
    BY <1>1, <1>2, <1>4, <1>10, <1>11 DEF Within

LEMMA LogicAgain ==
    ASSUME NEW P \in Text, NEW o \in Nat, NEW g \in Nat, NEW e \in Nat, NEW f \in Nat,
           NEW h \in Nat, o >= 1, g = o + 1, e = g + 1, f = e + 1, h = f + 1, h <= Len(P),
           P[o] = "(", P[g] = "set-logic", P[e] \in Blanks, P[f] = "QLIA", P[h] = ")"
    PROVE  Within(P, o, h, Cmd("Logic", <<>>, <<>>))
  <1>1. /\ P[g] \notin Blanks /\ P[h] \notin Blanks /\ P[g] \notin {"assert", "check-sat"}
        /\ P[g] # "get-model" /\ P[f] \notin Blanks /\ P[f] \notin Blanks \cup Parens
        /\ P[h] \in Blanks \cup Parens
    BY DEF Blanks, Parens
  <1>2. /\ g >= 1 /\ g <= Len(P) /\ h >= 1 /\ g <= h /\ Len(P) \in Nat /\ f <= Len(P)
        /\ f \in Place(P) /\ f >= 1
    BY TextType DEF Place
  <1>3. HasWord(P, g, <<P[g]>>) /\ Behind(P, g, <<P[g]>>) = f
    BY <1>1, <1>2, OneWord
  <1>4. <<P[g]>> = LogicWord
    BY WordPieces
  <1>5. naked_logic(P, g) = wsSymbol(P, f)
    BY <1>3, <1>4, WordsAre, Zenon
  <1>6. PICK v : v = Cut(P, f, h)
    OBVIOUS
  <1>7. symbol(P, f) = Got(h, v)
    <2>1. PICK set : set = Blanks \cup Parens
      OBVIOUS
    <2>2. RunsUntil(P, f, set, h)
      <3>1. h \in f..(Len(P) + 1)
        BY <1>2
      <3>2. \A k \in f..(h - 1) : P[k] \notin set
        <4>1. \A k \in f..(h - 1) : k = f
          OBVIOUS
        <4> QED
          BY <1>1, <2>1, <4>1
      <3>3. P[h] \in set
        BY <1>1, <2>1
      <3> QED
        BY <3>1, <3>2, <3>3 DEF RunsUntil
    <2>3. RunUntil(P, f, set) = h
      BY <1>2, <2>2, RunUntilIs
    <2>4. symbol(P, f) = Run1(P, f, h)
      BY <2>1, <2>3 DEF symbol
    <2>5. h > f
      OBVIOUS
    <2> QED
      BY <1>6, <2>4, <2>5 DEF Run1, Cut
  <1>8. multispace0(P, f) = f /\ multispace0(P, h) = h
    BY <1>1, <1>2, NoBlank
  <1>9. wsSymbol(P, f) = Got(h, v)
    BY <1>7, <1>8, GotEnd DEF wsSymbol, ThenBlanks
  <1>10. PICK rs, c : rs = NakedCommands(P, g) /\ c = Cmd("Logic", <<>>, <<>>)
    OBVIOUS
  <1>11. AsPlain("Logic", Got(h, v)) = Got(h, c)
    BY <1>10, GotEnd DEF AsPlain
  <1>12. /\ rs[5] = AsPlain("Logic", naked_logic(P, g))
         /\ DOMAIN rs = 1..6 /\ naked_command(P, g) = First(rs)
    BY <1>10, NakedParts, Zenon
  <1>13. rs[5] = Got(h, c) /\ Ok(rs[5])
    BY <1>5, <1>9, <1>11, <1>12, GotEnd
  <1>14. rs[1] = None /\ rs[2] = None /\ rs[3] = None /\ rs[4] = None
    BY <1>1, <1>2, <1>10, NotThese
  <1>15. First(rs) = rs[5]
    <2>1. 5 \in 1..6 /\ \A j \in 1..(5 - 1) : rs[j] = None
      BY <1>14
    <2> QED
      BY <1>12, <1>13, <2>1, FirstOne
  <1>16. naked_command(P, g) = Got(h, c)
    BY <1>12, <1>13, <1>15
  <1> QED
    BY <1>1, <1>2, <1>8, <1>10, <1>16 DEF Within

LEMMA DeclAgain ==
    ASSUME NEW s \in Text, NEW w \in Text, Named(s, w), NEW v \in Marks, Read("sort", s, v), Unbroken(v),
           NEW P \in Text, NEW o \in Nat, NEW g \in Nat, NEW e \in Nat, NEW f \in Nat,
           NEW m \in Nat, NEW l \in Nat, NEW h \in Nat, o >= 1, g = o + 1, e = g + 1, f = e + 1,
           l = m + 1, P[o] = "(", P[g] = "declare-const", P[e] \in Blanks, From(P, f, m, w),
           P[m] \in Blanks, P[m] \in Ender, P[h] = ")", From(P, l, h, tree_to_string(v))
    PROVE  Within(P, o, h, Cmd("DeclConst", w, v))
  <1>1. ThisTree("sort", P, l) = Got(h, v) /\ l < h /\ P[l] \notin Blanks
    BY TreeRead
  <1>2. symbol(P, f) = Got(m, w) /\ f < m /\ P[f] \notin Blanks
    BY SymbolAgain
  <1>3. h <= Len(P) /\ Len(P) \in Nat
    BY TextType DEF From
  <1>4. /\ P[g] \notin Blanks /\ P[h] \notin Blanks /\ P[g] \notin {"assert", "check-sat"}
        /\ P[g] # "get-model" /\ P[g] # "set-logic"
    BY DEF Blanks
  <1>5. /\ g >= 1 /\ f >= 1 /\ f <= Len(P) /\ g <= h /\ h >= 1 /\ g <= Len(P) /\ m >= 1
        /\ l <= Len(P) /\ l >= 1
    BY <1>1, <1>2, <1>3
  <1>6. HasWord(P, g, <<P[g]>>) /\ Behind(P, g, <<P[g]>>) = f
    BY <1>2, <1>4, <1>5, OneWord
  <1>7. <<P[g]>> = DeclWord
    BY WordPieces
  <1>8. naked_decl_const(P, g) = Declared(P, f)
    BY <1>6, <1>7, WordsAre, Zenon
  <1>9. multispace0(P, f) = f /\ multispace0(P, m) = l /\ multispace0(P, h) = h
    BY <1>1, <1>2, <1>3, <1>4, <1>5, NoBlank
  <1>10. wsSymbol(P, f) = Got(l, w)
    BY <1>2, <1>9, GotEnd DEF wsSymbol, ThenBlanks
  <1>11. PICK rs, c : rs = NakedCommands(P, g) /\ c = Cmd("DeclConst", w, v)
    OBVIOUS
  <1>12. Declared(P, f) = Got(h, c)
    <2>1. PICK r, t : r = wsSymbol(P, f) /\ t = ThisTree("sort", P, r.at)
      OBVIOUS
    <2>2. Ok(r) /\ r.at = l /\ r.val = w
      BY <1>10, <2>1, GotEnd
    <2>3. Ok(t) /\ t.at = h /\ t.val = v
      BY <1>1, <2>1, <2>2, GotEnd
    <2>4. Declared(P, f) = IF Ok(r)
                           THEN IF Ok(t) THEN Got(t.at, Cmd("DeclConst", r.val, t.val)) ELSE t
                           ELSE r
      BY <2>1, DeclaredIs
    <2> QED
      BY <1>11, <2>2, <2>3, <2>4
  <1>13. /\ rs[6] = naked_decl_const(P, g)
         /\ DOMAIN rs = 1..6 /\ naked_command(P, g) = First(rs)
    BY <1>11, NakedParts, Zenon
  <1>14. rs[6] = Got(h, c) /\ Ok(rs[6])
    BY <1>8, <1>12, <1>13, GotEnd
  <1>15. rs[1] = None /\ rs[2] = None /\ rs[3] = None /\ rs[4] = None /\ rs[5] = None
    BY <1>4, <1>5, <1>11, NotThese
  <1>16. First(rs) = rs[6]
    <2>1. 6 \in 1..6 /\ \A j \in 1..(6 - 1) : rs[j] = None
      BY <1>15
    <2> QED
      BY <1>13, <1>14, <2>1, FirstOne
  <1>17. naked_command(P, g) = Got(h, c)
    BY <1>13, <1>14, <1>16
  <1> QED
    BY <1>3, <1>4, <1>5, <1>9, <1>11, <1>17 DEF Within

LEMMA CmdIs ==
    ASSUME NEW c \in CmdSet
    PROVE  c = Cmd(c.kind, c.text, c.tree) /\ c.text \in Text /\ c.tree \in Marks
  BY DEF Cmd, CmdSet

\* A word, a blank and more behind a parenthesis.
LEMMA FromBody ==
    ASSUME NEW P \in Text, NEW o \in Nat, NEW h \in Nat, NEW w \in Pieces, NEW x \in Pieces,
           NEW y \in Pieces, NEW t \in Text, From(P, o, h, <<w, x, y>> \o t)
    PROVE  \E g \in Nat, e \in Nat, f \in Nat :
             /\ o >= 1 /\ g = o + 1 /\ e = g + 1 /\ f = e + 1
             /\ P[o] = w /\ P[g] = x /\ P[e] = y /\ From(P, f, h, t)
  <1>1. PICK p \in Text : p = <<w, x, y>>
    BY Tuples
  <1>2. PICK b : Joins(b, p, t) /\ From(P, o, h, b)
    BY <1>1 DEF Joins
  <1>3. PICK f \in Nat : From(P, o, f, p) /\ From(P, f, h, t)
    BY <1>2, FromJoin
  <1>4. PICK g \in Nat, e \in Nat :
          g = o + 1 /\ e = g + 1 /\ f = e + 1 /\ P[o] = w /\ P[g] = x /\ P[e] = y
    BY <1>1, <1>3, FromThree
  <1>5. o >= 1
    BY <1>3 DEF From
  <1> QED
    BY <1>3, <1>4, <1>5

LikeCsa(b, w, x, y, z, t) == b = <<w, x, y, z>> \o t
CsaAt(P, o, h, w, x, y, z, t) ==
    \E g \in Nat, d \in Nat, e \in Nat, f \in Nat :
        /\ o >= 1 /\ g = o + 1 /\ d = g + 1 /\ e = d + 1 /\ f = e + 1
        /\ P[o] = w /\ P[g] = x /\ P[d] = y /\ P[e] = z /\ From(P, f, h, t)

LEMMA FromBodyFour ==
    ASSUME NEW P \in Text, NEW o \in Nat, NEW h \in Nat, NEW w \in Pieces, NEW x \in Pieces,
           NEW y \in Pieces, NEW z \in Pieces, NEW t \in Text, NEW b, LikeCsa(b, w, x, y, z, t),
           From(P, o, h, b)
    PROVE  CsaAt(P, o, h, w, x, y, z, t)
  <1>1. PICK p \in Text : p = <<w, x, y, z>>
    BY Tuples
  <1>2. Joins(b, p, t)
    BY <1>1 DEF Joins, LikeCsa
  <1>3. PICK f \in Nat : From(P, o, f, p) /\ From(P, f, h, t)
    BY <1>2, FromJoin
  <1>4. PICK g \in Nat, d \in Nat, e \in Nat :
          /\ g = o + 1 /\ d = g + 1 /\ e = d + 1 /\ f = e + 1
          /\ P[o] = w /\ P[g] = x /\ P[d] = y /\ P[e] = z
    BY <1>1, <1>3, FromFour
  <1>5. o >= 1
    BY <1>3 DEF From
  <1> QED
    BY <1>3, <1>4, <1>5 DEF CsaAt

\* A name and a tree behind the word of a declaration.
LikeDecl(b, w, x, y, n, t) == b = <<w, x, y>> \o n \o <<y>> \o t
DeclAt(P, o, h, w, x, y, n, t) ==
    \E g \in Nat, e \in Nat, f \in Nat, m \in Nat, l \in Nat :
        /\ o >= 1 /\ g = o + 1 /\ e = g + 1 /\ f = e + 1 /\ l = m + 1
        /\ P[o] = w /\ P[g] = x /\ P[e] = y /\ P[m] = y
        /\ From(P, f, m, n) /\ From(P, l, h, t)

LEMMA FromDecl ==
    ASSUME NEW P \in Text, NEW o \in Nat, NEW h \in Nat, NEW w \in Pieces, NEW x \in Pieces,
           NEW y \in Pieces, NEW n \in Text, NEW t \in Text,
           NEW c, LikeDecl(c, w, x, y, n, t), From(P, o, h, c)
    PROVE  DeclAt(P, o, h, w, x, y, n, t)
  <1>1. PICK p \in Text, b \in Text : p = <<w, x, y>> /\ b = <<y>>
    BY Tuples
  <1>2. PICK u \in Text, v \in Text : u = p \o n /\ v = u \o b
    BY TextJoins
  <1>3. From(P, o, h, v \o t)
    <2>1. c = <<w, x, y>> \o n \o <<y>> \o t
      BY DEF LikeDecl
    <2>2. c = v \o t
      BY <1>1, <1>2, <2>1, Zenon
    <2> QED
      BY <2>2
  <1>4. PICK q : Joins(q, v, t) /\ From(P, o, h, q)
    BY <1>3 DEF Joins
  <1>5. PICK l \in Nat : From(P, o, l, v) /\ From(P, l, h, t)
    BY <1>4, FromJoin
  <1>6. Joins(v, u, b) /\ Joins(u, p, n)
    BY <1>2 DEF Joins
  <1>7. PICK m \in Nat : From(P, o, m, u) /\ From(P, m, l, b)
    BY <1>5, <1>6, FromJoin
  <1>8. l = m + 1 /\ P[m] = y
    BY <1>1, <1>7, FromOne
  <1>9. From(P, o, m, <<w, x, y>> \o n)
    BY <1>1, <1>2, <1>7, Zenon
  <1>10. PICK g \in Nat, e \in Nat, f \in Nat :
           /\ o >= 1 /\ g = o + 1 /\ e = g + 1 /\ f = e + 1
           /\ P[o] = w /\ P[g] = x /\ P[e] = y /\ From(P, f, m, n)
    BY <1>9, FromBody
  <1> QED
    BY <1>5, <1>8, <1>10 DEF DeclAt

LEMMA BodyWithin ==
    ASSUME NEW s \in Text, NEW c \in CmdSet, Sourced(s, c), Unbroken(c.tree),
           NEW P \in Text, NEW o \in Nat, NEW h \in Nat, From(P, o, h, Body(c)), P[h] = ")"
    PROVE  Within(P, o, h, c)
  <1>1. c = Cmd(c.kind, c.text, c.tree) /\ c.text \in Text /\ c.tree \in Marks
    BY CmdIs
  <1>2. PICK t \in Text : t = tree_to_string(c.tree)
    BY <1>1, PrintType
  <1>3. PICK w \in Pieces, y \in Pieces : w = "(" /\ y = " " /\ y \in Blanks /\ y \in Ender
    <2>1. PICK y \in Pieces : y = " "
      BY PieceTypes, Zenon
    <2>2. y \in Blanks /\ y \in Ender
      BY <2>1, Zenon DEF Blanks, Ender
    <2> QED
      BY <2>1, <2>2, PieceTypes, Zenon
  <1>4. CASE c.kind = "Assert"
    <2>1. PICK x \in Pieces : x = "assert"
      BY PieceTypes
    <2>2. Body(c) = <<w, x, y>> \o t
      BY <1>2, <1>3, <1>4, <2>1, Zenon DEF Body
    <2>3. From(P, o, h, <<w, x, y>> \o t)
      BY <2>2, Zenon
    <2>4. PICK g \in Nat, e \in Nat, f \in Nat :
             /\ o >= 1 /\ g = o + 1 /\ e = g + 1 /\ f = e + 1
             /\ P[o] = w /\ P[g] = x /\ P[e] = y /\ From(P, f, h, t)
      BY <2>3, FromBody
    <2>5. P[o] = "(" /\ P[g] = "assert" /\ P[e] \in Blanks
      BY <1>3, <2>1, <2>4, Zenon
    <2>6. c.text = <<>> /\ Read("sexp", s, c.tree)
      BY <1>4 DEF Sourced
    <2>7. Within(P, o, h, Cmd("Assert", <<>>, c.tree))
      BY <1>1, <1>2, <2>4, <2>5, <2>6, AssertAgain
    <2> QED
      BY <1>1, <1>4, <2>6, <2>7, Zenon
  <1>5. CASE c.kind = "CheckSatAssuming"
    <2>1. PICK x \in Pieces, z \in Pieces : x = "check-sat" /\ z = "-assuming"
      BY PieceTypes
    <2>2. Body(c) = <<w, x, z, y>> \o t
      BY <1>2, <1>3, <1>5, <2>1, Zenon DEF Body
    <2>3. LikeCsa(Body(c), w, x, z, y, t)
      BY <2>2 DEF LikeCsa
    <2>4. CsaAt(P, o, h, w, x, z, y, t)
      BY <2>3, FromBodyFour
    <2>5. PICK g \in Nat, d \in Nat, e \in Nat, f \in Nat :
             /\ o >= 1 /\ g = o + 1 /\ d = g + 1 /\ e = d + 1 /\ f = e + 1
             /\ P[o] = w /\ P[g] = x /\ P[d] = z /\ P[e] = y /\ From(P, f, h, t)
      BY <2>4 DEF CsaAt
    <2>6. P[o] = "(" /\ P[g] = "check-sat" /\ P[d] = "-assuming" /\ P[e] \in Blanks
      BY <1>3, <2>1, <2>5, Zenon
    <2>7. c.text = <<>> /\ Read("sexp", s, c.tree)
      BY <1>5 DEF Sourced
    <2>8. Within(P, o, h, Cmd("CheckSatAssuming", <<>>, c.tree))
      BY <1>1, <1>2, <2>5, <2>6, <2>7, CsaAgain
    <2> QED
      BY <1>1, <1>5, <2>7, <2>8, Zenon
  <1>6. CASE c.kind = "DeclConst"
    <2>1. PICK x \in Pieces : x = "declare-const"
      BY PieceTypes
    <2>2. Body(c) = <<w, x, y>> \o c.text \o <<y>> \o t
      BY <1>2, <1>3, <1>6, <2>1, Zenon DEF Body
    <2>3. LikeDecl(Body(c), w, x, y, c.text, t)
      BY <2>2 DEF LikeDecl
    <2>4. DeclAt(P, o, h, w, x, y, c.text, t)
      BY <1>1, <2>3, FromDecl
    <2>5. PICK g \in Nat, e \in Nat, f \in Nat, m \in Nat, l \in Nat :
             /\ o >= 1 /\ g = o + 1 /\ e = g + 1 /\ f = e + 1 /\ l = m + 1
             /\ P[o] = w /\ P[g] = x /\ P[e] = y /\ P[m] = y
             /\ From(P, f, m, c.text) /\ From(P, l, h, t)
      BY <2>4 DEF DeclAt
    <2>6. /\ P[o] = "(" /\ P[g] = "declare-const" /\ P[e] \in Blanks
          /\ P[m] \in Blanks /\ P[m] \in Ender
      BY <1>3, <2>1, <2>5, Zenon
    <2>7. Named(s, c.text) /\ Read("sort", s, c.tree)
      BY <1>6 DEF Sourced
    <2>8. Within(P, o, h, Cmd("DeclConst", c.text, c.tree))
      BY <1>1, <1>2, <2>5, <2>6, <2>7, DeclAgain
    <2> QED
      BY <1>1, <1>6, <2>8, Zenon
  <1>7. CASE c.kind \in {"CheckSat", "GetModel"}
    <2>1. PICK x \in Pieces : x = IF c.kind = "CheckSat" THEN "check-sat" ELSE "get-model"
      BY PieceTypes
    <2>2. Body(c) = <<w, x>>
      <3>1. CASE c.kind = "CheckSat"
        <4>1. x = "check-sat"
          BY <2>1, <3>1
        <4> QED
          BY <1>3, <3>1, <4>1, Zenon DEF Body
      <3>2. CASE c.kind = "GetModel"
        <4>1. x = "get-model"
          BY <2>1, <3>2
        <4> QED
          BY <1>3, <3>2, <4>1, Zenon DEF Body
      <3> QED
        BY <1>7, <3>1, <3>2
    <2>3. From(P, o, h, <<w, x>>)
      BY <2>2, Zenon
    <2>4. PICK g \in Nat : g = o + 1 /\ h = g + 1 /\ P[o] = w /\ P[g] = x
      BY <2>3, FromTwo
    <2>5. o >= 1 /\ h <= Len(P)
      BY <2>3 DEF From
    <2>6. c.text = <<>> /\ c.tree = <<>>
      BY <1>7 DEF Sourced
    <2>7. P[o] = "("
      BY <1>3, <2>4, Zenon
    <2>8. CASE c.kind = "CheckSat"
      <3>1. P[g] = "check-sat"
        BY <2>1, <2>4, <2>8
      <3>2. Within(P, o, h, Cmd("CheckSat", <<>>, <<>>))
        BY <2>4, <2>5, <2>7, <3>1, CheckAgain
      <3> QED
        BY <1>1, <2>6, <2>8, <3>2, Zenon
    <2>9. CASE c.kind = "GetModel"
      <3>1. P[g] = "get-model"
        BY <2>1, <2>4, <2>9
      <3>2. Within(P, o, h, Cmd("GetModel", <<>>, <<>>))
        BY <2>4, <2>5, <2>7, <3>1, ModelAgain
      <3> QED
        BY <1>1, <2>6, <2>9, <3>2, Zenon
    <2> QED
      BY <1>7, <2>8, <2>9
  <1>8. CASE c.kind = "Logic"
    <2>1. PICK x \in Pieces, z \in Pieces : x = "set-logic" /\ z = "QLIA"
      BY PieceTypes
    <2>2. Body(c) = <<w, x, y, z>>
      BY <1>3, <1>8, <2>1, Zenon DEF Body
    <2>3. From(P, o, h, <<w, x, y, z>>)
      BY <2>2, Zenon
    <2>4. PICK g \in Nat, e \in Nat, f \in Nat :
             /\ g = o + 1 /\ e = g + 1 /\ f = e + 1 /\ h = f + 1
             /\ P[o] = w /\ P[g] = x /\ P[e] = y /\ P[f] = z
      BY <2>3, FromFour
    <2>5. o >= 1 /\ h <= Len(P)
      BY <2>3 DEF From
    <2>6. c.text = <<>> /\ c.tree = <<>>
      BY <1>8 DEF Sourced
    <2>7. P[o] = "(" /\ P[g] = "set-logic" /\ P[e] \in Blanks /\ P[f] = "QLIA"
      BY <1>3, <2>1, <2>4, Zenon
    <2>8. Within(P, o, h, Cmd("Logic", <<>>, <<>>))
      BY <2>4, <2>5, <2>7, LogicAgain
    <2> QED
      BY <1>1, <1>8, <2>6, <2>8, Zenon
  <1> QED
    BY <1>4, <1>5, <1>6, <1>7, <1>8 DEF Sourced

LEMMA KnownWithin ==
    ASSUME NEW P \in Text, NEW o \in Nat, NEW h \in Nat, NEW q \in Nat, q = h + 1, NEW c,
           Within(P, o, h, c), P[h] = ")"
    PROVE  known(P, o) = Got(multispace0(P, q), c) /\ o < q
  <1>1. PICK g \in Nat, e \in Nat :
          /\ g = o + 1 /\ P[o] = "(" /\ P[g] \notin Blanks /\ o >= 1 /\ g <= h /\ h <= Len(P)
          /\ naked_command(P, g) = Got(e, c) /\ multispace0(P, e) = h
    BY DEF Within
  <1>2. Len(P) \in Nat /\ o \in Place(P) /\ h \in Place(P) /\ g <= Len(P) /\ g >= 1 /\ o <= Len(P)
    BY <1>1, TextType DEF Place
  <1>3. Ok(Tag(P, o, <<"(">>))
    BY <1>1, <1>2, TagOne, GotEnd
  <1>4. multispace0(P, g) = g
    BY <1>1, <1>2, NoBlank
  <1>5. PICK r, t : r = naked_command(P, g) /\ t = ThenBlanks(P, r)
    OBVIOUS
  <1>6. t = Got(h, c)
    BY <1>1, <1>5, GotEnd DEF ThenBlanks
  <1>7. Tag(P, h, <<")">>) = Got(q, <<")">>)
    BY <1>1, <1>2, TagOne
  <1>8. Closed(P, t) = Got(q, c)
    BY <1>6, <1>7, GotEnd DEF Closed, Mapped
  <1>9. known(P, o) = ThenBlanks(P, Closed(P, t))
    BY <1>1, <1>3, <1>4, <1>5 DEF known
  <1>10. known(P, o) = Got(multispace0(P, q), c)
    BY <1>8, <1>9, GotEnd DEF ThenBlanks
  <1>11. o < q
    BY <1>1
  <1> QED
    BY <1>10, <1>11

\* A printed command is read again, if it was read as a known one.
LEMMA KnownAgain ==
    ASSUME NEW s \in Text, NEW c \in CmdSet, Sourced(s, c), Unbroken(c.tree),
           NEW P \in Text, NEW o \in Nat, o >= 1, Stands(P, o, to_string(c)),
           NEW q \in Nat, q = o + Len(to_string(c))
    PROVE  known(P, o) = Got(multispace0(P, q), c) /\ o < q /\ P[o] \notin Blanks /\ q \in Place(P)
  <1>1. c.kind # "Generic"
    BY DEF Sourced
  <1>2. PICK b, p, t : b \in Text /\ p \in Text /\ b = Body(c) /\ p = <<")">> /\ t = to_string(c) /\ Joins(t, b, p)
    <2>1. <<")">> \in Text
      BY PieceTypes, OneIn DEF Text
    <2>2. Body(c) \in Text /\ Joins(to_string(c), Body(c), <<")">>)
      BY <1>1, BodyIs
    <2> QED
      BY <2>1, <2>2
  <1>3. Len(t) = Len(b) + Len(p) /\ Len(b) \in Nat /\ Len(p) = 1 /\ Len(P) \in Nat
    BY <1>2, JoinIs, TextType DEF Joins, Text
  <1>4. PICK h \in Nat : h = o + Len(b)
    BY <1>3
  <1>5. Stands(P, o, b) /\ Stands(P, h, p)
    <2>1. Stands(P, o, b \o p)
      BY <1>2 DEF Joins
    <2> QED
      BY <1>2, <1>4, <2>1, StandsJoin DEF Text
  <1>6. h <= Len(P) /\ P[h] = ")"
    <2>1. Stands(P, h, <<")">>)
      BY <1>2, <1>5
    <2> QED
      BY <2>1, StandsOne DEF Text
  <1>7. From(P, o, h, b)
    BY <1>4, <1>5, <1>6 DEF From
  <1>8. Within(P, o, h, c)
    BY <1>2, <1>6, <1>7, BodyWithin
  <1>9. q = h + 1
    BY <1>2, <1>3, <1>4
  <1>10. known(P, o) = Got(multispace0(P, q), c) /\ o < q
    BY <1>6, <1>8, <1>9, KnownWithin
  <1>11. P[o] = "("
    BY <1>8 DEF Within
  <1>12. P[o] \notin Blanks
    BY <1>11 DEF Blanks
  <1>13. q \in Place(P)
    BY <1>3, <1>6, <1>9 DEF Place
  <1> QED
    BY <1>10, <1>12, <1>13

-----------------------------------------------------------------------------
(* Scripts that are printed *)

\* What is read without a failure is known, or stands for itself.
LEMMA CommandIs ==
    ASSUME NEW s \in Text, NEW i \in Place(s), Ok(command(s, i))
    PROVE  \/ command(s, i).val.kind = "Generic"
           \/ Sourced(s, command(s, i).val)
  <1>1. PICK j, p, q : j = multispace0(s, i) /\ p = known(s, j) /\ q = Generic(s, i)
    OBVIOUS
  <1>2. command(s, i) = First(<<p, q>>)
    BY <1>1 DEF command
  <1>3. command(s, i) = p \/ command(s, i) = q
    BY <1>2, First2, GotEnd
  <1>4. j \in Place(s)
    BY <1>1, BlanksAt
  <1>5. CASE command(s, i) = p
    BY <1>1, <1>4, <1>5, KnownIs
  <1>6. CASE command(s, i) = q
    <2>1. PICK r : r = unknown_balanced(s, i)
      OBVIOUS
    <2>2. q = IF Ok(r) THEN Got(r.at, Cmd("Generic", r.val, <<>>)) ELSE r
      BY <1>1, <2>1 DEF Generic, Mapped
    <2>3. q.val = Cmd("Generic", r.val, <<>>)
      BY <1>6, <2>2, GotEnd
    <2> QED
      BY <1>6, <2>3, CmdParts
  <1> QED
    BY <1>3, <1>5, <1>6

LEMMA OneIs ==
    ASSUME NEW s \in Text, NEW i \in Place(s), Ok(One(s, i))
    PROVE  One(s, i).val.kind = "Generic" \/ Sourced(s, One(s, i).val)
  <1>1. PICK j, r : j = multispace0(s, i) /\ r = command(s, j)
    OBVIOUS
  <1>2. One(s, i) = ThenBlanks(s, r)
    BY <1>1 DEF One
  <1>3. Ok(r) /\ One(s, i).val = r.val
    BY <1>2, GotEnd DEF ThenBlanks
  <1>4. j \in Place(s)
    BY <1>1, BlanksAt
  <1> QED
    BY <1>1, <1>3, <1>4, CommandIs

\* Every command of v was read from s, and as a known one unless it is Generic.
Origin(s, v) == \A k \in 1..Len(v) : v[k].kind = "Generic" \/ Sourced(s, v[k])

LEMMA OriginJoin ==
    ASSUME NEW s, NEW v \in Seq(CmdSet), Origin(s, v), NEW c \in CmdSet,
           c.kind = "Generic" \/ Sourced(s, c), NEW x, Joins(x, <<c>>, v)
    PROVE  Origin(s, x)
  <1>1. PICK u \in Seq(CmdSet) : u = <<c>> /\ Len(u) = 1 /\ u[1] = c
    BY OneIn
  <1>2. /\ Len(x) = Len(u) + Len(v) /\ Len(v) \in Nat
        /\ \A k \in 1..Len(u) : x[k] = u[k]
        /\ \A k \in 1..Len(v) : x[Len(u) + k] = v[k]
    BY <1>1, JoinIs DEF Joins
  <1>3. ASSUME NEW k \in 1..Len(x) PROVE x[k].kind = "Generic" \/ Sourced(s, x[k])
    <2>1. CASE k = 1
      <3>1. x[k] = c
        BY <1>1, <1>2, <2>1
      <3> QED
        BY <3>1
    <2>2. CASE k # 1
      <3>1. PICK m \in 1..Len(v) : 1 + m = k
        <4>1. k - 1 \in 1..Len(v) /\ 1 + (k - 1) = k
          BY <1>1, <1>2, <2>2
        <4> QED
          BY <4>1
      <3>2. x[k] = v[m]
        BY <1>1, <1>2, <3>1
      <3> QED
        BY <3>2 DEF Origin
    <2> QED
      BY <2>1, <2>2
  <1> QED
    BY <1>3 DEF Origin

LEMMA ScriptOrigin ==
    ASSUME NEW s \in Text, Ok(script(s))
    PROVE  Origin(s, script(s).val)
  <1> DEFINE n == Len(s) + 1
             C == Commands(s)
             T == {i \in 1..n : Ok(C[i]) => C[i].val \in Seq(CmdSet) /\ Origin(s, C[i].val)}
  <1>1. n \in Nat /\ Place(s) = 1..n /\ 1 \in 1..n
    BY TextType DEF Place
  <1>2. ASSUME NEW i \in 1..n, Ok(C[i])
        PROVE  LET r == One(s, i)
               IN  \/ r = None /\ C[i] = Got(i, <<>>)
                   \/ /\ Ok(r) /\ r.at \in (i + 1)..n /\ r.val \in CmdSet /\ Ok(C[r.at])
                      /\ C[i] = Got(C[r.at].at, <<r.val>> \o C[r.at].val)
    BY <1>1, <1>2, CommandsAt
  <1>3. ASSUME NEW i \in 1..n, \A k \in (i + 1)..n : k \in T PROVE i \in T
    <2> DEFINE r == One(s, i)
    <2> SUFFICES ASSUME Ok(C[i]) PROVE C[i].val \in Seq(CmdSet) /\ Origin(s, C[i].val)
      OBVIOUS
    <2>1. \/ r = None /\ C[i] = Got(i, <<>>)
          \/ /\ Ok(r) /\ r.at \in (i + 1)..n /\ r.val \in CmdSet /\ Ok(C[r.at])
             /\ C[i] = Got(C[r.at].at, <<r.val>> \o C[r.at].val)
      BY <1>2
    <2>2. CASE r = None /\ C[i] = Got(i, <<>>)
      <3>1. C[i].val = <<>>
        BY <2>2, GotEnd
      <3>2. <<>> \in Seq(CmdSet) /\ Len(<<>>) = 0
        OBVIOUS
      <3> QED
        BY <3>1, <3>2 DEF Origin
    <2>3. CASE /\ Ok(r) /\ r.at \in (i + 1)..n /\ r.val \in CmdSet /\ Ok(C[r.at])
               /\ C[i] = Got(C[r.at].at, <<r.val>> \o C[r.at].val)
      <3>1. r.at \in T
        BY <1>3, <2>3
      <3>2. PICK v \in Seq(CmdSet) : v = C[r.at].val /\ Origin(s, v)
        BY <2>3, <3>1
      <3>3. PICK x : Joins(x, <<r.val>>, v) /\ C[i] = Got(C[r.at].at, x)
        BY <2>3, <3>2 DEF Joins
      <3>4. r.val.kind = "Generic" \/ Sourced(s, r.val)
        BY <1>1, <2>3, OneIs
      <3>5. Origin(s, x)
        <4> HIDE DEF r
        <4> QED
          BY <2>3, <3>2, <3>3, <3>4, OriginJoin
      <3>6. x \in Seq(CmdSet)
        <4> HIDE DEF r
        <4> QED
          BY <2>3, <3>2, <3>3, OneIn, JoinIs DEF Joins
      <3>7. C[i].val = x
        BY <3>3, GotEnd
      <3> QED
        BY <3>5, <3>6, <3>7
    <2> QED
      BY <2>1, <2>2, <2>3
  <1>4. \A i \in 1..n : i \in T
    <2> HIDE DEF T, n
    <2> QED
      BY <1>1, <1>3, Downward
  <1>5. script(s) = C[1]
    BY ScriptIs
  <1> QED
    BY <1>1, <1>4, <1>5

\* There is no command at the end.
LEMMA NoneAtEnd ==
    ASSUME NEW s \in Text, NEW i \in Place(s), i = Len(s) + 1
    PROVE  One(s, i) = None
  <1>1. multispace0(s, i) = i /\ Len(s) \in Nat
    BY BlanksAt, TextType
  <1>2. known(s, i) = None
    <2>1. Tag(s, i, <<"(">>) = None
      BY <1>1, TagOne
    <2> QED
      BY <2>1, GotEnd DEF known
  <1>3. PICK r : r = unknown_balanced(s, i)
    OBVIOUS
  <1>4. r = None
    <2>1. RunUntil(s, i, Parens) = i
      <3>1. RunsUntil(s, i, Parens, i)
        BY <1>1 DEF RunsUntil
      <3> QED
        BY <1>1, <3>1, RunUntilIs
    <2>2. PICK E : E = Ends(s)
      OBVIOUS
    <2>3. ~(i <= Len(s)) /\ i \in Nat
      BY <1>1 DEF Place
    <2>4. Unknown(s, i, E) = None
      BY <2>1, <2>3, UnknownIs
    <2> QED
      BY <1>3, <2>2, <2>4 DEF unknown_balanced
  <1>5. Generic(s, i) = None
    BY <1>3, <1>4, GotEnd DEF Generic, Mapped
  <1>6. command(s, i) = None
    <2>1. command(s, i) = First(<<known(s, i), Generic(s, i)>>)
      BY <1>1 DEF command
    <2> QED
      BY <1>2, <1>5, <2>1, First2, GotEnd
  <1> QED
    BY <1>1, <1>6, GotEnd DEF One, ThenBlanks

\* The places f of the texts in P, which has a line break between two of them.
Lined(P, texts, f) ==
    /\ f \in [1..(Len(texts) + 1) -> Nat]
    /\ f[1] = 1 /\ f[Len(texts) + 1] = Len(P) + 1
    /\ \A k \in 1..Len(texts) : f[k] >= 1 /\ Stands(P, f[k], texts[k])
    /\ \A k \in 1..Len(texts), m \in Nat, q \in Nat :
        m = k + 1 /\ q = f[k] + Len(texts[k]) =>
            /\ k = Len(texts) => f[m] = q
            /\ k < Len(texts) => f[m] = q + 1 /\ P[q] = "nl"

LEMMA JoinedLined ==
    ASSUME NEW texts \in Seq(Text), NEW P, P = Joined(texts, "nl")
    PROVE  P \in Text /\ \E f : Lined(P, texts, f)
  <1> DEFINE seqs == [k \in DOMAIN texts |-> IF k = 1 THEN texts[k] ELSE <<"nl">> \o texts[k]]
             n == Len(texts)
  <1>1. DOMAIN texts = 1..n /\ n \in Nat /\ \A k \in 1..n : texts[k] \in Seq(Pieces)
    BY DEF Text
  <1>2. <<"nl">> \in Seq(Pieces) /\ Len(<<"nl">>) = 1
    BY PieceTypes, OneIn
  <1>3. \A k \in 1..n : <<"nl">> \o texts[k] \in Seq(Pieces)
    BY <1>1, <1>2, JoinIs
  <1>4. seqs \in Seq(Seq(Pieces)) /\ Len(seqs) = n
    <2>1. seqs \in [1..n -> Seq(Pieces)]
      BY <1>1, <1>3
    <2> QED
      BY <1>1, <2>1
  <1>5. \A k \in 1..n : seqs[k] = IF k = 1 THEN texts[k] ELSE <<"nl">> \o texts[k]
    BY <1>1
  <1>6. P = FlattenSeq(seqs)
    BY DEF Joined
  <1>7. P \in Text
    BY JoinedType, PieceTypes
  <1>8. PICK sq \in Seq(Seq(Pieces)) : sq = seqs
    BY <1>4
  <1>9. PICK e : e = [k \in 0..n |-> EndOfPart(sq, k)]
    OBVIOUS
  <1>10. /\ Len(sq) = n /\ P = FlattenSeq(sq)
         /\ \A k \in 1..n : sq[k] = IF k = 1 THEN texts[k] ELSE <<"nl">> \o texts[k]
    BY <1>4, <1>5, <1>6, <1>8
  <1> HIDE DEF seqs
  <1>11. /\ \A k \in 0..n : e[k] = EndOfPart(sq, k) /\ e[k] \in Nat
         /\ e[0] = 0 /\ e[n] = Len(P)
         /\ \A k \in 1..n, m \in 0..n : k = m + 1 => e[k] = e[m] + Len(sq[k])
    <2>1. \A k \in 0..n : e[k] = EndOfPart(sq, k)
      BY <1>9
    <2>2. /\ EndOfPart(sq, 0) = 0 /\ EndOfPart(sq, n) = Len(P)
          /\ \A k \in 0..n : EndOfPart(sq, k) \in Nat
      BY <1>10, PartsEnd
    <2>3. ASSUME NEW k \in 1..n, NEW m \in 0..n, k = m + 1 PROVE e[k] = e[m] + Len(sq[k])
      <3>1. EndOfPart(sq, k) = EndOfPart(sq, k - 1) + Len(sq[k])
        BY <1>10, PartsEnd
      <3>2. k - 1 = m /\ k \in 0..n
        BY <1>1, <2>3
      <3> QED
        BY <2>1, <3>1, <3>2
    <2>4. 0 \in 0..n /\ n \in 0..n
      BY <1>1
    <2> QED
      BY <2>1, <2>2, <2>3, <2>4
  <1>12. ASSUME NEW k \in 1..n, NEW m \in 0..n, k = m + 1
         PROVE  Stands(P, e[m] + 1, sq[k])
    <2>1. Stands(FlattenSeq(sq), EndOfPart(sq, k - 1) + 1, sq[k])
      BY <1>10, PartStands
    <2>2. k - 1 = m
      BY <1>1, <1>12
    <2>3. e[m] = EndOfPart(sq, k - 1)
      BY <1>11, <2>2
    <2> QED
      BY <1>10, <2>1, <2>3
  <1>13. PICK g : g = [k \in 1..(n + 1) |-> IF k = 1 THEN 1 ELSE IF k = n + 1 THEN Len(P) + 1
                                           ELSE e[k - 1] + 2]
    OBVIOUS
  <1>14. /\ g[1] = 1
         /\ n # 0 => g[n + 1] = Len(P) + 1
         /\ \A k \in 1..n, m \in 0..n : k = m + 1 /\ k # 1 => g[k] = e[m] + 2
    BY <1>1, <1>13
  <1>15. g \in [1..(n + 1) -> Nat]
    <2>1. Len(P) + 1 \in Nat
      BY <1>7, TextType
    <2>2. ASSUME NEW k \in 1..(n + 1), k # 1 PROVE e[k - 1] + 2 \in Nat
      <3>1. PICK m \in 0..n : m = k - 1
        <4>1. k - 1 \in 0..n
          BY <1>1, <2>2
        <4> QED
          BY <4>1
      <3>2. e[m] \in Nat
        BY <1>11
      <3> QED
        BY <3>1, <3>2
    <2> QED
      BY <1>13, <2>1, <2>2
  <1>16. ASSUME NEW k \in 1..n, NEW m \in 0..n, k = m + 1
         PROVE  /\ g[k] >= 1 /\ Stands(P, g[k], texts[k])
                /\ g[k] + Len(texts[k]) = e[k] + 1
                /\ k # 1 => P[e[m] + 1] = "nl"
    <2>1. PICK b \in Seq(Pieces), t \in Seq(Pieces) : b = <<"nl">> /\ Len(b) = 1 /\ t = texts[k]
      BY <1>1, <1>2
    <2>2. Len(t) \in Nat /\ e[m] \in Nat /\ e[k] = e[m] + Len(sq[k]) /\ Stands(P, e[m] + 1, sq[k])
      BY <1>11, <1>12, <1>16
    <2>3. CASE k = 1
      <3>1. sq[k] = t /\ m = 0 /\ e[m] = 0 /\ g[k] = 1
        BY <1>10, <1>11, <1>14, <1>16, <2>1, <2>3
      <3> QED
        BY <2>1, <2>2, <2>3, <3>1
    <2>4. CASE k # 1
      <3>1. sq[k] = b \o t /\ g[k] = e[m] + 2
        BY <1>10, <1>14, <1>16, <2>1, <2>4
      <3>2. Len(sq[k]) = Len(t) + 1
        BY <2>1, <3>1, JoinIs
      <3>3. PICK h \in Nat : h = e[m] + 1
        BY <2>2
      <3>4. Stands(P, h, b) /\ Stands(P, h + Len(b), t)
        <4>1. Stands(P, h, b \o t)
          BY <2>2, <3>1, <3>3
        <4> QED
          BY <1>7, <4>1, StandsJoin DEF Text
      <3>5. P[h] = "nl"
        <4>1. Stands(P, h, <<"nl">>)
          BY <2>1, <3>4
        <4> QED
          BY <1>7, <4>1, StandsOne DEF Text
      <3>6. g[k] = h + Len(b)
        BY <2>1, <2>2, <3>1, <3>3
      <3>7. g[k] >= 1 /\ g[k] + Len(t) = e[k] + 1
        BY <2>2, <3>1, <3>2
      <3> QED
        BY <2>1, <3>3, <3>4, <3>5, <3>6, <3>7
    <2> QED
      BY <2>3, <2>4
  <1>17. ASSUME NEW k \in 1..n, NEW m \in Nat, NEW q \in Nat, m = k + 1, q = g[k] + Len(texts[k])
         PROVE  /\ k = n => g[m] = q
                /\ k < n => g[m] = q + 1 /\ P[q] = "nl"
    <2>1. PICK l \in 0..n : k = l + 1
      <3>1. k - 1 \in 0..n /\ k = k - 1 + 1
        BY <1>1
      <3> QED
        BY <3>1
    <2>2. q = e[k] + 1 /\ k \in 0..n /\ e[k] \in Nat
      BY <1>1, <1>11, <1>16, <1>17, <2>1
    <2>3. CASE k = n
      <3>1. n # 0 /\ m = n + 1
        BY <1>1, <1>17, <2>3
      <3>2. g[m] = Len(P) + 1
        BY <1>14, <3>1
      <3> QED
        BY <1>11, <2>2, <2>3, <3>2
    <2>4. CASE k < n
      <3>1. m \in 1..n /\ m # 1
        BY <1>1, <1>17, <2>4
      <3>2. g[m] = e[k] + 2 /\ P[e[k] + 1] = "nl"
        BY <1>14, <1>16, <1>17, <2>2, <3>1
      <3> QED
        BY <2>2, <2>4, <3>2
    <2> QED
      BY <2>3, <2>4
  <1>18. g[n + 1] = Len(P) + 1
    <2>1. n = 0 => Len(P) = 0
      BY <1>11
    <2> QED
      BY <1>1, <1>14, <2>1
  <1>19. \A k \in 1..n : g[k] >= 1 /\ Stands(P, g[k], texts[k])
    <2> SUFFICES ASSUME NEW k \in 1..n PROVE g[k] >= 1 /\ Stands(P, g[k], texts[k])
      OBVIOUS
    <2>1. PICK m \in 0..n : k = m + 1
      <3>1. k - 1 \in 0..n /\ k = k - 1 + 1
        BY <1>1
      <3> QED
        BY <3>1
    <2> QED
      BY <1>16, <2>1
  <1>20. Lined(P, texts, g)
    BY <1>14, <1>15, <1>17, <1>18, <1>19 DEF Lined
  <1> QED
    BY <1>7, <1>20

\* The commands of v from k on.
Rest(v, k) == [j \in 1..(Len(v) + 1 - k) |-> v[j + k - 1]]

LEMMA RestIs ==
    ASSUME NEW S, NEW v \in Seq(S)
    PROVE  /\ Rest(v, 1) = v
           /\ \A m \in Nat : m = Len(v) + 1 => Rest(v, m) = <<>>
           /\ \A k \in 1..Len(v), m \in Nat : m = k + 1 => Joins(Rest(v, k), <<v[k]>>, Rest(v, m))
  <1>1. Len(v) \in Nat /\ \A k \in 1..Len(v) : v[k] \in S
    OBVIOUS
  <1>2. ASSUME NEW k \in Nat, k \in 1..(Len(v) + 1)
        PROVE  /\ Rest(v, k) \in Seq(S) /\ Len(Rest(v, k)) = Len(v) + 1 - k
               /\ \A j \in 1..(Len(v) + 1 - k) : Rest(v, k)[j] = v[j + k - 1]
    <2>1. PICK n \in Nat : n = Len(v) + 1 - k
      BY <1>1, <1>2
    <2>2. \A j \in 1..n : j + k - 1 \in 1..Len(v)
      BY <1>1, <1>2, <2>1
    <2>3. Rest(v, k) = [j \in 1..n |-> v[j + k - 1]]
      BY <2>1 DEF Rest
    <2>4. Rest(v, k) \in [1..n -> S]
      BY <1>1, <2>2, <2>3
    <2>5. Rest(v, k) \in Seq(S) /\ Len(Rest(v, k)) = n
      BY <2>1, <2>3, <2>4
    <2>6. \A j \in 1..n : Rest(v, k)[j] = v[j + k - 1]
      BY <2>3
    <2> QED
      BY <2>1, <2>5, <2>6
  <1>3. Rest(v, 1) = v
    <2>1. PICK r \in Seq(S) : r = Rest(v, 1) /\ Len(r) = Len(v) /\ \A j \in 1..Len(v) : r[j] = v[j]
      <3>1. PICK k \in Nat : k = 1
        OBVIOUS
      <3>2. k \in 1..(Len(v) + 1) /\ Len(v) + 1 - k = Len(v) /\ \A j \in 1..Len(v) : j + k - 1 = j
        BY <1>1, <3>1
      <3>3. /\ Rest(v, k) \in Seq(S) /\ Len(Rest(v, k)) = Len(v) + 1 - k
            /\ \A j \in 1..(Len(v) + 1 - k) : Rest(v, k)[j] = v[j + k - 1]
        BY <1>2, <3>2
      <3>4. \A j \in 1..Len(v) : Rest(v, k)[j] = v[j]
        BY <3>2, <3>3
      <3> QED
        BY <3>1, <3>2, <3>3, <3>4
    <2>2. r = v
      BY <2>1, SeqEqual
    <2> QED
      BY <2>1, <2>2
  <1>4. ASSUME NEW m \in Nat, m = Len(v) + 1 PROVE Rest(v, m) = <<>>
    <2>1. m \in 1..(Len(v) + 1) /\ Len(v) + 1 - m = 0
      BY <1>1, <1>4
    <2>2. Rest(v, m) \in Seq(S) /\ Len(Rest(v, m)) = 0
      BY <1>2, <2>1
    <2> QED
      BY <2>2
  <1>5. ASSUME NEW k \in 1..Len(v), NEW m \in Nat, m = k + 1
        PROVE  Joins(Rest(v, k), <<v[k]>>, Rest(v, m))
    <2>1. k \in Nat /\ k \in 1..(Len(v) + 1) /\ m \in 1..(Len(v) + 1)
      BY <1>1, <1>5
    <2>2. PICK r \in Seq(S), w \in Seq(S) : r = Rest(v, k) /\ w = Rest(v, m)
      BY <1>2, <2>1
    <2>3. /\ Len(r) = Len(v) + 1 - k /\ Len(w) = Len(v) + 1 - m
          /\ \A j \in 1..(Len(v) + 1 - k) : r[j] = v[j + k - 1]
          /\ \A j \in 1..(Len(v) + 1 - m) : w[j] = v[j + m - 1]
      BY <1>2, <2>1, <2>2
    <2>4. PICK u \in Seq(S) : u = <<v[k]>> /\ Len(u) = 1 /\ u[1] = v[k]
      BY <1>1, OneIn
    <2>5. PICK j \in Seq(S) : j = u \o w
      BY JoinIs
    <2>6. /\ Len(j) = Len(u) + Len(w) /\ Len(w) \in Nat
          /\ \A i \in 1..Len(u) : j[i] = u[i]
          /\ \A i \in 1..Len(w) : j[Len(u) + i] = w[i]
      BY <2>5, JoinIs
    <2>7. Len(j) = Len(r)
      BY <1>1, <1>5, <2>3, <2>4, <2>6
    <2>8. ASSUME NEW i \in 1..Len(r) PROVE r[i] = j[i]
      <3>1. CASE i = 1
        <4>1. r[i] = v[i + k - 1] /\ i + k - 1 = k
          BY <2>1, <2>3, <3>1
        <4>2. j[i] = v[k]
          BY <2>4, <2>6, <3>1
        <4> QED
          BY <4>1, <4>2
      <3>2. CASE i # 1
        <4>1. PICK h \in 1..Len(w) : i = 1 + h
          <5>1. i - 1 \in 1..Len(w) /\ i = 1 + (i - 1)
            BY <1>1, <1>5, <2>3, <3>2
          <5> QED
            BY <5>1
        <4>2. j[i] = w[h]
          BY <2>4, <2>6, <4>1
        <4>3. w[h] = v[h + m - 1] /\ r[i] = v[i + k - 1]
          BY <2>3
        <4>4. h + m - 1 = i + k - 1
          BY <1>5, <2>1, <4>1
        <4> QED
          BY <4>2, <4>3, <4>4
      <3> QED
        BY <3>1, <3>2
    <2>9. r = j
      BY <2>7, <2>8, SeqEqual
    <2> QED
      BY <2>2, <2>4, <2>5, <2>9 DEF Joins
  <1> QED
    BY <1>3, <1>4, <1>5

\* The commands were read from s as known ones, and can be told apart again.
Settled(s, cmds) == \A k \in 1..Len(cmds) : Sourced(s, cmds[k]) /\ Unbroken(cmds[k].tree)

LEMMA SettledLined ==
    ASSUME NEW s \in Text, NEW cmds \in Seq(CmdSet), Settled(s, cmds), NEW P, P = Printed(cmds)
    PROVE  P \in Text /\ \E texts, f : /\ Lined(P, texts, f) /\ Len(texts) = Len(cmds)
                                       /\ \A k \in 1..Len(cmds) : texts[k] = to_string(cmds[k])
  <1>1. PICK texts : texts = [k \in DOMAIN cmds |-> to_string(cmds[k])]
    OBVIOUS
  <1>2. DOMAIN cmds = 1..Len(cmds) /\ Len(cmds) \in Nat /\ \A k \in 1..Len(cmds) : cmds[k] \in CmdSet
    OBVIOUS
  <1>3. ASSUME NEW c \in CmdSet, c.kind # "Generic" PROVE to_string(c) \in Text
    <2>1. Body(c) \in Text /\ Joins(to_string(c), Body(c), <<")">>)
      BY <1>3, BodyIs
    <2>2. <<")">> \in Text
      BY PieceTypes, OneIn DEF Text
    <2> QED
      BY <2>1, <2>2, TextJoins DEF Joins
  <1>4. \A k \in 1..Len(cmds) : to_string(cmds[k]) \in Text
    <2> SUFFICES ASSUME NEW k \in 1..Len(cmds) PROVE to_string(cmds[k]) \in Text
      OBVIOUS
    <2>1. cmds[k].kind # "Generic"
      BY DEF Settled, Sourced
    <2> QED
      BY <1>2, <1>3, <2>1
  <1>5. texts \in Seq(Text) /\ Len(texts) = Len(cmds) /\ \A k \in 1..Len(cmds) : texts[k] = to_string(cmds[k])
    <2>1. texts \in [1..Len(cmds) -> Text]
      BY <1>1, <1>2, <1>4
    <2> QED
      BY <1>1, <1>2, <2>1
  <1>6. P = Joined(texts, "nl")
    BY <1>1 DEF Printed
  <1>7. P \in Text /\ \E f : Lined(P, texts, f)
    BY <1>5, <1>6, JoinedLined
  <1> QED
    BY <1>5, <1>7

\* Each printed command is read again, up to the next one.
LEMMA OneAgain ==
    ASSUME NEW s \in Text, NEW cmds \in Seq(CmdSet), Settled(s, cmds), NEW P \in Text, NEW texts, NEW f,
           Lined(P, texts, f), Len(texts) = Len(cmds),
           \A k \in 1..Len(cmds) : texts[k] = to_string(cmds[k]),
           NEW k \in 1..Len(cmds), NEW m \in Nat, m = k + 1
    PROVE  One(P, f[k]) = Got(f[m], cmds[k]) /\ f[k] < f[m] /\ f[k] \in Place(P) /\ f[m] \in Place(P)
  <1>1. Len(cmds) \in Nat /\ Len(P) \in Nat /\ Len(texts) \in Nat
    BY TextType
  <1>2. ASSUME NEW j \in 1..Len(cmds), NEW o \in Nat, o = f[j], NEW q \in Nat, q = f[j] + Len(texts[j])
        PROVE  /\ known(P, o) = Got(multispace0(P, q), cmds[j])
               /\ o < q /\ P[o] \notin Blanks /\ q \in Place(P) /\ o >= 1
    <2>1. PICK c \in CmdSet : c = cmds[j] /\ Sourced(s, c) /\ Unbroken(c.tree) /\ texts[j] = to_string(c)
      BY DEF Settled
    <2>2. o >= 1 /\ Stands(P, o, to_string(c))
      BY <1>2, <2>1 DEF Lined
    <2>3. q = o + Len(to_string(c))
      BY <1>2, <2>1
    <2> QED
      BY <2>1, <2>2, <2>3, KnownAgain
  <1>3. f[k] \in Nat /\ f[m] \in Nat
    <2>1. k \in 1..(Len(texts) + 1) /\ m \in 1..(Len(texts) + 1)
      BY <1>1
    <2> QED
      BY <2>1 DEF Lined
  <1>4. PICK o \in Nat, e \in Nat : o = f[k] /\ e = f[m]
    BY <1>3
  <1>5. PICK q \in Nat : q = f[k] + Len(texts[k])
    <2>1. PICK c \in CmdSet : c = cmds[k] /\ Sourced(s, c) /\ texts[k] = to_string(c)
      BY DEF Settled
    <2>2. c.kind # "Generic"
      BY <2>1 DEF Sourced
    <2>3. to_string(c) \in Text
      <3>1. Body(c) \in Text /\ Joins(to_string(c), Body(c), <<")">>)
        BY <2>2, BodyIs
      <3>2. <<")">> \in Text
        BY PieceTypes, OneIn DEF Text
      <3> QED
        BY <3>1, <3>2, TextJoins DEF Joins
    <2>4. Len(texts[k]) \in Nat
      BY <2>1, <2>3, TextType
    <2> QED
      BY <1>3, <2>4
  <1>6. /\ known(P, o) = Got(multispace0(P, q), cmds[k])
        /\ o < q /\ P[o] \notin Blanks /\ q \in Place(P) /\ o >= 1
    BY <1>2, <1>4, <1>5
  <1>7. q <= Len(P) + 1 /\ q >= 1
    BY <1>1, <1>6 DEF Place
  <1>8. multispace0(P, o) = o /\ o \in Place(P)
    BY <1>1, <1>6, <1>7, NoBlank DEF Place
  <1>9. multispace0(P, q) = e /\ multispace0(P, e) = e /\ o < e /\ e \in Place(P)
    <2>1. CASE k = Len(cmds)
      <3>1. e = q /\ f[Len(texts) + 1] = Len(P) + 1
        BY <1>4, <1>5, <2>1 DEF Lined
      <3>2. e = Len(P) + 1
        BY <1>4, <2>1, <3>1
      <3>3. multispace0(P, q) \in q..(Len(P) + 1)
        BY <1>6, BlanksAt
      <3> QED
        BY <1>1, <1>6, <3>1, <3>2, <3>3
    <2>2. CASE k # Len(cmds)
      <3>1. m \in 1..Len(cmds)
        BY <1>1, <2>2
      <3>2. e = q + 1 /\ P[q] = "nl"
        <4>1. k < Len(texts)
          BY <1>1, <2>2
        <4> QED
          BY <1>4, <1>5, <4>1 DEF Lined
      <3>3. PICK r \in Nat : r = f[m] + Len(texts[m])
        <4>1. PICK c \in CmdSet : c = cmds[m] /\ Sourced(s, c) /\ texts[m] = to_string(c)
          BY <3>1 DEF Settled
        <4>2. c.kind # "Generic"
          BY <4>1 DEF Sourced
        <4>3. to_string(c) \in Text
          <5>1. Body(c) \in Text /\ Joins(to_string(c), Body(c), <<")">>)
            BY <4>2, BodyIs
          <5>2. <<")">> \in Text
            BY PieceTypes, OneIn DEF Text
          <5> QED
            BY <5>1, <5>2, TextJoins DEF Joins
        <4>4. Len(texts[m]) \in Nat
          BY <4>1, <4>3, TextType
        <4> QED
          BY <1>3, <4>4
      <3>4. e < r /\ P[e] \notin Blanks /\ r \in Place(P) /\ e >= 1
        BY <1>2, <1>4, <3>1, <3>3
      <3>5. e <= Len(P) /\ P[q] \in Blanks
        <4>1. r <= Len(P) + 1
          BY <3>4 DEF Place
        <4>2. P[q] \in Blanks
          BY <3>2 DEF Blanks
        <4> QED
          BY <1>1, <3>4, <4>1, <4>2
      <3>6. multispace0(P, q) = e /\ multispace0(P, e) = e
        BY <1>7, <3>2, <3>4, <3>5, NoBlank
      <3>7. o < e /\ e \in Place(P)
        BY <1>1, <1>6, <3>2, <3>4, <3>5 DEF Place
      <3> QED
        BY <3>6, <3>7
    <2> QED
      BY <2>1, <2>2
  <1>10. command(P, o) = Got(e, cmds[k])
    <2>1. PICK p, g : p = known(P, o) /\ g = Generic(P, o)
      OBVIOUS
    <2>2. command(P, o) = First(<<p, g>>)
      BY <1>8, <2>1 DEF command
    <2>3. p.end # "none"
      BY <1>6, <2>1, GotEnd
    <2> QED
      BY <1>6, <1>9, <2>1, <2>2, <2>3, First2
  <1>11. One(P, o) = Got(e, cmds[k])
    BY <1>8, <1>9, <1>10, GotEnd DEF One, ThenBlanks
  <1> QED
    BY <1>4, <1>8, <1>9, <1>11

\* What was read as known commands is read again as the same commands.
LEMMA PrintedAgain ==
    ASSUME NEW s \in Text, NEW cmds \in Seq(CmdSet), Settled(s, cmds), NEW P, P = Printed(cmds)
    PROVE  P \in Text /\ Ok(script(P)) /\ script(P).val = cmds
  <1>1. P \in Text
    BY SettledLined
  <1>2. PICK texts, f : /\ Lined(P, texts, f) /\ Len(texts) = Len(cmds)
                        /\ \A k \in 1..Len(cmds) : texts[k] = to_string(cmds[k])
    BY SettledLined
  <1>3. PICK L \in Nat : L = Len(cmds)
    OBVIOUS
  <1>4. PICK N \in Nat : N = L + 1
    OBVIOUS
  <1>5. PICK e \in Nat : e = Len(P) + 1
    BY <1>1, TextType
  <1>6. f \in [1..N -> Nat] /\ f[1] = 1 /\ f[N] = e
    BY <1>2, <1>3, <1>4, <1>5 DEF Lined
  <1>7. e \in Place(P)
    BY <1>1, <1>5, TextType DEF Place
  <1> DEFINE C == Commands(P)
             T == {k \in 1..N : C[f[k]] = Got(e, Rest(cmds, k))}
  <1>8. C[e] = Got(e, <<>>)
    <2>1. One(P, e) = None
      BY <1>1, <1>5, <1>7, NoneAtEnd
    <2>2. C[e] = ScriptStep(P, e, C)
      BY <1>1, <1>7, CommandsIs
    <2> HIDE DEF C
    <2> QED
      BY <1>1, <1>7, <2>1, <2>2, ScriptStepIs
  <1>9. ASSUME NEW k \in 1..N, \A j \in (k + 1)..N : j \in T PROVE k \in T
    <2>1. CASE k = N
      <3>1. Rest(cmds, k) = <<>>
        BY <1>3, <1>4, <2>1, RestIs
      <3>2. C[f[k]] = Got(e, <<>>)
        BY <1>6, <1>8, <2>1
      <3> QED
        BY <3>1, <3>2
    <2>2. CASE k # N
      <3>1. k \in 1..L
        BY <1>3, <1>4, <2>2
      <3>2. PICK m \in Nat : m = k + 1
        BY <3>1
      <3>3. m \in T
        BY <1>4, <1>9, <3>1, <3>2
      <3>4. C[f[m]] = Got(e, Rest(cmds, m))
        BY <3>3
      <3>5. /\ One(P, f[k]) = Got(f[m], cmds[k])
            /\ f[k] \in Place(P) /\ f[m] \in Place(P)
        BY <1>1, <1>2, <1>3, <3>1, <3>2, OneAgain
      <3>6. C[f[k]] = ScriptStep(P, f[k], C)
        BY <1>1, <3>5, CommandsIs
      <3>7. Joins(Rest(cmds, k), <<cmds[k]>>, Rest(cmds, m))
        BY <1>3, <3>1, <3>2, RestIs
      <3>8. PICK r : r = One(P, f[k])
        OBVIOUS
      <3>9. Ok(r) /\ r # None /\ r # Fatal /\ r.at = f[m] /\ r.val = cmds[k]
        BY <3>5, <3>8, GotEnd
      <3>10. PICK h : h = C
        OBVIOUS
      <3>11. Ok(h[r.at]) /\ h[r.at].at = e /\ h[r.at].val = Rest(cmds, m)
        BY <3>4, <3>9, <3>10, GotEnd
      <3>12. ScriptStep(P, f[k], h) = Got(h[r.at].at, <<r.val>> \o h[r.at].val)
        <4> HIDE DEF C
        <4> QED
          BY <1>1, <3>5, <3>8, <3>9, <3>11, ScriptStepIs
      <3>13. C[f[k]] = Got(e, Rest(cmds, k))
        <4> HIDE DEF C
        <4> QED
          BY <3>6, <3>7, <3>9, <3>10, <3>11, <3>12 DEF Joins
      <3> QED
        BY <3>13
    <2> QED
      BY <2>1, <2>2
  <1>10. \A k \in 1..N : k \in T
    <2> HIDE DEF T
    <2> QED
      BY <1>4, <1>9, Downward
  <1>11. C[f[1]] = Got(e, Rest(cmds, 1))
    <2>1. 1 \in 1..N
      BY <1>4
    <2> QED
      BY <1>10, <2>1
  <1>12. script(P) = C[1]
    BY <1>1, ScriptIs
  <1>13. Rest(cmds, 1) = cmds
    BY RestIs
  <1> QED
    BY <1>1, <1>6, <1>11, <1>12, <1>13, GotEnd

-----------------------------------------------------------------------------
(* The files *)

Parsed == {"parsed", "no second parse", "unequal", "equal"}

\* What the variables hold at each stage.
StageInv ==
    /\ stage \in {"next", "read", "stripped", "parsed", "equal", "ended"} \cup Panics
    /\ stage \in {"read", "no parts"} => sample \in Text
    /\ stage = "no parts" => ~Ok(rmv_comments(sample))
    /\ stage \in {"stripped", "parse error"} \cup Parsed => contents_ \in Text
    /\ stage = "parse error" => ~Ok(script(contents_))
    /\ stage \in Parsed => Ok(a) /\ a = script(contents_)

LEMMA StageInductive ==
    /\ Init => StageInv
    /\ StageInv /\ [Next]_vars => StageInv'
  <1>1. ASSUME Init PROVE StageInv
    BY <1>1 DEF Init, StageInv, Parsed, Panics
  <1>2. ASSUME StageInv, ReadFile PROVE StageInv'
    BY <1>2, SamplesAssumption DEF StageInv, ReadFile, Parsed, Panics, Text
  <1>3. ASSUME StageInv, CannotRead PROVE StageInv'
    BY <1>3 DEF StageInv, CannotRead, Parsed, Panics
  <1>4. ASSUME StageInv, RemoveComments PROVE StageInv'
    <2>1. sample \in Text /\ sample' = sample
      BY <1>4 DEF StageInv, RemoveComments
    <2>2. Ok(rmv_comments(sample)) => rmv_comments(sample).val \in Text
      BY <2>1, Stripped
    <2> QED
      BY <1>4, <2>1, <2>2 DEF StageInv, RemoveComments, Parsed, Panics
  <1>5. ASSUME StageInv, Parse PROVE StageInv'
    BY <1>5 DEF StageInv, Parse, Parsed, Panics
  <1>6. ASSUME StageInv, Compare PROVE StageInv'
    BY <1>6 DEF StageInv, Compare, Parsed, Panics
  <1>7. ASSUME StageInv, NextFile PROVE StageInv'
    BY <1>7 DEF StageInv, NextFile, Parsed, Panics
  <1>8. ASSUME StageInv, EndOfDir PROVE StageInv'
    BY <1>8 DEF StageInv, EndOfDir, Parsed, Panics
  <1>9. ASSUME StageInv, Stopped \/ UNCHANGED vars PROVE StageInv'
    BY <1>9 DEF StageInv, Stopped, vars, Parsed, Panics
  <1> QED
    BY <1>1, <1>2, <1>3, <1>4, <1>5, <1>6, <1>7, <1>8, <1>9 DEF Next

LEMMA StageAlways == Spec => []StageInv
  BY StageInductive, PTL DEF Spec

LEMMA StageImplies == StageInv => StopsAtImbalance /\ PartsExplained /\ DigitsExplained
  <1> SUFFICES ASSUME StageInv PROVE StopsAtImbalance /\ PartsExplained /\ DigitsExplained
    OBVIOUS
  <1>1. StopsAtImbalance
    <2> SUFFICES ASSUME Compared, Left(contents_, a) # <<>>
                 PROVE  LET left == Left(contents_, a)
                        IN  \/ left[1] = ")"
                            \/ left[1] = "(" /\ \A k \in DOMAIN left :
                                                    Surplus(left, "(", ")", k) > 0
      BY DEF StopsAtImbalance
    <2>1. contents_ \in Text /\ Ok(script(contents_)) /\ a = script(contents_)
      BY DEF StageInv, Compared, Parsed
    <2> QED
      BY <2>1, LeftOver
  <1>2. PartsExplained
    BY Stripped DEF StageInv, PartsExplained
  <1>3. DigitsExplained
    <2> SUFFICES ASSUME stage = "parse error"
                 PROVE  \E k \in DOMAIN contents_ : BareExponent(contents_, k)
      BY DEF DigitsExplained
    <2>1. contents_ \in Text /\ ~Ok(script(contents_))
      BY DEF StageInv
    <2> QED
      BY <2>1, MildScript DEF Calm
  <1> QED
    BY <1>1, <1>2, <1>3

-----------------------------------------------------------------------------
(* The second parse and its assertion *)

\* What the second parse has found, and how it was judged.
AgainInv ==
    /\ StageInv
    /\ stage \in {"no second parse", "unequal"} => again = script(Printed(a.val))
    /\ stage = "no second parse" => ~Ok(again)
    /\ stage = "unequal" => a.val # again.val

LEMMA AgainInductive ==
    /\ Init => AgainInv
    /\ AgainInv /\ [Next]_vars => AgainInv'
  <1>1. Init => AgainInv
    BY StageInductive DEF Init, AgainInv
  <1>2. ASSUME AgainInv, [Next]_vars PROVE AgainInv'
    <2>1. StageInv'
      BY <1>2, StageInductive DEF AgainInv
    <2>2. ASSUME stage' \in {"no second parse", "unequal"}
          PROVE  Compare \/ Stopped \/ UNCHANGED vars
      BY <1>2, <2>2 DEF Next, ReadFile, CannotRead, RemoveComments, Parse, NextFile, EndOfDir
    <2>3. CASE Compare
      BY <2>1, <2>3 DEF Compare, AgainInv
    <2>4. CASE Stopped \/ UNCHANGED vars
      BY <1>2, <2>1, <2>4 DEF AgainInv, Stopped, vars
    <2> QED
      BY <2>1, <2>2, <2>3, <2>4 DEF AgainInv
  <1> QED
    BY <1>1, <1>2

LEMMA CmdsDomain == \A v \in Seq(CmdSet) : DOMAIN v = 1..Len(v)
  OBVIOUS

LEMMA AgainImplies == AgainInv => OddsExplained
  <1> SUFFICES ASSUME AgainInv, stage \in {"no second parse", "unequal"}, ~OddCommand
               PROVE  FALSE
    BY DEF OddsExplained
  <1>1. contents_ \in Text /\ Ok(script(contents_)) /\ a = script(contents_)
    BY DEF AgainInv, StageInv, Parsed
  <1>2. PICK v \in Seq(CmdSet) : v = a.val
    BY <1>1, ScriptEnd
  <1>3. Origin(contents_, v)
    BY <1>1, <1>2, ScriptOrigin
  <1>4. Settled(contents_, v)
    <2>1. DOMAIN v = 1..Len(v)
      BY <1>2, CmdsDomain, Zenon
    <2> QED
      BY <1>2, <1>3, <2>1 DEF Origin, Settled, OddCommand
  <1>5. Ok(script(Printed(v))) /\ script(Printed(v)).val = v
    BY <1>1, <1>4, PrintedAgain
  <1> QED
    BY <1>2, <1>5 DEF AgainInv

-----------------------------------------------------------------------------
(* What the parser leaves, and the reasons to panic *)

\* For every set of samples: what script leaves of a text begins with a
\* parenthesis that closes nothing or one that is never closed (lib.rs:268-280,
\* 295).
THEOREM Stops == Spec => []StopsAtImbalance
  BY StageAlways, StageImplies, PTL

\* For every set of samples: rmv_comments finds no parts only in an empty file or
\* in one comment without its line break (lib.rs:302), script fails only at a
\* number whose exponent has no digits (lib.rs:165), and the second parse or the
\* assertion of exec (308-320) only over a command that was left unknown or a
\* symbol that begins with a quote.  Any other script is read again as it was,
\* though the parser looks for prefixes and wants no blanks (206-295).
THEOREM Explained == Spec => []PanicsExplained
  <1>1. Spec => []AgainInv
    BY AgainInductive, PTL DEF Spec
  <1>2. AgainInv => PanicsExplained
    BY StageImplies, AgainImplies DEF AgainInv, PanicsExplained
  <1> QED
    BY <1>1, <1>2, PTL
=============================================================================
