--------------------------- MODULE TreeWalkProofs ---------------------------
(***************************************************************************)
(* What holds of every tree walk: the tokens are read in order, the exits  *)
(* are nested, and at the end everything is left.                          *)
(***************************************************************************)
EXTENDS TreeWalk, SequenceTheorems, TLAPS

\* An open rule points at its entry.
PointsAtEntry ==
    \A d \in DOMAIN open :
        /\ open[d].since \in DOMAIN heard
        /\ heard[open[d].since].ev = "enter"
        /\ heard[open[d].since].rule = open[d].rule
\* The entries grow with the depth.
DeeperIsLater ==
    \A d, e \in DOMAIN open : d < e => open[d].since < open[e].since
\* Once a rule is entered, no exit answers it or an entry before it while it
\* is open.
NotLeftYet ==
    \A j \in DOMAIN heard : heard[j].ev = "exit" =>
        \A d \in DOMAIN open : j < open[d].since \/ open[d].since < heard[j].at
\* An entry is open or answered.
OpenOrLeft ==
    \A i \in DOMAIN heard : heard[i].ev = "enter" =>
        \/ \E d \in DOMAIN open : open[d].since = i
        \/ \E j \in DOMAIN heard : heard[j].ev = "exit" /\ heard[j].at = i

NestInv == Nested /\ PointsAtEntry /\ DeeperIsLater /\ NotLeftYet /\ OpenOrLeft

LEMMA Difference ==
    \A a, b \in Nat : a <= b => \E n \in Nat : n = b - a /\ b = a + n
    OBVIOUS

-----------------------------------------------------------------------------
LEMMA TypeInit == Init => TypeOK
<1> SUFFICES ASSUME Init PROVE TypeOK
    OBVIOUS
<1>1. PICK r \in Rules :
          /\ open = <<[rule |-> r, since |-> 1]>>
          /\ heard = <<[ev |-> "enter", rule |-> r, at |-> 0]>>
          /\ read = 0
    BY DEF Init
<1> QED
    BY <1>1 DEF TypeOK, Event, OpenRule

LEMMA TopType == TypeOK /\ open # <<>> =>
                    Len(open) \in DOMAIN open /\ Top \in OpenRule
    BY DEF TypeOK, Top

\* A recovery loses some number of tokens.
LEMMA LoseSome ==
    ASSUME TypeOK, Lose
    PROVE  \E n \in Nat :
             /\ read' = read + n
             /\ heard' = heard \o [k \in 1..n |->
                    [ev |-> "lost", rule |-> Top.rule, at |-> read + k]]
<1>1. /\ read \in Nat /\ read' \in Nat /\ read <= read'
      /\ heard' = heard \o [k \in 1..(read' - read) |->
                    [ev |-> "lost", rule |-> Top.rule, at |-> read + k]]
    BY DEF Lose, TypeOK
<1>2. PICK n \in Nat : n = read' - read /\ read' = read + n
    BY <1>1, Difference
<1> QED
    BY <1>1, <1>2, Zenon

LEMMA TypeNext == TypeOK /\ [Next]_vars => TypeOK'
<1> SUFFICES ASSUME TypeOK, [Next]_vars PROVE TypeOK'
    OBVIOUS
<1>0. TypeOK
    OBVIOUS
<1>1. ASSUME NEW r \in Rules, Enter(r) PROVE TypeOK'
    BY <1>1 DEF TypeOK, Enter, Hear, Event, OpenRule
<1>2. CASE Leaf
    BY <1>2, TopType DEF TypeOK, Leaf, Hear, Event, OpenRule
<1>3. CASE Missing
    BY <1>3, TopType DEF TypeOK, Missing, Hear, Event, OpenRule
<1>4. CASE Lose
  <2>1. PICK n \in Nat :
          /\ read' = read + n
          /\ heard' = heard \o [k \in 1..n |->
                    [ev |-> "lost", rule |-> Top.rule, at |-> read + k]]
      BY <1>4, LoseSome
  <2> DEFINE lost == [k \in 1..n |->
                    [ev |-> "lost", rule |-> Top.rule, at |-> read + k]]
  <2>2. lost \in Seq(Event)
    <3>1. Top.rule \in Rules /\ read \in Nat
        BY <1>4, TopType DEF Lose, OpenRule, TypeOK
    <3>2. \A k \in 1..n :
            [ev |-> "lost", rule |-> Top.rule, at |-> read + k] \in Event
        BY <3>1 DEF Event
    <3> QED
        BY <3>2
  <2>3. read' \in Nat /\ open' = open
      BY <1>4, <2>1 DEF Lose, TypeOK
  <2>4. heard' \in Seq(Event)
      BY <2>1, <2>2, ConcatProperties DEF TypeOK
  <2> QED
      BY <2>3, <2>4 DEF TypeOK
<1>5. CASE Exit
  <2>1. /\ open # <<>> /\ UNCHANGED read
        /\ heard' = Append(heard, [ev |-> "exit", rule |-> Top.rule, at |-> Top.since])
        /\ open' = SubSeq(open, 1, Len(open) - 1)
      BY <1>5 DEF Exit, Hear
  <2>2. [ev |-> "exit", rule |-> Top.rule, at |-> Top.since] \in Event
      BY <2>1, TopType DEF Event, OpenRule
  <2>3. open' \in Seq(OpenRule)
    <3>1. /\ open \in Seq(OpenRule) /\ Len(open) \in Nat
          /\ \A i \in 1..(Len(open) - 1) : open[i] \in OpenRule
        BY DEF TypeOK
    <3> QED
        BY <2>1, <3>1
  <2> QED
      BY <2>1, <2>2, <2>3 DEF TypeOK
<1>6. CASE UNCHANGED vars
    BY <1>6 DEF vars, TypeOK
<1> QED
    BY <1>1, <1>2, <1>3, <1>4, <1>5, <1>6 DEF Next

\* A Hear puts one call behind the others.
LEMMA Heard ==
    ASSUME TypeOK, NEW STATE e, Hear(e)
    PROVE  /\ Len(heard') = Len(heard) + 1
           /\ DOMAIN heard' = 1..(Len(heard) + 1)
           /\ DOMAIN heard = 1..Len(heard)
           /\ heard'[Len(heard) + 1] = e
           /\ \A i \in DOMAIN heard : heard'[i] = heard[i]
    BY DEF TypeOK, Hear

LEMMA Lost ==
    ASSUME TypeOK, Lose
    PROVE  \E n \in Nat :
             /\ read' = read + n
             /\ DOMAIN heard' = 1..(Len(heard) + n)
             /\ DOMAIN heard = 1..Len(heard)
             /\ \A i \in 1..Len(heard) : heard'[i] = heard[i]
             /\ \A k \in 1..n :
                  heard'[Len(heard) + k] =
                    [ev |-> "lost", rule |-> Top.rule, at |-> read + k]
<1>1. PICK n \in Nat :
          /\ read' = read + n
          /\ heard' = heard \o [k \in 1..n |->
                    [ev |-> "lost", rule |-> Top.rule, at |-> read + k]]
    BY LoseSome
<1> DEFINE lost == [k \in 1..n |->
                    [ev |-> "lost", rule |-> Top.rule, at |-> read + k]]
<1>2. heard' = heard \o lost /\ heard \in Seq(Event)
    BY <1>1 DEF TypeOK
<1>3. /\ lost \in Seq(Event) /\ Len(lost) = n
      /\ \A k \in 1..n :
            lost[k] = [ev |-> "lost", rule |-> Top.rule, at |-> read + k]
  <2>1. Top.rule \in Rules /\ read \in Nat
      BY TopType DEF Lose, OpenRule, TypeOK
  <2>2. \A k \in 1..n :
            [ev |-> "lost", rule |-> Top.rule, at |-> read + k] \in Event
      BY <2>1 DEF Event
  <2> QED
      BY <2>2
<1> HIDE DEF lost
<1>4. /\ Len(heard') = Len(heard) + n
      /\ \A i \in 1..(Len(heard) + n) :
            heard'[i] = IF i <= Len(heard) THEN heard[i] ELSE lost[i - Len(heard)]
      /\ heard' \in Seq(Event)
    BY <1>2, <1>3, ConcatProperties
<1>5. Len(heard) \in Nat /\ DOMAIN heard = 1..Len(heard)
    BY <1>2
<1>6. DOMAIN heard' = 1..(Len(heard) + n)
    BY <1>4
<1>7. \A i \in 1..Len(heard) : heard'[i] = heard[i]
    BY <1>4, <1>5
<1>8. \A k \in 1..n : heard'[Len(heard) + k] = lost[k]
  <2>1. \A k \in 1..n : /\ Len(heard) + k \in 1..(Len(heard) + n)
                        /\ ~(Len(heard) + k <= Len(heard))
                        /\ (Len(heard) + k) - Len(heard) = k
      BY <1>5
  <2> QED
      BY <1>4, <2>1
<1> QED
    BY <1>1, <1>3, <1>5, <1>6, <1>7, <1>8

-----------------------------------------------------------------------------
LEMMA OrderInit == Init => InOrder
<1> SUFFICES ASSUME Init PROVE InOrder
    OBVIOUS
<1>1. PICK r \in Rules :
          /\ heard = <<[ev |-> "enter", rule |-> r, at |-> 0]>>
          /\ read = 0
    BY DEF Init
<1> QED
    BY <1>1 DEF InOrder, Reads

\* A call that is no reading leaves the order alone.
LEMMA OrderHear ==
    ASSUME TypeOK, InOrder, NEW STATE e, Hear(e), ~Reads(e), UNCHANGED read
    PROVE  InOrder'
    BY Heard DEF InOrder, Reads

LEMMA OrderNext == TypeOK /\ InOrder /\ [Next]_vars => InOrder'
<1> SUFFICES ASSUME TypeOK, InOrder, [Next]_vars PROVE InOrder'
    OBVIOUS
<1>0. read \in Nat /\ Len(heard) \in Nat
    BY DEF TypeOK
<1>1. ASSUME NEW r \in Rules, Enter(r) PROVE InOrder'
    BY <1>1, OrderHear DEF Enter, Reads
<1>2. CASE Leaf
  <2> DEFINE e == [ev |-> "leaf", rule |-> Top.rule, at |-> read + 1]
  <2>1. Hear(e) /\ read' = read + 1 /\ Reads(e) /\ e.at = read + 1
      BY <1>2 DEF Leaf, Reads
  <2> HIDE DEF e
  <2>2. \A i \in DOMAIN heard : heard'[i] = heard[i]
      BY <2>1, Heard
  <2>3. /\ DOMAIN heard' = 1..(Len(heard) + 1)
        /\ DOMAIN heard = 1..Len(heard)
        /\ heard'[Len(heard) + 1] = e
      BY <2>1, Heard
  <2> QED
      BY <1>0, <2>1, <2>2, <2>3 DEF InOrder, Reads
<1>3. CASE Missing
    BY <1>3, OrderHear DEF Missing, Reads
<1>4. CASE Lose
  <2>1. PICK n \in Nat :
          /\ read' = read + n
          /\ DOMAIN heard' = 1..(Len(heard) + n)
          /\ DOMAIN heard = 1..Len(heard)
          /\ \A i \in 1..Len(heard) : heard'[i] = heard[i]
          /\ \A k \in 1..n :
               heard'[Len(heard) + k] =
                    [ev |-> "lost", rule |-> Top.rule, at |-> read + k]
      BY <1>4, Lost
  <2> DEFINE L == Len(heard)
  <2>3. L \in Nat /\ DOMAIN heard' = 1..(L + n) /\ DOMAIN heard = 1..L
      BY <1>0, <2>1
  <2>2. /\ \A i \in 1..L : heard'[i] = heard[i]
        /\ \A i \in (L + 1)..(L + n) :
            heard'[i].ev = "lost" /\ heard'[i].at = read + (i - L)
    <3>1. \A i \in (L + 1)..(L + n) : i - L \in 1..n /\ L + (i - L) = i
        BY <2>3
    <3>2. \A i \in (L + 1)..(L + n) :
            heard'[i] = [ev |-> "lost", rule |-> Top.rule, at |-> read + (i - L)]
        BY <3>1, <2>1
    <3>3. \A i \in 1..L : heard'[i] = heard[i]
        BY <2>1
    <3>4. ASSUME NEW i \in (L + 1)..(L + n)
          PROVE  heard'[i].ev = "lost" /\ heard'[i].at = read + (i - L)
      <4>1. heard'[i] = [ev |-> "lost", rule |-> Top.rule, at |-> read + (i - L)]
          BY <3>2
      <4> QED
          BY <4>1
    <3> QED
        BY <3>3, <3>4
  <2> HIDE DEF L
  <2>4. \A i \in DOMAIN heard' : Reads(heard'[i]) => heard'[i].at \in 1..read'
    <3> SUFFICES ASSUME NEW i \in 1..(L + n), Reads(heard'[i])
                 PROVE  heard'[i].at \in 1..read'
        BY <2>3
    <3>1. CASE i \in 1..L
      <4>1. heard[i].at \in 1..read
          BY <2>2, <2>3, <3>1 DEF InOrder
      <4> QED
          BY <1>0, <2>1, <2>2, <3>1, <4>1
    <3>2. CASE i \in (L + 1)..(L + n)
        BY <1>0, <2>1, <2>2, <2>3, <3>2
    <3> QED
        BY <2>3, <3>1, <3>2
  <2>5. \A i, j \in DOMAIN heard' :
            i < j /\ Reads(heard'[i]) /\ Reads(heard'[j])
                => heard'[i].at < heard'[j].at
    <3> SUFFICES ASSUME NEW i \in 1..(L + n), NEW j \in 1..(L + n), i < j,
                        Reads(heard'[i]), Reads(heard'[j])
                 PROVE  heard'[i].at < heard'[j].at
        BY <2>3
    <3>1. CASE i \in 1..L /\ j \in 1..L
        BY <2>2, <2>3, <3>1 DEF InOrder
    <3>2. CASE i \in 1..L /\ j \in (L + 1)..(L + n)
      <4>1. heard[i].at \in 1..read /\ heard'[i] = heard[i]
          BY <2>2, <2>3, <3>2 DEF InOrder
      <4>2. heard'[j].at = read + (j - L)
          BY <2>2, <3>2
      <4> QED
          BY <1>0, <2>3, <3>2, <4>1, <4>2
    <3>3. CASE i \in (L + 1)..(L + n) /\ j \in (L + 1)..(L + n)
        BY <1>0, <2>2, <2>3, <3>3
    <3> QED
        BY <2>3, <3>1, <3>2, <3>3
  <2>6. \A p \in 1..read' :
            \E i \in DOMAIN heard' : Reads(heard'[i]) /\ heard'[i].at = p
    <3> SUFFICES ASSUME NEW p \in 1..(read + n)
                 PROVE  \E i \in 1..(L + n) : Reads(heard'[i]) /\ heard'[i].at = p
        BY <2>1, <2>3
    <3>1. CASE p \in 1..read
      <4>1. PICK i \in 1..L : Reads(heard[i]) /\ heard[i].at = p
          BY <2>3, <3>1 DEF InOrder
      <4> QED
          BY <2>2, <2>3, <4>1
    <3>2. CASE p \in (read + 1)..(read + n)
      <4>1. /\ L + (p - read) \in (L + 1)..(L + n)
            /\ L + (p - read) \in 1..(L + n)
            /\ read + ((L + (p - read)) - L) = p
          BY <1>0, <2>3, <3>2
      <4>2. /\ heard'[L + (p - read)].ev = "lost"
            /\ heard'[L + (p - read)].at = p
          BY <2>2, <4>1
      <4> QED
          BY <4>1, <4>2 DEF Reads
    <3> QED
        BY <1>0, <3>1, <3>2
  <2> QED
      BY <2>4, <2>5, <2>6 DEF InOrder, Reads
<1>5. CASE Exit
    BY <1>5, OrderHear DEF Exit, Reads
<1>6. CASE UNCHANGED vars
    BY <1>6 DEF vars, InOrder, Reads
<1> QED
    BY <1>1, <1>2, <1>3, <1>4, <1>5, <1>6 DEF Next

-----------------------------------------------------------------------------
LEMMA NestInit == Init => NestInv
<1> SUFFICES ASSUME Init PROVE NestInv
    OBVIOUS
<1>1. PICK r \in Rules :
          /\ open = <<[rule |-> r, since |-> 1]>>
          /\ heard = <<[ev |-> "enter", rule |-> r, at |-> 0]>>
    BY DEF Init
<1> QED
    BY <1>1 DEF NestInv, Nested, LeftRight, PointsAtEntry, DeeperIsLater, NotLeftYet, OpenOrLeft

\* What is left right stays left right.
LEMMA KeptRight ==
    ASSUME Nested, Len(heard) \in Nat, DOMAIN heard = 1..Len(heard),
           \A i \in 1..Len(heard) : heard'[i] = heard[i],
           NEW j \in 1..Len(heard), heard'[j].ev = "exit"
    PROVE  LeftRight(j)'
<1> DEFINE L == Len(heard)
<1>1. LeftRight(j) /\ j \in 1..L /\ L \in Nat
    BY DEF Nested
<1>2. \A i \in 1..L : heard'[i] = heard[i]
    OBVIOUS
<1> HIDE DEF L
<1>3. heard'[j] = heard[j] /\ heard[j].at \in 1..(j - 1) /\ heard[j].at \in 1..L
    BY <1>1, <1>2 DEF LeftRight
<1>4. heard'[heard[j].at] = heard[heard[j].at]
    BY <1>2, <1>3
<1>5. ASSUME NEW i \in heard[j].at + 1 .. j - 1
      PROVE  /\ heard'[i].ev = "exit" => heard'[i].at > heard[j].at
             /\ heard'[i].ev = "enter" =>
                   \E k \in i + 1 .. j - 1 : heard'[k].ev = "exit" /\ heard'[k].at = i
  <2>1. heard'[i] = heard[i] /\ \A k \in i + 1 .. j - 1 : heard'[k] = heard[k]
      BY <1>1, <1>2, <1>3
  <2> QED
      BY <1>1, <2>1 DEF LeftRight
<1> QED
    BY <1>1, <1>3, <1>4, <1>5 DEF LeftRight

\* Calls that are no entry and no exit leave the nesting alone.
LEMMA NestQuiet ==
    ASSUME NestInv, UNCHANGED open, NEW n \in Nat,
           Len(heard) \in Nat,
           DOMAIN heard = 1..Len(heard),
           DOMAIN heard' = 1..(Len(heard) + n),
           \A i \in 1..Len(heard) : heard'[i] = heard[i],
           \A k \in 1..n : heard'[Len(heard) + k].ev \notin {"enter", "exit"}
    PROVE  NestInv'
<1> DEFINE L == Len(heard)
<1>1. \A i \in (L + 1)..(L + n) : heard'[i].ev # "enter" /\ heard'[i].ev # "exit"
  <2>1. \A i \in (L + 1)..(L + n) : i - L \in 1..n /\ L + (i - L) = i
      OBVIOUS
  <2> QED
      BY <2>1
<1>2. /\ L \in Nat /\ DOMAIN heard = 1..L /\ DOMAIN heard' = 1..(L + n)
      /\ \A i \in 1..L : heard'[i] = heard[i]
    OBVIOUS
<1> HIDE DEF L
<1>3. \A i \in DOMAIN heard' :
        heard'[i].ev \in {"enter", "exit"} => i \in 1..L
    BY <1>1, <1>2
<1>4. Nested'
  <2>1. ASSUME NEW j \in DOMAIN heard', heard'[j].ev = "exit" PROVE LeftRight(j)'
      BY <1>2, <1>3, <2>1, KeptRight DEF NestInv, L
  <2> QED
      BY <2>1 DEF Nested
<1>5. PointsAtEntry' /\ DeeperIsLater'
    BY <1>2, <1>3 DEF NestInv, PointsAtEntry, DeeperIsLater
<1>6. NotLeftYet'
    BY <1>2, <1>3 DEF NestInv, NotLeftYet
<1>7. OpenOrLeft'
    BY <1>2, <1>3 DEF NestInv, OpenOrLeft
<1> QED
    BY <1>4, <1>5, <1>6, <1>7 DEF NestInv

LEMMA NestHear ==
    ASSUME TypeOK, NestInv, NEW STATE e, Hear(e), UNCHANGED open,
           e.ev \notin {"enter", "exit"}
    PROVE  NestInv'
<1>1. /\ Len(heard) \in Nat
      /\ \A k \in 1..1 : heard'[Len(heard) + k] = e
    BY Heard DEF TypeOK
<1> QED
    BY <1>1, Heard, NestQuiet

LEMMA NestNext == TypeOK /\ NestInv /\ [Next]_vars => NestInv'
<1> SUFFICES ASSUME TypeOK, NestInv, [Next]_vars PROVE NestInv'
    OBVIOUS
<1>0. Len(heard) \in Nat /\ Len(open) \in Nat /\ DOMAIN open = 1..Len(open)
    BY DEF TypeOK
<1> DEFINE L == Len(heard)
           D == Len(open)
<1>1. ASSUME NEW r \in Rules, Enter(r) PROVE NestInv'
  <2>1. /\ DOMAIN heard' = 1..(L + 1) /\ DOMAIN heard = 1..L
        /\ heard'[L + 1] = [ev |-> "enter", rule |-> r, at |-> read]
        /\ \A i \in 1..L : heard'[i] = heard[i]
      BY <1>1, Heard DEF Enter
  <2>2. /\ DOMAIN open' = 1..(D + 1)
        /\ open'[D + 1] = [rule |-> r, since |-> L + 1]
        /\ \A d \in 1..D : open'[d] = open[d]
      BY <1>1, <1>0 DEF Enter, TypeOK
  <2>3. L \in Nat /\ D \in Nat /\ DOMAIN open = 1..D
      BY <1>0
  <2> HIDE DEF L, D
  <2>4. Nested'
    <3>1. ASSUME NEW j \in 1..(L + 1), heard'[j].ev = "exit" PROVE LeftRight(j)'
        BY <2>1, <2>3, <3>1, KeptRight DEF NestInv, L
    <3> QED
        BY <2>1, <3>1 DEF Nested
  <2>5. PointsAtEntry'
      BY <2>1, <2>2, <2>3 DEF NestInv, PointsAtEntry
  <2>6. DeeperIsLater'
      BY <2>2, <2>1, <2>3 DEF NestInv, PointsAtEntry, DeeperIsLater
  <2>7. NotLeftYet'
      BY <2>1, <2>2, <2>3 DEF NestInv, NotLeftYet
  <2>8. OpenOrLeft'
      BY <2>1, <2>2, <2>3 DEF NestInv, OpenOrLeft
  <2> QED
      BY <2>4, <2>5, <2>6, <2>7, <2>8 DEF NestInv
<1>2. CASE Leaf
    BY <1>2, NestHear DEF Leaf
<1>3. CASE Missing
    BY <1>3, NestHear DEF Missing
<1>4. CASE Lose
  <2>1. UNCHANGED open
      BY <1>4 DEF Lose
  <2>2. PICK n \in Nat :
          /\ DOMAIN heard' = 1..(L + n)
          /\ DOMAIN heard = 1..L
          /\ \A i \in 1..L : heard'[i] = heard[i]
          /\ \A k \in 1..n :
               heard'[L + k] = [ev |-> "lost", rule |-> Top.rule, at |-> read + k]
      BY <1>4, Lost
  <2>3. ASSUME NEW k \in 1..n PROVE heard'[L + k].ev \notin {"enter", "exit"}
    <3>1. heard'[L + k] = [ev |-> "lost", rule |-> Top.rule, at |-> read + k]
        BY <2>2
    <3> QED
        BY <3>1
  <2> QED
      BY <1>0, <2>1, <2>2, <2>3, NestQuiet
<1>5. CASE Exit
  <2>1. /\ DOMAIN heard' = 1..(L + 1) /\ DOMAIN heard = 1..L
        /\ heard'[L + 1] = [ev |-> "exit", rule |-> open[D].rule, at |-> open[D].since]
        /\ \A i \in 1..L : heard'[i] = heard[i]
      BY <1>5, Heard DEF Exit, Top
  <2>2. /\ D \in Nat /\ D > 0
        /\ DOMAIN open' = 1..(D - 1)
        /\ \A d \in 1..(D - 1) : open'[d] = open[d]
      BY <1>5, <1>0 DEF Exit, TypeOK
  <2>3. L \in Nat /\ DOMAIN open = 1..D /\ D \in 1..D
      BY <1>0, <2>2
  <2> HIDE DEF L, D
  <2>4. /\ open[D].since \in 1..L
        /\ heard[open[D].since].ev = "enter"
        /\ heard[open[D].since].rule = open[D].rule
      BY <2>1, <2>3 DEF NestInv, PointsAtEntry
  <2>0. /\ heard'[L + 1].ev = "exit" /\ heard'[L + 1].rule = open[D].rule
        /\ heard'[L + 1].at = open[D].since
      BY <2>1
  <2>5. \A i \in open[D].since + 1 .. L :
          /\ heard[i].ev = "exit" => heard[i].at > open[D].since
          /\ heard[i].ev = "enter" =>
                \E k \in i + 1 .. L : heard[k].ev = "exit" /\ heard[k].at = i
    <3> SUFFICES ASSUME NEW i \in open[D].since + 1 .. L
                 PROVE  /\ heard[i].ev = "exit" => heard[i].at > open[D].since
                        /\ heard[i].ev = "enter" =>
                              \E k \in i + 1 .. L :
                                heard[k].ev = "exit" /\ heard[k].at = i
        OBVIOUS
    <3>0. i \in 1..L /\ i > open[D].since
        BY <2>3, <2>4
    <3>1. heard[i].ev = "exit" => heard[i].at > open[D].since
      <4> SUFFICES ASSUME heard[i].ev = "exit" PROVE heard[i].at > open[D].since
          OBVIOUS
      <4>1. heard[i].at \in 1..(i - 1)
          BY <2>1, <3>0 DEF NestInv, Nested, LeftRight
      <4>2. i < open[D].since \/ open[D].since < heard[i].at
          BY <2>1, <2>3, <3>0 DEF NestInv, NotLeftYet
      <4> QED
          BY <2>3, <2>4, <3>0, <4>1, <4>2
    <3>2. heard[i].ev = "enter" =>
            \E k \in i + 1 .. L : heard[k].ev = "exit" /\ heard[k].at = i
      <4> SUFFICES ASSUME heard[i].ev = "enter"
                   PROVE  \E k \in i + 1 .. L : heard[k].ev = "exit" /\ heard[k].at = i
          OBVIOUS
      <4>1. ASSUME NEW d \in 1..D PROVE open[d].since # i
          BY <2>1, <2>3, <2>4, <3>0 DEF NestInv, DeeperIsLater, PointsAtEntry
      <4>2. PICK k \in 1..L : heard[k].ev = "exit" /\ heard[k].at = i
          BY <2>1, <2>3, <3>0, <4>1 DEF NestInv, OpenOrLeft
      <4>3. i \in 1..(k - 1)
          BY <2>1, <4>2 DEF NestInv, Nested, LeftRight
      <4> QED
          BY <2>3, <4>2, <4>3
    <3> QED
        BY <3>1, <3>2
  <2>6. Nested'
    <3> SUFFICES ASSUME NEW j \in 1..(L + 1), heard'[j].ev = "exit"
                 PROVE  LeftRight(j)'
        BY <2>1 DEF Nested
    <3>1. CASE j = L + 1
        BY <2>0, <2>1, <2>3, <2>4, <2>5, <3>1 DEF LeftRight
    <3>2. CASE j \in 1..L
        BY <2>1, <2>3, <3>2, KeptRight DEF NestInv, L
    <3> QED
        BY <2>3, <3>1, <3>2
  <2>7. PointsAtEntry' /\ DeeperIsLater'
      BY <2>1, <2>2, <2>3 DEF NestInv, PointsAtEntry, DeeperIsLater
  <2>8. NotLeftYet'
      BY <2>0, <2>1, <2>2, <2>3 DEF NestInv, NotLeftYet, DeeperIsLater
  <2>9. OpenOrLeft'
    <3> SUFFICES ASSUME NEW i \in 1..(L + 1), heard'[i].ev = "enter"
                 PROVE  \/ \E d \in 1..(D - 1) : open'[d].since = i
                        \/ \E j \in 1..(L + 1) :
                             heard'[j].ev = "exit" /\ heard'[j].at = i
        BY <2>1, <2>2 DEF OpenOrLeft
    <3>1. i \in 1..L /\ heard[i].ev = "enter"
        BY <2>0, <2>1, <2>3
    <3>2. CASE open[D].since = i
        BY <2>0, <2>3, <3>2
    <3>3. CASE \E d \in 1..(D - 1) : open[d].since = i
        BY <2>2, <3>3
    <3>4. CASE \E j \in 1..L : heard[j].ev = "exit" /\ heard[j].at = i
        BY <2>1, <2>3, <3>4
    <3> QED
        BY <2>1, <2>2, <2>3, <3>1, <3>2, <3>3, <3>4 DEF NestInv, OpenOrLeft
  <2> QED
      BY <2>6, <2>7, <2>8, <2>9 DEF NestInv
<1>6. CASE UNCHANGED vars
    BY <1>6 DEF vars, NestInv, Nested, LeftRight, PointsAtEntry, DeeperIsLater, NotLeftYet,
              OpenOrLeft
<1> QED
    BY <1>1, <1>2, <1>3, <1>4, <1>5, <1>6 DEF Next

-----------------------------------------------------------------------------
\* The calls and the open rules of a walk are what they should be.
THEOREM TypeCorrect == Spec => []TypeOK
    BY TypeInit, TypeNext, PTL DEF Spec

\* In every walk the tokens are read once each and in order.
THEOREM ReadInOrder == Spec => []InOrder
    BY TypeInit, TypeNext, OrderInit, OrderNext, PTL DEF Spec

\* In every walk the rules are left from the inside to the outside.
THEOREM LeftNested == Spec => []Nested
<1>1. Spec => []NestInv
    BY TypeInit, TypeNext, NestInit, NestNext, PTL DEF Spec
<1>2. NestInv => Nested
    BY DEF NestInv
<1> QED
    BY <1>1, <1>2, PTL

\* In every walk that is over, every rule that was entered was left.
THEOREM LeftAll == Spec => []AllLeft
<1>1. Spec => []NestInv
    BY TypeInit, TypeNext, NestInit, NestNext, PTL DEF Spec
<1>2. NestInv => AllLeft
    BY DEF NestInv, OpenOrLeft, AllLeft
<1> QED
    BY <1>1, <1>2, PTL
=============================================================================
