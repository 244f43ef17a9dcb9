-------------------------- MODULE SmtParserProofs --------------------------
(***************************************************************************)
(* The generated parser, error handler included, walks a tree, whatever    *)
(* the texts are; and without a report of an error the leaves are the      *)
(* text it has read.                                                       *)
(***************************************************************************)
EXTENDS SmtParser, SequenceTheorems, TLAPS

WP == INSTANCE TreeWalkProofs WITH
            open <- open,
            heard <- heard,
            read <- pos - 1

-----------------------------------------------------------------------------
LEMMA TypeInit == Init => TypeOK
<1> SUFFICES ASSUME Init PROVE TypeOK
    OBVIOUS
<1>1. PICK i \in Inputs :
        /\ input = i /\ pos = 1
        /\ open = <<[rule |-> i.start, since |-> 1]>>
        /\ todo = <<Body[i.start]>>
        /\ heard = <<[ev |-> "enter", rule |-> i.start, at |-> 0]>>
        /\ reported = FALSE /\ recovering = FALSE
        /\ failed = {} /\ failedAt = 0
    BY DEF Init
<1>2. i.start \in Rules
    BY InputsAssumption
<1>3. input.start \in Rules /\ pos \in Nat \ {0} /\ failedAt \in Nat
    BY <1>1, <1>2
<1>4. open \in Seq(Contexts) /\ heard \in Seq(Events)
    BY <1>1, <1>2 DEF Contexts, Events
<1>5. todo = [d \in DOMAIN open |-> todo[d]]
  <2>1. DOMAIN open = 1..1 /\ DOMAIN todo = 1..1
      BY <1>1
  <2> QED
      BY <1>1, <2>1
<1> QED
    BY <1>1, <1>3, <1>4, <1>5 DEF TypeOK

LEMMA TopType ==
    ASSUME TypeOK, open # <<>>
    PROVE  /\ Depth \in Nat \ {0} /\ Depth \in DOMAIN open
           /\ Top \in Contexts
    BY DEF TypeOK, Depth, Top

LEMMA EventType ==
    ASSUME TypeOK, open # <<>>, NEW ev \in {"leaf", "lost", "missing", "exit"},
           NEW at \in Nat
    PROVE  Event(ev, at) \in Events
    BY TopType DEF Event, Events, Contexts

\* What a step of the error handler that skips tokens does to the calls.
LEMMA LoseType ==
    ASSUME TypeOK, open # <<>>, NEW n \in Nat, Lose(n)
    PROVE  pos' \in Nat \ {0} /\ heard' \in Seq(Events)
<1> DEFINE lost == [k \in 1..n |-> Event("lost", pos - 1 + k)]
<1>1. \A k \in 1..n : Event("lost", pos - 1 + k) \in Events
    BY EventType DEF TypeOK
<1>2. lost \in Seq(Events)
    BY <1>1
<1>3. heard' = heard \o lost /\ heard \in Seq(Events) /\ pos' = pos + n
    BY DEF Lose, TypeOK
<1>4. heard' \in Seq(Events)
    BY <1>2, <1>3, ConcatProperties
<1> QED
    BY <1>3, <1>4 DEF TypeOK

\* There is a sequence of items for every context, before and after.
FramesOK == todo = [d \in DOMAIN open |-> todo[d]]

LEMMA GoOnType ==
    ASSUME TypeOK, NEW STATE items, GoOn(items), UNCHANGED open
    PROVE  FramesOK'
<1>1. todo' = [todo EXCEPT ![Depth] = items] /\ DOMAIN todo = DOMAIN open
    BY DEF GoOn, TypeOK
<1> QED
    BY <1>1 DEF FramesOK

LEMMA ItemOpen == \A op : At(op) => open # <<>>
    BY DEF At

LEMMA PlaceType ==
    ASSUME TypeOK, open # <<>>
    PROVE  \A p \in failed \cup {Place} : p[1] \in Rules
<1>1. Place[1] = Top.rule
    BY DEF Place
<1> QED
    BY <1>1, TopType DEF TypeOK, Contexts

LEMMA FramesSeq ==
    ASSUME TypeOK
    PROVE  /\ DOMAIN todo = 1..Len(open) /\ DOMAIN open = 1..Len(open)
           /\ Len(open) \in Nat /\ open \in Seq(Contexts)
           /\ todo \in Seq({todo[d] : d \in DOMAIN open})
<1>1. DOMAIN open = 1..Len(open) /\ Len(open) \in Nat /\ open \in Seq(Contexts)
    BY DEF TypeOK
<1>2. todo = [d \in 1..Len(open) |-> todo[d]]
    BY <1>1 DEF TypeOK
<1>3. \A d \in 1..Len(open) : todo[d] \in {todo[e] : e \in DOMAIN open}
    BY <1>1
<1>4. [d \in 1..Len(open) |-> todo[d]] \in Seq({todo[e] : e \in DOMAIN open})
    BY <1>1, <1>3
<1> QED
    BY <1>1, <1>2, <1>4, Zenon

LEMMA CallType == TypeOK /\ CallRule => TypeOK'
<1> SUFFICES ASSUME TypeOK, CallRule PROVE TypeOK'
    OBVIOUS
<1>1. /\ open # <<>> /\ Item.rule \in Rules
      /\ UNCHANGED <<input, pos, reported, recovering, failed, failedAt>>
    BY DEF CallRule, At
<1>2. Len(heard) \in Nat /\ pos - 1 \in Nat
    BY DEF TypeOK
<1>3. heard' \in Seq(Events)
  <2>1. [ev |-> "enter", rule |-> Item.rule, at |-> pos - 1] \in Events
      BY <1>1, <1>2 DEF Events
  <2> QED
      BY <2>1 DEF CallRule, Hear, TypeOK
<1>4. open' \in Seq(Contexts)
  <2>1. [rule |-> Item.rule, since |-> Len(heard) + 1] \in Contexts
      BY <1>1, <1>2 DEF Contexts
  <2> QED
      BY <2>1 DEF CallRule, TypeOK
<1>5. FramesOK'
  <2> DEFINE before == [todo EXCEPT ![Depth] = Tail(Rest)]
             c == [rule |-> Item.rule, since |-> Len(heard) + 1]
             n == Len(open)
  <2>1. todo' = Append(before, Body[Item.rule]) /\ open' = Append(open, c)
      BY DEF CallRule
  <2>2. /\ n \in Nat /\ DOMAIN before = 1..n
        /\ before \in Seq({before[d] : d \in 1..n})
    <3>1. DOMAIN before = 1..n /\ n \in Nat
        BY FramesSeq
    <3>2. before = [d \in 1..n |-> before[d]]
        BY <3>1
    <3> HIDE DEF before
    <3>3. [d \in 1..n |-> before[d]] \in Seq({before[d] : d \in 1..n})
        BY <3>1
    <3> QED
        BY <3>1, <3>2, <3>3, Zenon
  <2>3. DOMAIN open' = 1..(n + 1)
      BY <2>1, FramesSeq
  <2> HIDE DEF before, c, n
  <2>4. todo' = [d \in 1..(n + 1) |-> todo'[d]]
      BY <2>1, <2>2
  <2> QED
      BY <2>3, <2>4 DEF FramesOK
<1> QED
    BY <1>1, <1>3, <1>4, <1>5 DEF TypeOK, FramesOK

LEMMA ExitType == TypeOK /\ ExitRule => TypeOK'
<1> SUFFICES ASSUME TypeOK, ExitRule PROVE TypeOK'
    OBVIOUS
<1>1. /\ open # <<>>
      /\ UNCHANGED <<input, pos, reported, recovering, failed, failedAt>>
    BY DEF ExitRule
<1>2. heard' \in Seq(Events)
  <2>1. Top.since \in Nat
      BY <1>1, TopType DEF Contexts
  <2>2. Event("exit", Top.since) \in Events
      BY <1>1, <2>1, EventType
  <2> QED
      BY <2>2 DEF ExitRule, Hear, TypeOK
<1>3. /\ Depth \in Nat /\ Depth > 0 /\ DOMAIN todo = 1..Depth
      /\ \A d \in 1..(Depth - 1) : open[d] \in Contexts
    BY <1>1, FramesSeq, TopType DEF Depth
<1>4. open' = SubSeq(open, 1, Depth - 1) /\ todo' = SubSeq(todo, 1, Depth - 1)
    BY DEF ExitRule
<1>5. open' \in Seq(Contexts) /\ DOMAIN open' = 1..(Depth - 1)
    BY <1>3, <1>4, FramesSeq DEF Depth
<1>6. todo' = [d \in 1..(Depth - 1) |-> todo'[d]]
    BY <1>3, <1>4, FramesSeq DEF Depth
<1> QED
    BY <1>1, <1>2, <1>5, <1>6 DEF TypeOK

LEMMA MatchType == TypeOK /\ MatchToken => TypeOK'
<1> SUFFICES ASSUME TypeOK, MatchToken PROVE TypeOK'
    OBVIOUS
<1>1. open # <<>> /\ UNCHANGED <<input, open, reported>>
    BY DEF MatchToken, At
<1>2. FramesOK'
    BY <1>1, GoOnType DEF MatchToken
<1>3. Event("leaf", pos) \in Events
    BY <1>1, EventType DEF TypeOK
<1>4. heard' \in Seq(Events)
    BY <1>3 DEF MatchToken, Hear, TypeOK
<1>5. /\ pos' \in Nat \ {0} /\ failed' = {} /\ failedAt' = 0
      /\ reported' \in BOOLEAN /\ recovering' = FALSE /\ input' = input
    BY DEF MatchToken, TypeOK
<1> QED
    BY <1>1, <1>2, <1>4, <1>5 DEF TypeOK, FramesOK

\* The decisions read and call nothing.
Decide ==
    \/ TakeAlternative \/ PassSync \/ LoopAgain \/ LeaveLoop

LEMMA DecideQuiet ==
    ASSUME TypeOK, Decide
    PROVE  /\ open # <<>> /\ FramesOK'
           /\ UNCHANGED <<input, pos, open, heard, reported, recovering, failed, failedAt>>
<1>1. CASE TakeAlternative
    BY <1>1, GoOnType, ItemOpen DEF TakeAlternative
<1>2. CASE PassSync
    BY <1>2, GoOnType, ItemOpen DEF PassSync
<1>3. CASE LoopAgain
    BY <1>3, GoOnType, ItemOpen DEF LoopAgain
<1>4. CASE LeaveLoop
    BY <1>4, GoOnType, ItemOpen DEF LeaveLoop
<1> QED
    BY <1>1, <1>2, <1>3, <1>4 DEF Decide

LEMMA DeleteType == TypeOK /\ DeleteToken => TypeOK'
<1> SUFFICES ASSUME TypeOK, DeleteToken PROVE TypeOK'
    OBVIOUS
<1>1. open # <<>> /\ UNCHANGED <<input, open, todo>> /\ Lose(1)
    BY ItemOpen DEF DeleteToken, OneTooMany, Unexpected, OutOfSync, Syncing
<1>2. pos' \in Nat \ {0} /\ heard' \in Seq(Events)
    BY <1>1, LoseType
<1> QED
    BY <1>1, <1>2 DEF DeleteToken, TypeOK

LEMMA InsertType == TypeOK /\ InsertToken => TypeOK'
<1> SUFFICES ASSUME TypeOK, InsertToken PROVE TypeOK'
    OBVIOUS
<1>1. open # <<>> /\ UNCHANGED <<input, pos, open, failed, failedAt>>
    BY ItemOpen DEF InsertToken, Unexpected
<1>2. FramesOK'
    BY <1>1, GoOnType DEF InsertToken
<1>3. pos - 1 \in Nat
    BY DEF TypeOK
<1>4. Event("missing", pos - 1) \in Events
    BY <1>1, <1>3, EventType
<1>5. heard' \in Seq(Events)
    BY <1>4 DEF InsertToken, Hear, TypeOK
<1> QED
    BY <1>1, <1>2, <1>5 DEF InsertToken, TypeOK, FramesOK

LEMMA SkipType == TypeOK /\ SkipInLoop => TypeOK'
<1> SUFFICES ASSUME TypeOK, SkipInLoop PROVE TypeOK'
    OBVIOUS
<1>1. open # <<>> /\ UNCHANGED <<input, open, todo, failed, failedAt>>
    BY ItemOpen DEF SkipInLoop
<1>2. PICK n \in Nat : Lose(n)
    BY DEF SkipInLoop
<1>3. pos' \in Nat \ {0} /\ heard' \in Seq(Events)
    BY <1>1, <1>2, LoseType
<1> QED
    BY <1>1, <1>3 DEF SkipInLoop, TypeOK

LEMMA GiveUpType == TypeOK /\ GiveUp => TypeOK'
<1> SUFFICES ASSUME TypeOK, GiveUp PROVE TypeOK'
    OBVIOUS
<1>1. open # <<>> /\ UNCHANGED <<input, open>>
    BY ItemOpen DEF GiveUp, Unexpected, OutOfSync, Syncing
<1>2. FramesOK'
    BY <1>1, GoOnType DEF GiveUp
<1>3. PICK n \in Nat : Lose(n)
    BY DEF GiveUp
<1>4. pos' \in Nat \ {0} /\ heard' \in Seq(Events)
    BY <1>1, <1>3, LoseType
<1>5. \A p \in failed' : p[1] \in Rules
    BY <1>1, PlaceType DEF GiveUp
<1>6. reported' = TRUE /\ recovering' = TRUE /\ failedAt' \in Nat
    BY DEF GiveUp, TypeOK
<1> QED
    BY <1>1, <1>2, <1>4, <1>5, <1>6 DEF TypeOK, FramesOK

LEMMA TypeNext == TypeOK /\ [Next]_vars => TypeOK'
<1> SUFFICES ASSUME TypeOK, [Next]_vars PROVE TypeOK'
    OBVIOUS
<1>1. CASE Decide
    BY <1>1, DecideQuiet DEF TypeOK, FramesOK
<1>2. CASE UNCHANGED vars
    BY <1>2 DEF vars, TypeOK
<1> QED
    BY <1>1, <1>2, CallType, ExitType, MatchType, DeleteType, InsertType,
       SkipType, GiveUpType DEF Next, Done, Decide

-----------------------------------------------------------------------------
(* Every step is a step of a walk *)

LEMMA WalkInit == Init => WP!Init
<1> SUFFICES ASSUME Init PROVE WP!Init
    OBVIOUS
<1>1. PICK i \in Inputs :
        /\ pos = 1
        /\ open = <<[rule |-> i.start, since |-> 1]>>
        /\ heard = <<[ev |-> "enter", rule |-> i.start, at |-> 0]>>
    BY DEF Init
<1>2. i.start \in Rules /\ pos - 1 = 0
    BY <1>1, InputsAssumption
<1> QED
    BY <1>1, <1>2 DEF WP!Init

LEMMA WalkLose ==
    ASSUME TypeOK, open # <<>>, UNCHANGED open, NEW n \in Nat, Lose(n)
    PROVE  WP!Lose
<1>1. /\ pos' = pos + n
      /\ heard' = heard \o [k \in 1..n |-> Event("lost", pos - 1 + k)]
    BY DEF Lose
<1>2. pos \in Nat \ {0}
    BY DEF TypeOK
<1>3. /\ (pos' - 1) \in Nat /\ pos - 1 <= pos' - 1
      /\ (pos' - 1) - (pos - 1) = n
    BY <1>1, <1>2
<1>4. \A k \in 1..n : Event("lost", pos - 1 + k)
                         = [ev |-> "lost", rule |-> WP!Top.rule, at |-> pos - 1 + k]
    BY DEF Event, WP!Top, Top, Depth
<1>5. heard' = heard \o [k \in 1..((pos' - 1) - (pos - 1)) |->
                [ev |-> "lost", rule |-> WP!Top.rule, at |-> (pos - 1) + k]]
    BY <1>1, <1>3, <1>4
<1> QED
    BY <1>3, <1>5 DEF WP!Lose

LEMMA WalkNext == TypeOK /\ [Next]_vars => [WP!Next]_WP!vars
<1> SUFFICES ASSUME TypeOK, [Next]_vars PROVE [WP!Next]_WP!vars
    OBVIOUS
<1>0. pos \in Nat \ {0} /\ WP!Top = Top
    BY DEF TypeOK, WP!Top, Top, Depth
<1>1. CASE CallRule
  <2>1. open # <<>> /\ Item.rule \in Rules
      BY <1>1 DEF CallRule, At
  <2>2. WP!Enter(Item.rule)
      BY <1>1, <2>1 DEF CallRule, Hear, WP!Enter, WP!Hear
  <2> QED
      BY <2>1, <2>2 DEF WP!Next
<1>2. CASE MatchToken
  <2>1. (pos - 1) + 1 = pos /\ pos' - 1 = (pos - 1) + 1
      BY <1>0, <1>2 DEF MatchToken
  <2>2. heard' = Append(heard, [ev |-> "leaf", rule |-> WP!Top.rule, at |-> (pos - 1) + 1])
      BY <1>0, <1>2, <2>1 DEF MatchToken, Hear, Event
  <2>3. WP!Leaf
      BY <1>2, <2>1, <2>2 DEF MatchToken, At, WP!Leaf, WP!Hear
  <2> QED
      BY <2>3 DEF WP!Next
<1>3. CASE Decide
    BY <1>3, DecideQuiet DEF WP!vars
<1>4. CASE ExitRule
  <2>1. WP!Exit
      BY <1>0, <1>4 DEF ExitRule, Hear, Event, Depth, WP!Exit, WP!Hear
  <2> QED
      BY <2>1 DEF WP!Next
<1>5. CASE DeleteToken
  <2>1. open # <<>> /\ UNCHANGED open /\ Lose(1)
      BY <1>5, ItemOpen DEF DeleteToken, OneTooMany, Unexpected, OutOfSync, Syncing
  <2> QED
      BY <2>1, WalkLose DEF WP!Next
<1>6. CASE InsertToken
  <2>1. open # <<>> /\ UNCHANGED <<pos, open>>
      BY <1>6, ItemOpen DEF InsertToken, Unexpected
  <2>2. WP!Missing
      BY <1>0, <1>6, <2>1 DEF InsertToken, Hear, Event, WP!Missing, WP!Hear
  <2> QED
      BY <2>2 DEF WP!Next
<1>7. CASE SkipInLoop
  <2>1. open # <<>> /\ UNCHANGED open
      BY <1>7, ItemOpen DEF SkipInLoop
  <2>2. PICK n \in Nat : Lose(n)
      BY <1>7 DEF SkipInLoop
  <2> QED
      BY <2>1, <2>2, WalkLose DEF WP!Next
<1>8. CASE GiveUp
  <2>1. open # <<>> /\ UNCHANGED open
      BY <1>8, ItemOpen DEF GiveUp, Unexpected, OutOfSync, Syncing
  <2>2. PICK n \in Nat : Lose(n)
      BY <1>8 DEF GiveUp
  <2> QED
      BY <2>1, <2>2, WalkLose DEF WP!Next
<1>9. CASE Done \/ UNCHANGED vars
    BY <1>9 DEF Done, vars, WP!vars
<1> QED
    BY <1>1, <1>2, <1>3, <1>4, <1>5, <1>6, <1>7, <1>8, <1>9 DEF Next, Decide

-----------------------------------------------------------------------------
\* The parser's state is what it should be: every context has its items.
THEOREM TypeCorrect == Spec => []TypeOK
    BY TypeInit, TypeNext, PTL DEF Spec

LEMMA Implements == Spec => WP!Spec
    BY TypeInit, TypeNext, WalkInit, WalkNext, PTL DEF Spec, WP!Spec

\* The parser with its error handler implements the tree walk.
THEOREM ParserWalks == Spec => WalksTree
<1>1. WP!Init => Walk!Init
    BY DEF WP!Init, Walk!Init
<1>2. [WP!Next]_WP!vars => [Walk!Next]_Walk!vars
  <2>1. WP!Top = Walk!Top
      BY DEF WP!Top, Walk!Top
  <2>2. \A r \in Rules : WP!Enter(r) => Walk!Enter(r)
      BY DEF WP!Enter, Walk!Enter, WP!Hear, Walk!Hear
  <2>3. WP!Leaf => Walk!Leaf
      BY <2>1 DEF WP!Leaf, Walk!Leaf, WP!Hear, Walk!Hear
  <2>4. WP!Missing => Walk!Missing
      BY <2>1 DEF WP!Missing, Walk!Missing, WP!Hear, Walk!Hear
  <2>5. WP!Lose => Walk!Lose
      BY <2>1 DEF WP!Lose, Walk!Lose
  <2>6. WP!Exit => Walk!Exit
      BY <2>1 DEF WP!Exit, Walk!Exit, WP!Hear, Walk!Hear
  <2>7. UNCHANGED WP!vars => UNCHANGED Walk!vars
      BY DEF WP!vars, Walk!vars
  <2>8. WP!Next => Walk!Next
      BY <2>2, <2>3, <2>4, <2>5, <2>6 DEF WP!Next, Walk!Next
  <2> QED
      BY <2>7, <2>8
<1> QED
    BY <1>1, <1>2, Implements, PTL DEF WalksTree, Walk!Spec, WP!Spec

\* So it reads the tokens in order, damaged text or not.
THEOREM ParserReadsInOrder == Spec => []ReadsInOrder
<1>1. WP!InOrder => ReadsInOrder
    BY DEF ReadsInOrder, WP!InOrder, Walk!InOrder, WP!Reads, Walk!Reads
<1> QED
    BY <1>1, Implements, WP!ReadInOrder, PTL

\* And it leaves the rules from the inside to the outside.
THEOREM ParserExitsNested == Spec => []ExitsNested
<1>1. WP!Nested => ExitsNested
    BY DEF ExitsNested, WP!Nested, Walk!Nested, WP!LeftRight, Walk!LeftRight
<1> QED
    BY <1>1, Implements, WP!LeftNested, PTL

-----------------------------------------------------------------------------
\* Without a report there is nothing in the tree but what was read.
Undamaged ==
    ~reported => \A i \in DOMAIN heard : heard[i].ev \notin {"lost", "missing"}

LEMMA UndamagedInit == Init => Undamaged
<1> SUFFICES ASSUME Init PROVE Undamaged
    OBVIOUS
<1>1. PICK i \in Inputs :
        heard = <<[ev |-> "enter", rule |-> i.start, at |-> 0]>>
    BY DEF Init
<1> QED
    BY <1>1 DEF Undamaged

LEMMA UndamagedHear ==
    ASSUME TypeOK, Undamaged, NEW STATE e, Hear(e),
           e.ev \notin {"lost", "missing"}, UNCHANGED reported
    PROVE  Undamaged'
<1>1. /\ DOMAIN heard' = 1..(Len(heard) + 1) /\ DOMAIN heard = 1..Len(heard)
      /\ heard'[Len(heard) + 1] = e /\ Len(heard) \in Nat
      /\ \A i \in DOMAIN heard : heard'[i] = heard[i]
    BY DEF TypeOK, Hear
<1> QED
    BY <1>1 DEF Undamaged

LEMMA UndamagedNext == TypeOK /\ Undamaged /\ [Next]_vars => Undamaged'
<1> SUFFICES ASSUME TypeOK, Undamaged, [Next]_vars PROVE Undamaged'
    OBVIOUS
<1>1. CASE CallRule
    BY <1>1, UndamagedHear DEF CallRule
<1>2. CASE MatchToken
    BY <1>2, UndamagedHear DEF MatchToken, Event
<1>3. CASE ExitRule
    BY <1>3, UndamagedHear DEF ExitRule, Event
<1>4. CASE Decide
    BY <1>4, DecideQuiet DEF Undamaged
<1>5. CASE DeleteToken \/ InsertToken \/ SkipInLoop \/ GiveUp
    BY <1>5 DEF DeleteToken, InsertToken, SkipInLoop, GiveUp, Undamaged
<1>6. CASE Done \/ UNCHANGED vars
    BY <1>6 DEF Done, vars, Undamaged
<1> QED
    BY <1>1, <1>2, <1>3, <1>4, <1>5, <1>6 DEF Next, Decide

\* What ast_string prints of an undamaged tree is the text that was read.
THEOREM PrintsWhatWasRead == Spec => []PrintedIsRead
<1>1. TypeOK /\ Undamaged /\ ReadsInOrder => PrintedIsRead
    BY DEF Undamaged, ReadsInOrder, Walk!InOrder, Walk!Reads, PrintedIsRead,
           IsLeaf
<1> QED
    BY <1>1, TypeInit, TypeNext, UndamagedInit, UndamagedNext,
       ParserReadsInOrder, PTL DEF Spec

-----------------------------------------------------------------------------
(* The context of a script *)

ScriptSafe == InScript /\ StopsBetweenCommands

LEMMA Scripts ==
    /\ Commands = [op |-> "while", toks |-> {"ParOpen"},
                   items |-> <<[op |-> "call", rule |-> "command"]>>]
    /\ Body["script"] = <<Commands>>
<1>1. script = <<While({"ParOpen"}, <<Call("command")>>)>>
    BY DEF script
<1>2. Commands = While({"ParOpen"}, <<Call("command")>>) /\ script = <<Commands>>
    BY <1>1 DEF Commands
<1>3. Body["script"] = script
    BY DEF Body
<1> QED
    BY <1>2, <1>3 DEF While, Call

LEMMA TwoItems ==
    ASSUME NEW x, NEW y
    PROVE  Head(<<x>> \o <<y>>) = x /\ Tail(<<x>> \o <<y>>) = <<y>>
<1>1. <<x>> \in Seq({x, y}) /\ <<y>> \in Seq({x, y})
    OBVIOUS
<1>2. Len(<<x>> \o <<y>>) = 2 /\ <<x>> \o <<y>> \in Seq({x, y})
    BY <1>1, ConcatProperties
<1>3. (<<x>> \o <<y>>)[1] = x /\ (<<x>> \o <<y>>)[2] = y
    BY <1>1, ConcatProperties
<1>4. Len(Tail(<<x>> \o <<y>>)) = 1 /\ Tail(<<x>> \o <<y>>)[1] = y
      /\ Tail(<<x>> \o <<y>>) \in Seq({x, y})
    BY <1>2, <1>3
<1>5. \A s, t \in Seq({x, y}) :
         Len(s) = 1 /\ Len(t) = 1 /\ s[1] = t[1] => s = t
    OBVIOUS
<1>6. Tail(<<x>> \o <<y>>) = <<y>>
  <2>1. Len(<<y>>) = 1 /\ <<y>>[1] = y
      OBVIOUS
  <2> QED
      BY <1>1, <1>4, <1>5, <2>1, Zenon
<1>7. \A s \in Seq({x, y}) : s # <<>> => Head(s) = s[1]
    OBVIOUS
<1>8. Head(<<x>> \o <<y>>) = x
  <2>1. <<x>> \o <<y>> # <<>>
      BY <1>2
  <2> QED
      BY <1>2, <1>3, <1>7, <2>1, Zenon
<1> QED
    BY <1>6, <1>8

LEMMA ScriptInit == Init => ScriptSafe
<1> SUFFICES ASSUME Init PROVE ScriptSafe
    OBVIOUS
<1>1. PICK i \in Inputs :
        /\ input = i
        /\ open = <<[rule |-> i.start, since |-> 1]>>
        /\ todo = <<Body[i.start]>>
    BY DEF Init
<1>2. open # <<>> /\ todo[1] = Body[input.start]
    BY <1>1
<1> QED
    BY <1>2, Scripts DEF ScriptSafe, InScript, StopsBetweenCommands

\* In the function of the script itself there is a loop or a call to do, or
\* nothing; a loop that ends its rule is in sync with every token.
LEMMA AtBottom ==
    ASSUME InScript, input.start = "script", open # <<>>, Depth = 1
    PROVE  \/ /\ Rest = <<Commands>> /\ Item = Commands
              /\ Tail(Rest) = <<>> /\ InSync
           \/ /\ Rest = <<[op |-> "call", rule |-> "command"]>> \o <<Commands>>
              /\ Item = [op |-> "call", rule |-> "command"]
              /\ Tail(Rest) = <<Commands>>
           \/ Rest = <<>> /\ La(1) # "ParOpen"
<1> DEFINE c == [op |-> "call", rule |-> "command"]
<1>1. Rest = todo[1] /\ Commands.items = <<c>> /\ Commands.op = "while"
    BY Scripts DEF Rest
<1>2. CASE Rest = <<Commands>>
  <2>1. Item = Commands /\ Tail(Rest) = <<>>
      BY <1>2 DEF Item
  <2>2. Accepts(La(1))
      BY <1>1, <2>1 DEF Accepts
  <2> QED
      BY <1>2, <2>1, <2>2 DEF InSync
<1>3. CASE Rest = <<c>> \o <<Commands>>
  <2>1. Head(Rest) = c /\ Tail(Rest) = <<Commands>>
      BY <1>3, TwoItems
  <2> QED
      BY <1>3, <2>1 DEF Item
<1> QED
    BY <1>1, <1>2, <1>3 DEF InScript

\* The error handler is not at work there.
LEMMA QuietBottom ==
    ASSUME InScript, input.start = "script", open # <<>>, Depth = 1
    PROVE  /\ ~MatchToken /\ ~TakeAlternative /\ ~PassSync
           /\ ~DeleteToken /\ ~InsertToken /\ ~SkipInLoop /\ ~GiveUp
<1>1. Commands.op = "while" /\ [op |-> "call", rule |-> "command"].op = "call"
    BY Scripts
<1>2. ~At("match") /\ ~At("choice") /\ ~At("sync") /\ ~OutOfSync
    BY <1>1, AtBottom DEF At, OutOfSync, Syncing
<1>3. ~Unexpected /\ ~OneTooMany
    BY <1>2 DEF Unexpected, OneTooMany
<1> QED
    BY <1>2, <1>3 DEF MatchToken, TakeAlternative, PassSync, DeleteToken,
       InsertToken, SkipInLoop, GiveUp

\* A step of a function further up leaves the items of the script alone.
LEMMA Deeper ==
    ASSUME TypeOK, InScript, input.start = "script", Depth > 1, Next
    PROVE  open' # <<>> /\ todo'[1] = todo[1] /\ input' = input
<1>1. /\ Depth \in Nat /\ Depth = Len(open) /\ DOMAIN todo = 1..Depth
      /\ open # <<>> /\ open \in Seq(Contexts)
    BY FramesSeq DEF Depth
<1>2. ASSUME NEW STATE items, GoOn(items)
      PROVE  todo'[1] = todo[1]
    BY <1>1, <1>2 DEF GoOn
<1>3. CASE CallRule
  <2> DEFINE before == [todo EXCEPT ![Depth] = Tail(Rest)]
  <2>1. DOMAIN before = 1..Depth /\ before[1] = todo[1]
      BY <1>1
  <2>2. before \in Seq({before[d] : d \in 1..Depth})
    <3>1. before = [d \in 1..Depth |-> before[d]]
        BY <2>1
    <3> HIDE DEF before
    <3>2. [d \in 1..Depth |-> before[d]] \in Seq({before[d] : d \in 1..Depth})
        BY <1>1
    <3> QED
        BY <3>1, <3>2, Zenon
  <2>3. todo' = Append(before, Body[Item.rule])
      BY <1>3 DEF CallRule
  <2>4. open' # <<>> /\ input' = input
      BY <1>1, <1>3 DEF CallRule
  <2> HIDE DEF before
  <2>5. todo'[1] = before[1]
      BY <1>1, <2>1, <2>2, <2>3
  <2> QED
      BY <2>1, <2>4, <2>5
<1>4. CASE ExitRule
  <2>1. open' = SubSeq(open, 1, Depth - 1) /\ todo' = SubSeq(todo, 1, Depth - 1)
      BY <1>4 DEF ExitRule
  <2>2. Len(open') = Depth - 1 /\ todo'[1] = todo[1]
      BY <1>1, <2>1
  <2>3. open' # <<>>
      BY <1>1, <2>2
  <2> QED
      BY <1>4, <2>2, <2>3 DEF ExitRule
<1>5. CASE MatchToken
    BY <1>1, <1>2, <1>5 DEF MatchToken
<1>6. CASE TakeAlternative
    BY <1>1, <1>2, <1>6 DEF TakeAlternative
<1>7. CASE PassSync
    BY <1>1, <1>2, <1>7 DEF PassSync
<1>8. CASE LoopAgain
    BY <1>1, <1>2, <1>8 DEF LoopAgain
<1>9. CASE LeaveLoop
    BY <1>1, <1>2, <1>9 DEF LeaveLoop
<1>10. CASE DeleteToken \/ SkipInLoop \/ Done
    BY <1>1, <1>10 DEF DeleteToken, SkipInLoop, Done, vars
<1>11. CASE InsertToken
    BY <1>1, <1>2, <1>11 DEF InsertToken
<1>12. CASE GiveUp
    BY <1>1, <1>2, <1>12 DEF GiveUp
<1> QED
    BY <1>3, <1>4, <1>5, <1>6, <1>7, <1>8, <1>9, <1>10, <1>11, <1>12 DEF Next

LEMMA BottomNext ==
    ASSUME TypeOK, InScript, input.start = "script", open # <<>>, Depth = 1, Next
    PROVE  ScriptSafe'
<1>1. /\ DOMAIN todo = 1..1 /\ Len(open) = 1 /\ open \in Seq(Contexts)
      /\ Rest = todo[1]
    BY FramesSeq DEF Depth, Rest
<1>2. /\ Commands.op = "while" /\ Commands.toks = {"ParOpen"}
      /\ Commands.items = <<[op |-> "call", rule |-> "command"]>>
    BY Scripts
<1>3. CASE CallRule
  <2>1. Tail(Rest) = <<Commands>>
      BY <1>2, <1>3, AtBottom DEF CallRule, At
  <2>2. todo' = Append([todo EXCEPT ![1] = <<Commands>>], Body[Item.rule])
      BY <1>3, <2>1 DEF CallRule
  <2>3. todo'[1] = <<Commands>>
    <3> DEFINE before == [todo EXCEPT ![1] = <<Commands>>]
    <3>1. before = <<(<<Commands>>)>>
        BY <1>1
    <3> QED
        BY <2>2, <3>1
  <2>4. open' # <<>> /\ input' = input
      BY <1>1, <1>3 DEF CallRule
  <2> QED
      BY <2>3, <2>4 DEF ScriptSafe, InScript, StopsBetweenCommands, Commands
<1>4. CASE LoopAgain
  <2>1. Rest = <<Commands>> /\ Item = Commands
      BY <1>2, <1>4, AtBottom DEF LoopAgain, At
  <2>2. todo'[1] = Commands.items \o <<Commands>>
      BY <1>1, <1>4, <2>1 DEF LoopAgain, GoOn
  <2> QED
      BY <1>4, <2>2, ItemOpen
         DEF LoopAgain, ScriptSafe, InScript, StopsBetweenCommands, Commands
<1>5. CASE LeaveLoop
  <2>1. Item = Commands /\ Tail(Rest) = <<>>
      BY <1>2, <1>5, AtBottom DEF LeaveLoop, At
  <2>2. todo'[1] = <<>> /\ La(1) # "ParOpen"
      BY <1>1, <1>2, <1>5, <2>1 DEF LeaveLoop, GoOn
  <2>3. La(1)' = La(1) /\ open' = open /\ input' = input
      BY <1>5 DEF LeaveLoop, La
  <2> QED
      BY <2>2, <2>3 DEF ScriptSafe, InScript, StopsBetweenCommands, Depth
<1>6. CASE ExitRule
  <2>1. La(1) # "ParOpen"
      BY <1>6, AtBottom DEF ExitRule
  <2>2. La(1)' = La(1) /\ input' = input
      BY <1>6 DEF ExitRule, La
  <2>3. open' = <<>>
      BY <1>1, <1>6 DEF ExitRule
  <2> QED
      BY <2>1, <2>2, <2>3 DEF ScriptSafe, InScript, StopsBetweenCommands
<1> QED
    BY <1>3, <1>4, <1>5, <1>6, QuietBottom DEF Next, Done

LEMMA ScriptNext == TypeOK /\ ScriptSafe /\ [Next]_vars => ScriptSafe'
<1> SUFFICES ASSUME TypeOK, ScriptSafe, [Next]_vars PROVE ScriptSafe'
    OBVIOUS
<1>1. CASE UNCHANGED vars
    BY <1>1 DEF vars, ScriptSafe, InScript, StopsBetweenCommands, Depth, La,
                Commands
<1>2. CASE open = <<>> /\ Next
  <2>1. Done
      BY <1>2, ItemOpen DEF Next, CallRule, MatchToken, TakeAlternative,
         PassSync, LoopAgain, LeaveLoop, ExitRule, DeleteToken, InsertToken,
         SkipInLoop, GiveUp, OneTooMany, Unexpected, OutOfSync, Syncing
  <2> QED
      BY <1>1, <2>1 DEF Done
<1>3. CASE input.start # "script" /\ Next
  <2>1. input' = input
      BY <1>3 DEF Next, CallRule, MatchToken, TakeAlternative, PassSync,
         LoopAgain, LeaveLoop, ExitRule, DeleteToken, InsertToken, SkipInLoop,
         GiveUp, Done, vars
  <2> QED
      BY <1>3, <2>1 DEF ScriptSafe, InScript, StopsBetweenCommands
<1>4. CASE input.start = "script" /\ open # <<>> /\ Depth > 1 /\ Next
  <2>1. open' # <<>> /\ todo'[1] = todo[1] /\ input' = input
      BY <1>4, Deeper DEF ScriptSafe
  <2>2. todo[1] \in {<<Commands>>, Commands.items \o <<Commands>>}
      BY <1>4 DEF ScriptSafe, InScript
  <2> QED
      BY <2>1, <2>2 DEF ScriptSafe, InScript, StopsBetweenCommands, Commands
<1>5. CASE input.start = "script" /\ open # <<>> /\ Depth = 1 /\ Next
    BY <1>5, BottomNext DEF ScriptSafe
<1>6. open # <<>> => Depth \in Nat \ {0}
    BY TopType
<1> QED
    BY <1>1, <1>2, <1>3, <1>4, <1>5, <1>6

\* Damaged or not, a script is read until no command can start.
THEOREM ReadsWholeScript == Spec => []StopsBetweenCommands
<1>1. ScriptSafe => StopsBetweenCommands
    BY DEF ScriptSafe
<1> QED
    BY <1>1, TypeInit, TypeNext, ScriptInit, ScriptNext, PTL DEF Spec
=============================================================================
