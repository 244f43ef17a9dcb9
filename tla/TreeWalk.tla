------------------------------ MODULE TreeWalk ------------------------------
(***************************************************************************)
(* What a parse listener is promised, whatever the grammar and the input:  *)
(* rules are entered and left one inside the other, and every token is     *)
(* read once and in its order, as a leaf of the innermost open rule or as  *)
(* a token that a recovery lost.  rmutator counts on it: exit_term is to   *)
(* come when the kids of the term are complete, and ast_string prints the  *)
(* leaves in the order of the tree.                                        *)
(***************************************************************************)
EXTENDS Integers, Sequences

CONSTANT Rules

VARIABLES
    open,    \* the rules that are entered and not left, outermost first,
             \* each with the place of its entry in heard
    heard,   \* the calls to the listener so far
    read     \* how many tokens are behind the parser

vars == <<open, heard, read>>

Event ==
    [ev : {"enter", "leaf", "lost", "missing", "exit"}, rule : Rules, at : Nat]
OpenRule == [rule : Rules, since : Nat]

Top == open[Len(open)]
Hear(e) == heard' = Append(heard, e)

TypeOK ==
    /\ open \in Seq(OpenRule)
    /\ heard \in Seq(Event)
    /\ read \in Nat

-----------------------------------------------------------------------------
Init ==
    \E r \in Rules :
        /\ open = <<[rule |-> r, since |-> 1]>>
        /\ heard = <<[ev |-> "enter", rule |-> r, at |-> 0]>>
        /\ read = 0

Enter(r) ==
    /\ open # <<>>
    /\ open' = Append(open, [rule |-> r, since |-> Len(heard) + 1])
    /\ Hear([ev |-> "enter", rule |-> r, at |-> read])
    /\ UNCHANGED read

Leaf ==
    /\ open # <<>>
    /\ Hear([ev |-> "leaf", rule |-> Top.rule, at |-> read + 1])
    /\ read' = read + 1
    /\ UNCHANGED open

\* A node for a token that is not there.
Missing ==
    /\ open # <<>>
    /\ Hear([ev |-> "missing", rule |-> Top.rule, at |-> read])
    /\ UNCHANGED <<open, read>>

\* A recovery passes over some tokens, none perhaps.
Lose ==
    /\ open # <<>>
    /\ read' \in Nat /\ read <= read'
    /\ heard' = heard \o [k \in 1..(read' - read) |->
                    [ev |-> "lost", rule |-> Top.rule, at |-> read + k]]
    /\ UNCHANGED open

Exit ==
    /\ open # <<>>
    /\ Hear([ev |-> "exit", rule |-> Top.rule, at |-> Top.since])
    /\ open' = SubSeq(open, 1, Len(open) - 1)
    /\ UNCHANGED read

Next ==
    \/ \E r \in Rules : Enter(r)
    \/ Leaf
    \/ Missing
    \/ Lose
    \/ Exit

Spec == Init /\ [][Next]_vars

-----------------------------------------------------------------------------
Reads(e) == e.ev \in {"leaf", "lost"}

\* The tokens read are the first `read' tokens, each once and in order.
InOrder ==
    /\ \A i \in DOMAIN heard : Reads(heard[i]) => heard[i].at \in 1..read
    /\ \A i, j \in DOMAIN heard :
         i < j /\ Reads(heard[i]) /\ Reads(heard[j]) => heard[i].at < heard[j].at
    /\ \A p \in 1..read : \E i \in DOMAIN heard : Reads(heard[i]) /\ heard[i].at = p

\* An exit answers an earlier entry of the same rule, which no other exit
\* answers, and whatever was entered in between was left in between.
LeftRight(j) ==
    /\ heard[j].at \in 1..(j - 1)
    /\ heard[heard[j].at].ev = "enter"
    /\ heard[heard[j].at].rule = heard[j].rule
    /\ \A i \in heard[j].at + 1 .. j - 1 :
         /\ heard[i].ev = "exit" => heard[i].at > heard[j].at
         /\ heard[i].ev = "enter" =>
                \E k \in i + 1 .. j - 1 : heard[k].ev = "exit" /\ heard[k].at = i
Nested == \A j \in DOMAIN heard : heard[j].ev = "exit" => LeftRight(j)

\* Nothing stays open at the end.
AllLeft ==
    open = <<>> =>
        \A i \in DOMAIN heard : heard[i].ev = "enter" =>
            \E j \in DOMAIN heard : heard[j].ev = "exit" /\ heard[j].at = i
=============================================================================
