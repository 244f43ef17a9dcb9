----------------------------- MODULE SmtParser -----------------------------
(***************************************************************************)
(* rmutator's generated recursive-descent parser at work on one text.      *)
(*                                                                         *)
(* The functions of the rules call each other; `open' is the chain of      *)
(* their contexts and `todo' what each of them still goes through.  An     *)
(* error does not leave the function that meets it: it is reported, the    *)
(* error handler recovers, exit_rule is called and the function returns    *)
(* Ok, so the caller goes on as if the rule had matched.                   *)
(*                                                                         *)
(* The error handler is antlr_rust's and external: it may delete a token,  *)
(* conjure one up or skip some.  Which tokens it skips is left open.       *)
(***************************************************************************)
EXTENDS SmtCommands, Integers

CONSTANT Inputs   \* the texts, as token sequences, with the rule called

ASSUME InputsAssumption ==
    Inputs \subseteq [start : Rules, tokens : Seq(Tokens)]

VARIABLES
    input,       \* the text; nothing writes it
    pos,         \* the index of the next token
    open,        \* the contexts, each with the place of its entry in heard
    todo,        \* what is left to do, one sequence of items per context
    heard,       \* the calls to the parse listener
    reported,    \* an error was reported
    recovering,  \* errors are not reported until the next match
    failed,      \* where in which rules it failed since the last match
    failedAt     \* and the token the last failure was at

vars == <<input, pos, open, todo, heard, reported, recovering, failed,
          failedAt>>

-----------------------------------------------------------------------------
Depth == Len(open)
Top == open[Depth]
Rest == todo[Depth]
Item == Head(Rest)

\* recog.base.input.la(k)
La(k) == IF pos + k - 1 \in DOMAIN input.tokens
         THEN input.tokens[pos + k - 1] ELSE EndOfInput

At(op) == open # <<>> /\ Rest # <<>> /\ Item.op = op

\* The current function goes through these items next.
GoOn(items) == todo' = [todo EXCEPT ![Depth] = items]

Event(ev, at) == [ev |-> ev, rule |-> Top.rule, at |-> at]
Hear(e) == heard' = Append(heard, e)

\* The next n tokens are read and left out.
Lose(n) ==
    /\ pos' = pos + n
    /\ heard' = heard \o [k \in 1..n |-> Event("lost", pos - 1 + k)]

Fits(alt) ==
    \E ahead \in alt.when : \A k \in DOMAIN ahead : La(k) \in ahead[k]
Chosen(alts) ==
    CHOOSE k \in DOMAIN alts :
        Fits(alts[k]) /\ \A j \in 1..(k - 1) : ~Fits(alts[j])
AnyFits(alts) == \E k \in DOMAIN alts : Fits(alts[k])

\* The tokens sync accepts: what the item can start with and, for a loop,
\* what stands behind it.  A loop at the end of its rule accepts anything.
FirstTokens(alts) ==
    UNION {UNION {ahead[1] : ahead \in alts[k].when} : k \in DOMAIN alts}
Accepts(t) ==
    CASE Item.op = "sync" -> t \in Item.toks
      [] Item.op = "choice" -> t \in FirstTokens(Item.alts)
      [] Item.op = "while" ->
            Tail(Rest) # <<>> => t \in Item.toks \cup Head(Tail(Rest)).toks
Syncing == At("sync") \/ At("choice") \/ At("while")
InSync == recovering \/ Accepts(La(1))

-----------------------------------------------------------------------------
Init ==
    \E i \in Inputs :
        /\ input = i
        /\ pos = 1
        /\ open = <<[rule |-> i.start, since |-> 1]>>
        /\ todo = <<Body[i.start]>>
        /\ heard = <<[ev |-> "enter", rule |-> i.start, at |-> 0]>>
        /\ reported = FALSE /\ recovering = FALSE
        /\ failed = {} /\ failedAt = 0

\* enter_rule
CallRule ==
    /\ At("call")
    /\ Item.rule \in Rules
    /\ open' = Append(open, [rule |-> Item.rule, since |-> Len(heard) + 1])
    /\ todo' = Append([todo EXCEPT ![Depth] = Tail(Rest)], Body[Item.rule])
    /\ Hear([ev |-> "enter", rule |-> Item.rule, at |-> pos - 1])
    /\ UNCHANGED <<input, pos, reported, recovering, failed, failedAt>>

MatchToken ==
    /\ At("match")
    /\ La(1) \in Item.toks
    /\ GoOn(Tail(Rest))
    /\ Hear(Event("leaf", pos))
    /\ pos' = pos + 1
    /\ recovering' = FALSE /\ failed' = {} /\ failedAt' = 0
    /\ UNCHANGED <<input, open, reported>>

TakeAlternative ==
    /\ At("choice")
    /\ InSync
    /\ AnyFits(Item.alts)
    /\ GoOn(Item.alts[Chosen(Item.alts)].items \o Tail(Rest))
    /\ UNCHANGED <<input, pos, open, heard, reported, recovering, failed, failedAt>>

PassSync ==
    /\ At("sync")
    /\ InSync
    /\ GoOn(Tail(Rest))
    /\ UNCHANGED <<input, pos, open, heard, reported, recovering, failed, failedAt>>

LoopAgain ==
    /\ At("while")
    /\ InSync
    /\ La(1) \in Item.toks
    /\ GoOn(Item.items \o Rest)
    /\ UNCHANGED <<input, pos, open, heard, reported, recovering, failed, failedAt>>

\* The loop looks at the token again.
BadLeaveLoop ==
    /\ At("while")
    /\ InSync
    /\ La(1) \notin Item.toks
    /\ UNCHANGED vars

LeaveLoop ==
    /\ At("while")
    /\ InSync
    /\ La(1) \notin Item.toks
    /\ GoOn(Tail(Rest))
    /\ UNCHANGED <<input, pos, open, heard, reported, recovering, failed, failedAt>>

\* A function that met an error returns without exit_rule.
BadExitRule ==
    /\ open # <<>>
    /\ Rest = <<>>
    /\ open' = SubSeq(open, 1, Depth - 1)
    /\ todo' = SubSeq(todo, 1, Depth - 1)
    /\ IF recovering THEN UNCHANGED heard ELSE Hear(Event("exit", Top.since))
    /\ UNCHANGED <<input, pos, reported, recovering, failed, failedAt>>

\* exit_rule, and the function returns Ok.
ExitRule ==
    /\ open # <<>>
    /\ Rest = <<>>
    /\ open' = SubSeq(open, 1, Depth - 1)
    /\ todo' = SubSeq(todo, 1, Depth - 1)
    /\ Hear(Event("exit", Top.since))
    /\ UNCHANGED <<input, pos, reported, recovering, failed, failedAt>>

-----------------------------------------------------------------------------
(* The error handler *)

Unexpected == At("match") /\ La(1) \notin Item.toks
OutOfSync == Syncing /\ ~InSync
OneTooMany ==
    \/ Unexpected /\ La(2) \in Item.toks
    \/ OutOfSync /\ Accepts(La(2))

\* The next token is not wanted and the one behind it is.
DeleteToken ==
    /\ OneTooMany
    /\ La(1) # EndOfInput
    /\ Lose(1)
    /\ reported' = TRUE
    /\ recovering' = FALSE /\ failed' = {} /\ failedAt' = 0
    /\ UNCHANGED <<input, open, todo>>

\* The wanted token is taken to be there: its node is an error node.
InsertToken ==
    /\ Unexpected /\ ~OneTooMany
    /\ GoOn(Tail(Rest))
    /\ Hear(Event("missing", pos - 1))
    /\ reported' = TRUE /\ recovering' = TRUE
    /\ UNCHANGED <<input, pos, open, failed, failedAt>>

\* A loop that has turned skips to something it can go on with.
SkipInLoop ==
    /\ At("while") /\ OutOfSync
    /\ \E n \in 0..(Len(input.tokens) + 1 - pos) : Lose(n)
    /\ reported' = TRUE /\ recovering' = TRUE
    /\ UNCHANGED <<input, open, todo, failed, failedAt>>

Place == <<Top.rule, Rest>>
Again == failedAt = pos /\ Place \in failed

\* The function of the rule returns at once, and what was left to do stays.
BadGiveUp ==
    /\ \/ Unexpected /\ ~OneTooMany
       \/ At("choice") /\ ~AnyFits(Item.alts) /\ ~OneTooMany
       \/ OutOfSync /\ ~OneTooMany
    /\ \E n \in 0..(Len(input.tokens) + 1 - pos) : Lose(n)
    /\ GoOn(<<>>)
    /\ open' = SubSeq(open, 1, Depth - 1)
    /\ reported' = TRUE /\ recovering' = TRUE
    /\ failed' = failed \cup {Place} /\ failedAt' = pos
    /\ UNCHANGED input

\* recover without report_error.
BadSilent ==
    /\ \/ Unexpected /\ ~OneTooMany
       \/ At("choice") /\ ~AnyFits(Item.alts) /\ ~OneTooMany
       \/ OutOfSync /\ ~OneTooMany
    /\ \E n \in 0..(Len(input.tokens) + 1 - pos) :
         /\ Again /\ La(1) # EndOfInput => n > 0
         /\ Lose(n)
    /\ GoOn(<<>>)
    /\ recovering' = TRUE
    /\ failed' = failed \cup {Place} /\ failedAt' = pos
    /\ UNCHANGED <<input, open, reported>>

\* report_error and recover: the rule is given up.  When it fails once more
\* in the same place at the same token, at least one token is skipped.
GiveUp ==
    /\ \/ Unexpected /\ ~OneTooMany
       \/ At("choice") /\ ~AnyFits(Item.alts) /\ ~OneTooMany
       \/ OutOfSync /\ ~OneTooMany
    /\ \E n \in 0..(Len(input.tokens) + 1 - pos) :
         /\ Again /\ La(1) # EndOfInput => n > 0
         /\ Lose(n)
    /\ GoOn(<<>>)
    /\ reported' = TRUE /\ recovering' = TRUE
    /\ failed' = failed \cup {Place} /\ failedAt' = pos
    /\ UNCHANGED <<input, open>>

\* The function that was called first has returned.
Done == open = <<>> /\ UNCHANGED vars

Next ==
    \/ CallRule \/ MatchToken \/ TakeAlternative \/ PassSync
    \/ LoopAgain \/ LeaveLoop \/ ExitRule
    \/ DeleteToken \/ InsertToken \/ SkipInLoop \/ GiveUp
    \/ Done

Spec == Init /\ [][Next]_vars

\* The parser is one thread and runs until it returns.
FairSpec == Spec /\ WF_vars(Next)

-----------------------------------------------------------------------------
Walk == INSTANCE TreeWalk WITH
            open <- open,
            heard <- heard,
            read <- pos - 1

Contexts == [rule : Rules, since : Nat \ {0}]
Events == [ev : {"enter", "leaf", "lost", "missing", "exit"},
           rule : Rules, at : Nat]

TypeOK ==
    /\ input.start \in Rules
    /\ pos \in Nat \ {0}
    /\ open \in Seq(Contexts)
    /\ todo = [d \in DOMAIN open |-> todo[d]]
    /\ heard \in Seq(Events)
    /\ reported \in BOOLEAN /\ recovering \in BOOLEAN
    /\ \A p \in failed : p[1] \in Rules
    /\ failedAt \in Nat

\* The parser with its error handler is a walk of a tree: what exit_term and
\* ast_string take for granted (lib.rs:310, 240), also in a damaged text.
WalksTree == Walk!Spec

\* Every token behind the parser was read once and in its order, as a leaf
\* or as a token a recovery lost.
ReadsInOrder == Walk!InOrder

\* A rule is left after all that was entered in it is left, and once.
ExitsNested == Walk!Nested

IsLeaf(i) == heard[i].ev = "leaf"

\* ast_string prints the leaves (lib.rs:240).  Without a report of an error
\* they are the tokens behind the parser, nothing left out, nothing twice
\* and nothing made up.
PrintedIsRead ==
    ~reported =>
        /\ \A p \in 1..(pos - 1) :
             \E i \in DOMAIN heard : IsLeaf(i) /\ heard[i].at = p
        /\ \A i, j \in DOMAIN heard :
             i < j /\ IsLeaf(i) /\ IsLeaf(j) => heard[i].at < heard[j].at
        /\ \A i \in DOMAIN heard :
             /\ heard[i].ev # "missing"
             /\ IsLeaf(i) => heard[i].at \in 1..(pos - 1)

\* The parse of a file stops at its end or at a token that starts no
\* command (smtlibv2parser.rs:8842); it is never cut off before a "(".
StopsBetweenCommands ==
    open = <<>> /\ input.start = "script" => La(1) # "ParOpen"

\* Why: the context of a script is between two commands, in one, or at a
\* token that is no "(" and about to be left.
Commands == script[1]
InScript ==
    input.start = "script" /\ open # <<>> =>
        \/ todo[1] \in {<<Commands>>, Commands.items \o <<Commands>>}
        \/ todo[1] = <<>> /\ Depth = 1 /\ La(1) # "ParOpen"

\* The parser returns, whatever the text.
Returns == <>(open = <<>>)
=============================================================================
