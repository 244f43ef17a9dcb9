# Checked and proved models of the constant-swapping and mutation tools

The repository holds the small programs of a study on differential testing:
`constant-swap/rmutator` rewrites SMT-LIB scripts and compares two solvers on
the variants, `constant-swap/cswap` is an earlier parser and printer for the
same scripts, `diff-matlab-compiler` mutates MATLAB functions and compares
interpreter and compiler, and `type-testgen` parses Haskell signatures. This
directory models them in TLA+, checks the models with TLC and proves what
matters most with TLAPS. `lib.rs` without a path is
`constant-swap/rmutator/src/lib.rs`.

## 1. Inventory

| component | state | operations | talks to |
|---|---|---|---|
| rmutator, listener and rewriting (`test_file`, `exit_term`, lib.rs:56-169, 227-337) | parse tree edited in place; `vng.counter`, `new_vars`, `bexps`; two insertion points | `exit_term` on a constant, on an operator, on another term; insert declarations, equations, placeholder; overwrite the placeholder | called back by the parser while it builds the tree |
| rmutator, enumeration (lib.rs:154-179) | `truths`, the permutation iterator, `unique`'s hash set | yield, drop, next weight | its body overwrites the placeholder, writes the file, calls `solve` |
| rmutator, files and solvers (`exec`, `solve`, lib.rs:42-58, 170-225) | directory iterator, `iterations`, the files in the working directory | open a sample, write a variant, run cvc4, run z3, report, remove | file system, two processes, the user |
| generated parser (`smtlibv2parser.rs`, `smtlibv2lexer.rs`, `smtlibv2listener.rs`) | next token, chain of contexts, error flags | one function per rule: `script`, `command`, `term`, ...; the error handler | calls the listener when it enters and leaves a rule; called by `test_file`, `cmd_from`, `qual_id_from` |
| cswap (`cswap/src/lib.rs`) | none from file to file | strip comments, parse, print, parse again, compare | the samples directory |
| matlab driver (`driver/driver.m`) | loop variables; mutants and binaries under `target/`; the two bug files of a mutant | `gen`, `exec`, `report` | mutator, `mcc`, the interpreted and the compiled mutant, the user |
| matlab-mutator (`matlab-mutator/src`) | the bytes, the replacements drawn | pick positions, pick operators, splice one by one | run by the driver |
| reducer (`driver/reduction/reducer.hs`) | the compiled binary | compile, run both, compare | run by a delta debugger |
| type-testgen (`my-project/src`) | none | lex, parse, substitute | - |
| MATLAB Coder output, nsolv image, samples, raw data | - | - | generated or data |

Nothing runs two threads of its own. What makes the programs hard is:

* *order*: the listener edits a tree the parser is still building; insertions
  shift the positions that later insertions use; the copied terms must be
  taken after their constants were replaced and before the scope they come
  from is lost;
* *scope*: a term copied to the first check-sat may have left its quantifier,
  its function's parameters or its push level, or a reset may have dropped what
  it speaks of; and a `:named` attribute in it is copied with it, so that its
  name is given twice;
* *the environment*: errors of the file system are dropped, the solvers answer
  anything or nothing and have no timeout, the user stops the program and runs
  it again in the same directory, where all samples share one name space;
* *errors that do not stop*: a rule function of the parser that meets an error
  returns `Ok`, and the tree goes on with tokens missing, made up or skipped;
  cswap's `many0` ends at what it cannot read and says nothing;
* *comparison of strings*: "unsat" contains "sat", and MATLAB's `==` expands a
  row of one character;
* *files of an earlier step or session*: `driver.m` looks at no exit status, so
  a mutant or binary that could not be made is replaced by the one left there.

`PROJECT.json` lists each hazard at its line with the properties that would
catch it. What makes each component correct:

* the variants of a sample are scripts a solver accepts whenever that is
  possible, and they split the models of the sample among themselves;
* every combination of truth values is tried, once;
* every variant of every sample is judged, each verdict is about that
  variant, contradictions are reported, and the file a message names is there
  to look at;
* every MATLAB mutant meets every input once; what is compared is the mutant of
  the file as it is; a bug file describes an input on which the two sides
  differed, and both files of a mutant the same one;
* the mutator changes as many operators as it was told, where they stand, and
  nothing else;
* the parser takes the texts its rules derive and no others without an error,
  calls the listener for each rule once and in the order of the tree, also in a
  damaged text, and returns;
* what cswap prints has the words it read, and only damaged files are cut off
  or refused.

## 2. Modules

    AssignmentSweep                abstract: each assignment once, lightest first
    TruthEnumeration               the loops; implements AssignmentSweep
      MCTruthEnumeration           N = 3
      TruthEnumerationProofs       theorems
    SmtScript                      scripts, terms in post-order, scoping
      ScriptMutation               listener, insertions, loop body
        ScriptMeaning              properties against the sample's meaning
          MCScriptMeaning          menus of samples
          ScriptMeaningProofs      theorems about both
      SmtSemantics                 the value of a term, satisfaction
    TreeWalk                       abstract: what a parse listener is promised
      TreeWalkProofs               theorems
    SmtGrammar, SmtCommands        the rules, one definition per rule function
      SmtParser                    the functions at work, the error handler;
                                   implements TreeWalk
        MCSmtParser                texts, damaged texts; the language itself
        SmtParserProofs            theorems
    Rmutator                       exec, files, solve, faults, stops, restarts
      MCRmutator                   small directories
      RmutatorProofs               theorems
    MatlabMutator                  flip_ops and replace on the bytes of a file
      MCMatlabMutator              short texts
      MatlabMutatorProofs          theorems
    Driver                         driver.m, its tools, files and user
      MCDriver                     outputs
      DriverProofs                 theorems
    CswapText                      cswap's parsers and printer as operators
      Cswap                        exec, one file after the other
        MCCswap                    short texts, commands, pairs of commands
        CswapProofs                theorems

`TruthEnumeration` abstracts from what an assignment is used for,
`ScriptMutation` from the order in which assignments come (its `SetAssertion`
takes any) and `Rmutator` from what is in a variant (a pair of sample and
number). Their interfaces are the assignment (`tried`, `values`) and the
variant number (`Len(tried)`, `iterations`). `SmtParser` gives the order of the
listener's calls, `ScriptMutation` what the listener does in them: that a term
is left when its kids are complete is `TreeWalk`'s `Nested` in the one and the
post-order of a term's nodes in the other. `Driver` abstracts from what the
mutator does to a text: a mutant is the version of the file it was made of, the
seed and the number being part of its name.

### TruthEnumeration

`pending` is the set of index permutations itertools has still to yield: the
order is left open, so the results do not depend on it. `seen` is the hash set
inside `unique()`, new in every round because `unique()` is called inside the
outer loop. `Emit` is the loop body's turn, `Drop` what `unique` swallows.

### SmtScript and SmtSemantics

A term is the sequence of its nodes in post-order, the order in which ANTLR
leaves its rules and calls `exit_term`; a node knows the size of its subtree.
That makes the listener's walk a walk along a sequence, and a copied subtree a
contiguous piece of it. Symbols are pairs of a spelling and a number, so that
`GEN3` is `<<"GEN", 3>>`. `Legal` and what it uses is the solvers' reading of
a script from left to right: names are declared before use and not twice,
`pop` takes back what its level added (`Survives`, `Kept`), `reset` and
`reset-assertions` take back everything before them, every `pop` has a `push` to
undo (`Balanced`), `set-logic` stands first and again only behind a `reset`
(`LogicFirst`), an assertion has a term. A term `(! t :named a)` is a node over t
that gives the name `a`, as a declaration does. `SmtSemantics`
gives a term its value over a small domain: `NodeValue` is the value of a node
from those of the nodes before it, and `Valuation` the recursive function that
this defines. An operator takes the values of the maximal subtrees below it,
which stand at `Places`. Both modules stand for cvc4 and z3, which are not in
the repository, and are marked external. Not told apart:

* sorts: all declared constants are values, a declared function is a constant one;
* `let` and `match` (no sample of the runs has them), and attributes other than
  `:named`, which give no name;
* that a named term must be closed, and that its name can be used only from the
  next command on. To `SmtSemantics` such a name is an unknown like any other,
  not tied to the term it names;
* datatypes and recursive function definitions;
* `(push n)` and `(pop n)`, which are n commands;
* `reset-assertions` in cvc4: `reset-assertions1.smt2` and `issue4077.smt2` in
  `cswap/cswap/samples` use a declaration from before it. Modelled is what SMT-LIB 2.6 says
  and z3 does, that it drops declarations unless they were made global. Scripts
  with `:global-declarations` are kept out of `AcceptedExactly` (`Ordinary`).

### ScriptMutation

| action | code |
|---|---|
| `ExitTerm` = `ReplaceConstant`, `CopyTerm` or `LeaveAlone` | `exit_term`, lib.rs:310-336 |
| `NextCommand` | the loop of `script()`, smtlibv2parser.rs:8838-8857 |
| `InsertDecls` | lib.rs:90-124: set-logic position, declarations |
| `InsertInits` | lib.rs:126-152: check-sat position, equations, placeholder |
| `SetAssertion` | lib.rs:161-168 |

`script` is the tree, `source` a history variable with the file as it was
read. A numeral that parses as `i64` has kind "numeral", every other
`spec_constant` kind "constant"; both are replaced, only the first is declared.

### ScriptMeaning

Its properties compare the variant with the sample and not with the edits:
`AcceptedExactly` says for which samples the variants are accepted at all. It is an
equivalence, so that it would also notice an insertion that is right for the
wrong reason. Its condition is on the sample alone: each boolean operation could
have been written at the first check-sat (`Liftable`), the names its `:named`
parts give are free there and no other operation gives them (`Nameable`), no reset
stands between the declarations and where they are needed (`Reached`), no constant
is without a declaration, and no name of the sample is one that is made up for
it. The samples are `Ordinary`, see the proofs. `OriginalRecovered` says
that giving the generated names the old constants as values turns the models of
a variant into exactly those models of the sample under which the boolean
operations have the variant's truth values, `VariantsDisjoint` that the variants
do not overlap for any values of those names, `QueriesConstrained` that the first
query stands under the truth assertion and every equation, and each later one
too, unless the sample resets or pops the level on which its first query was made:
in `(check-sat)(reset-assertions)(check-sat)` the second is not. `OriginalRecovered` is about samples that are
`Fresh`: they do not use a name that is made up for them, and the domain has
their constants. From a sample that does use `GEN1`, as a variant fed back does,
nothing is recovered; that its variants are rejected if it declares the name is
part of `AcceptedExactly`.

### Rmutator

| action | code |
|---|---|
| `TestFile`, `SkipEntry`, `EndOfDir` | `exec`'s loop and the `expect` at lib.rs:58 |
| `Write` | lib.rs:170-175; may fail silently, leaving the old file or a torn one |
| `Cvc4Returns`, `Z3Returns` | lib.rs:183-209; any result, in any time |
| `Report`, `ReportError`, `Remove` | the match at lib.rs:211-224; `Remove` may fail silently |
| `FileDone` | the loops end |
| `Stop`, `Restart` | the user |

A result is `ok = FALSE` when the process cannot be started, fails with
something on stderr, or prints no UTF-8; else it is the sequence of answers.
Only the answers matter to `contains`. `disk` maps a file name, `<<name, k>>`
for `k_name`, to the variant whose text it holds. `log` is a history variable
of the lines printed and the files removed, with what the solvers could read
at the time.

### MatlabMutator

`bytes` is the text as the replacements so far have left it, `source` the text
in which the regular expression found the operators. `Repments` are all results
`choose_multiple` and `choose` can have, in any order: the generator is
seeded, but nothing in the properties depends on its numbers. An operator may
be replaced by itself (matlab-mutator/src/lib.rs:29), so that a mutant may have
fewer mutations than `-n` promises (main.rs:45); `ChangesBounded` says exactly
when. `FlipOps` is
`flip_ops` up to the call of `replace`, `Replace` one turn of its loop, `Finish`
the write. A file that cannot be read or written ends the program in a panic
with nothing or half a file written; `Driver` has that.

### Driver

| action | code |
|---|---|
| `NextFile`, `EndOfFiles` | the loop over files and the draw of the seed, driver.m:10-15 |
| `Mutate` | `gen` up to the mutator, driver.m:68-76; a failure leaves the old mutant, none or half of one |
| `Compile` | `gen`, mcc, driver.m:78-83; a failure leaves the old binary, none or half of one |
| `Throws` | an error in the mutant, or no mutant, and the `catch`, driver.m:21-27 |
| `Interpreted`, `Ran` | `exec`, driver.m:56-65; any output, after any time |
| `Agree`, `ReportJson`, `ReportTxt` | `report`, driver.m:36-49; opening a bug file may fail |
| `NextNum`, `NextMutant` | the ends of the inner loops |
| `Close`, `Edit`, `Start` | the user; closing cuts short the file that is being written |

Outputs are rows of characters, because MATLAB's `==` looks at their lengths:
`Same` is `all(r1 == r2)` with its `catch`. `log` is a history variable: for each
input of each mutant the outcome, the version of the file at that time and the
versions that were really interpreted and run. `target`, `binary`, `json` and
`txt` are the files that survive a session.

The model assumes that `target` and `bugs` exist, that MATLAB sees a mutant
rewritten on disk (it watches its path), that no two function files agree up to
the first dot of their names, and that a bug file is on disk when the next step
begins (the handles are never closed; MATLAB flushes files opened with 'w').
The seed is drawn anew in each session and may be the same one: with nine
million seeds that is rare, but the only case in which names meet again.
`CLEANUP_FILES` is 0, so that its branch is dead.

### SmtGrammar, SmtCommands and TreeWalk

Every rule function that a script, a command or an identifier can reach is a
definition of the same name: the items the function goes through, from a token
it matches to the alternatives it chooses from. `match la(1)` and
`adaptive_predict` are both a `Choice`; the lookahead of the second is as many
tokens as that decision needs. An alternative of `command` or `term` is a
definition of its own. The rules are data to `SmtParser`, whose actions are the
statements they are made of. Tokens are their types; the lexer is a serialized
automaton, which is data, and is left out with comments and white space. Not
reached, and left out: `start`, the rules of solver responses, of theories and
logics, and `prop_literal`.

`TreeWalk` knows no grammar: rules are entered and left one inside the other,
tokens are read in order as leaves or lost to a recovery. It is the contract of
a parse listener (`smtlibv2listener.rs`) on which `exit_term` and `ast_string`
rest.

### SmtParser

| action | code |
|---|---|
| `CallRule`, `ExitRule` | `enter_rule` and `exit_rule` with their listener calls, smtlibv2parser.rs:8828-8868 and in every function |
| `TakeAlternative` | `match`, smtlibv2parser.rs:12046-12050 |
| `LoopAgain`, `LeaveLoop`, `PassSync` | the loops and `err_handler.sync`, smtlibv2parser.rs:8840-8853 |
| `MatchToken`, `DeleteToken`, `InsertToken` | `match_token`: the token, or one too many, or one that is missing |
| `SkipInLoop` | `sync` in a loop that has turned |
| `GiveUp` | the `Err` arm, smtlibv2parser.rs:8860-8864: report, recover, return `Ok` |

`open` is the chain of contexts, `todo` what is left of each function, `heard` a
history variable of the calls to the listener. Where the run-time's recovery
skips tokens, any number is possible, so that the results do not depend on its
follow sets; only that a second failure at one place skips at least one token
is taken from it, and `Returns` needs it. `ErrorsAreErrors` compares the parser
with the language of the same rules, computed without any lookahead. That
`(check-sat-assuming (p))` is no sentence of this grammar is a fact of
smtlibv2parser.rs:12093, and the run shows it as an error.

### CswapText and Cswap

Parsers are operators from a text and a position to a result, named as in the
code; a text is a sequence of pieces: single characters, standing for their
class (`x` for letters, `1` for digits), and the words the parsers look for,
which are never split. `Fatal` is nom's `Failure`, which no alternative
catches: `recognize_float` makes one of an exponent without digits. `Generic`
holds its text where the code has slices of it, which are cut at parentheses
only.

The parsers call each other in circles (`sexp` through `many1(sexp)`,
`unknown_balanced` through `many0(unknown_balanced)`), always further on in the
text: `Many`, `Ends` and `script` are recursive functions on the places of the
text, and no operator is RECURSIVE, so that theorems can be stated about them. A
tree of `SExp` or `Sort` is the sequence of its leaves in their order with marks
around and between the nodes of a list, which says as much as the tree does.

| action | code |
|---|---|
| `ReadFile`, `CannotRead`, `NextFile`, `EndOfDir` | `exec`'s loop and its `expect`s, cswap/src/lib.rs:311-317 |
| `RemoveComments` | cswap/src/lib.rs:318 |
| `Parse` | cswap/src/lib.rs:319, 323: `script` twice on one text is one result |
| `Compare` | the assertion, cswap/src/lib.rs:320 |

`WordsKept` compares the printed text with the words of the sample as SMT-LIB
reads them, found without a parser. It holds of plain words and strings with
single blanks: a string that touches a symbol, as in `x"a  b"`, becomes part of
it, is cut at its blanks, and loses one of two. `PanicsExplained` gives a
reason that is necessary for each panic of `exec`, and not sufficient: no parts
only in an empty file or an open comment, a parse error only at an exponent
without digits, and a second parse that fails or differs only over an odd command,
one that was left unknown or has a symbol that begins with a quote. The first two
parts are about one parser each; the third is about the whole of parsing and
printing. `StraysExplained` is exact where the
script is tidy: the parses differ if and only if text stands between two
commands outside parentheses. `TidyScriptsKept` is this and `WordsKept`.

`Tidy` is needed there. The parser takes a quote for the
beginning of a string where it is the first character of an expression, and for a
part of a symbol anywhere else, and it looks for the end of a string at any
distance. In a tidy text these are the strings SMT-LIB sees, and none of them has
a parenthesis inside. Nothing simple is true of the others: in
`(assert("x))(set-logic x")` the string ends in the second command, so that the
first is unknown to the parser; the second is printed with `QLIA` in place of
`x"`, and read again the first is an assertion of a list with the symbol `"x`.

## 3. Runs

| run | question | bounds and why they are enough |
|---|---|---|
| `enum` | is every assignment tried, once, lightest first; do the loops end | N = 3: permutations repeat (6 for 3 vectors), all weights from none to all |
| `accepted` | what the listener does; which variants a solver accepts; which queries are constrained; do the variants split the sample's models | every legal sample of up to 5 commands (`MaxLen`), commands and boolean operations up to 7 together (`MaxSize`), from each of three menus. The general one: push/pop around declaration, assertion and query, `define-fun`, a quantifier, no or several check-sats, missing and leading set-logic, nested operations. The two others, for samples that begin with a declaration: `reset` and `reset-assertions` before, between and behind declarations and queries; `:named` terms, alone and inside a boolean operation, and uses of the name. And some longer ones: a decimal, a name given in two nested operations or behind the query, a declaration or a query after a reset, samples that use GEN1 or BAV1 themselves, with and without a reset; values 0 and 1. Takes two minutes |
| `campaign` | verdicts, evidence and leftovers over two runs | three samples, two of one name; one with two variants; one file-system error, one stop anywhere, two runs. One answer suffices: the two others change no file differently |
| `judgement` | what the comparison can tell; termination | two check-sats, all outputs of up to two of three answers; one unreadable sample |
| `mutator` | what a replacement touches, how many operators change | texts of up to four bytes over two of the four operators and another character (what matters is whether an operator is replaced by itself, by another, and where it stands), -n missing or from none to more than there are operators |
| `driver` | what comparisons and bug files are about; completeness over sessions | one file, two mutants, two inputs, two outputs; one failure, one edit, two sessions. One seed, so that a name is used again in the second session |
| `driver_judge` | what the comparison can tell; completeness over files and seeds; termination | all outputs of up to two of three characters and some of three, so that every length meets every other; two files, two seeds, one mutant and one input, one failure |
| `parser` | which texts are errors; the order of the listener's calls; what the tree holds; termination | a sentence for every command, every kind of term, option and declaration, and every deletion, insertion and replacement of one token in five texts by seven tokens, so that every action of the error handler happens in every kind of construct |
| `text` | which words survive reading and printing; where the parser stops; what panics | every text of up to 5 pieces of eight; seven kinds of commands with some 400 arguments, glued or not; pairs of six commands with eight separators between and behind them; strings that touch a symbol, and strings that begin in one command and end in the next |
| `missed`, `false_alarm`, `roundtrip` | the three disagreements below | the smallest samples and directories that show them; for `roundtrip` legal scripts only |

`CHECK_DEADLOCK FALSE` is set where the program ends: after the loops of
`TruthEnumeration`, after the last run of `Rmutator`, at the end of
`MatlabMutator` and after the last session of `Driver`. `ScriptMutation` does
not stop: `SetAssertion` stays enabled; `SmtParser` and `Cswap` stutter in `Done`
and `Stopped`.

`MaxFaults` and `MaxRuns` bound file-system errors and starts, `MaxSessions` and
`MaxEdits` the starts and edits of `Driver`, `MaxLen` and `MaxSize` the samples of
the menu, `Domain` the values. `campaign` uses the symmetry of the two samples
that share a name, which have equal constants and about which no property
makes a difference; it checks safety only.

### Fairness

`TruthEnumeration!FairSpec` is weak fairness of the whole next-state relation:
the loops are a single thread. `Rmutator!FairSpec` is weak fairness of the
program's own steps only. Nothing makes a solver return, since the code sets no
timeout: `EndsIfSolversReturn` assumes it, in its statement. `Driver!FairSpec`
likewise covers what the script does, the mutator and mcc included, which
compute and end. A mutant need not: `EndsIfProgramsReturn` says that the driver
ends, or is closed, again and again, if no run of a mutant lasts for ever.

`SmtParser!FairSpec` is weak fairness of the whole next-state relation: the
parser is one thread that does not wait for anything.

### What the violated properties show

* `missed`: cvc4 `sat` against z3 `unsat` is not reported and the file is
  removed, since `contains("sat")` holds of "unsat" (lib.rs:216).
  `JudgementSound` states what remains true.
* `false_alarm`: cvc4 `sat` against z3 `unknown` is printed as a soundness
  problem (lib.rs:214-217).
* `roundtrip`: text outside parentheses comes back from printing with a line
  break more, and parentheses are counted in strings too, so that exec's
  assertion fails on a legal script that echoes `) x (` (cswap/src/lib.rs:278,
  320). `StraysExplained` says exactly which tidy files make it fail, and
  `PanicsExplained` that every failure involves an odd command.

Some promises do not hold of all samples, and `AcceptedExactly` has them in
its condition: a sample with a `GEN1` of its own gets a second one
(lib.rs:289-292; "fresh variables" in `notes24_3.txt`), and decimals, strings,
bit-vectors and huge numerals become names that nothing declares
(lib.rs:314-317; "may need to initialize" in `constant-swap/notes.md`). A
reset before the first check-sat drops the declarations the equations need, and
from `(assert (and (! p :named a) q))` come variants that name `a` twice
(lib.rs:324-335), which solvers reject.

## 4. Proofs

TLAPS checks the following for all values of the constants.

*TruthEnumerationProofs*, from `N \in Nat`. `NoRepeat` and `AllTried` are not
inductive. The invariant adds `RoundsComplete` (tried so far: all lighter
assignments and those in `seen`), `SeenWeight` (those have the current
weight) and `RoundCovered` (every assignment of the current weight is in
`seen` or some pending permutation yields it). Its base case, in every round,
is `EveryVectorReached`: any vector with t TRUEs is a permutation of the
ordered one, by gluing a bijection between the TRUEs to one between the
FALSEs. `Refinement` follows: the emitted vector is new, and nothing lighter
is left.

*ScriptMeaningProofs* begins with the listener, from `NamesAssumption` and `ScriptsAssumption` (samples
are scripts, subtrees fit in their terms and into each other, constants are
leaves). The five
invariants of the listener are inductive together: `OnlyConstantsReplaced`
says that a node not yet left is as in the file, which `NumeralsDeclared` and
`CopiesInPlace` need; `CopiesInPlace` rests on `SubtreeKept`, that replacing a
node disturbs no subtree the parser has left before.

The rest of *ScriptMeaningProofs* is from the same and `DomainAssumption`. `Built` says what a variant
consists of in terms of the parsed sample: the declarations inserted behind
set-logic, then the truth assertion and the equations before the first
check-sat. It is inductive (`WellBuilt`), with the parts recovered from the
script by taking the insertions out again. What follows is about scripts of any
origin. `Spliced` is an insertion without push, pop and resets; every command keeps
its level (`DepthSpliced`, a bijection between the pushes before and after) and
the resets around it (`ResetsSpliced`), so what was in force for a command still
is (`SurvivesSpliced`), and so is what was inserted, unless a reset or a pop came
since (`KeptSpliced`). `Constrained` follows: between the truth assertion and the
first query nothing is popped or reset, and whatever ends the assertion for a
later query ends the first query too.

For `Accepted`, renaming the constants of a term adds their names to its free
names and captures none (`FreeRenamed`) and leaves the names it gives alone
(`LabelsRenamed`); an equation speaks of its name and its term's (`FreeEquation`)
and gives the names its term gives (`LabelsEquation`). A script is legal if its
shape is (`Balanced`, `LogicFirst`, terms where they belong) and every command fits
where it stands: it uses only names in force there and gives none of them. What
is in force behind an insertion are the names of before and those it gives,
as long as these are kept (`NamesInserted`, with `Given`). So declarations, commands
of the sample, equations and truth assertion are looked at one kind at a time
(`DeclsFit`, `CommandsFit`, `CopiesFit`, `QueryFits`). Which equations stand before
which matters, since one may use a name that another gives: the later operation's
equation comes first (`CopiesNumbered`, which rests on `InNumberedOrder`). For the
other direction, `NamesClash`, `ConstantsFit`, `InitFits` and `NamesKeptApart` say
what a legal variant tells of its sample.

The attempt to prove `AcceptedExactly` as it first stood failed, and rightly:
the equivalence does not hold of every sample. `Ordinary` names the samples it is
not about:

* a term before set-logic cannot see the declarations;
* a sample that declares the name which a decimal gets makes its variant legal by
  accident;
* a binder or a parameter with a generated name captures it;
* a sample that declares a generated name and resets may be legal by accident too: in
  `(assert (< 0 1))(check-sat)(reset)(declare-const GEN1 Int)` the name that is
  declared twice is out of force when it is declared again;
* global declarations outlive resets and pops;
* behind an `exit` nothing is read, so that one may stand only at the end, behind
  the first check-sat.

A sample that declares a `GEN` or `BAV` name of an integer or a copied term and
does not reset is still ordinary, and its variants are rejected.

`Disjoint` is about values. That a valuation exists at all for a term of any
length is an induction over data, and is proved as the library proves such
things, from a least counterexample: the first nodes have values, and so have
the next ones (`ValuesNext`, `ValuesExist`), so `Valuation` is what its defining
equation says (`ValuationDef`). `Simulation` is the one theorem about terms: where
one term follows another node by node and the two environments agree on the
names, all nodes have equal values; it gives `Coincidence`, that other names do
not matter, and that a copy inside an equation has the value it has by itself.
`BamValue` reads the truth assertion, whose n equations and n conjunctions lie
as `LaidOut` says: it holds where every name has its truth value. Since the truth
assertion and the equations are in force at the first query (`InsertedAsserted`),
a copied term has the value of its name, and that is the variant's. The copies
are trees whose names are the sample's or made up (`CopyTree`), which is why the
assumption on samples says that subtrees nest.

`Recovered` needs to know which constant a name replaced and which operation a
copy is of, where `Built` only says that there is one. `Numbered` adds it: the k-th
constant in the order of the file has the k-th name, the k-th boolean operation
is the k-th copy. It is stated for the nodes the parser has left, so that it is
inductive: the node at the parser is the next of its kind (`NumberHere`), since
the nodes left are those before it. `Numbering` says that such numbers are a
bijection, so that `Originals` and `Profile`, which go from the number to the
node, are what `Numbered` says of the nodes. From there: an insertion adds its own
assertions to those of the first query and takes none away (`AssertedSpliced`,
`QuerySpliced`), so that a variant's first query is about the sample's
assertions with constants renamed, the truth assertion and the equations, and
about nothing else (`VariantAsserts`). In an environment that gives the names the
old constants, each term of the tree restores the sample's (`Restored`), and so
does each of its subtrees, so that both have the sample's values (`TermValue`,
`CopyValue`). Then a variant holds exactly where the sample's assertions hold
and the truth names have the values of the operations and of the variant
(`VariantModel`). One direction chooses values for the truth names: it needs 0
and 1 in the domain (`DomainAssumption`), and that a boolean operation has one of
them as its value (`BoolValue`).

*RmutatorProofs*, from `RmutatorAssumption`. `Progress` ties the log to the
loop variables (samples behind the cursor are complete, the current one up to
`iterations`) and gives `RunComplete`; `Written` (without errors the current
file holds the current variant from the write to the verdict) gives
`VerdictsAttributable`; for `EvidenceKept`, `Progress` shows that a variant of
the run's own log is never written again. `LostOnlyToNamesake` is an action
property from the same invariant. `LeftoversExplained` needs `Accounted`, which
speaks of the run while it goes on: each file is explained by the log, by a
sample that was skipped, by the current variant, or by a sample this run has
still to come to, because an earlier run was stopped there. `JudgementSound`
follows from the guards of the judging actions and what `contains` means.

*MatlabMutatorProofs*, from `MutatorAssumption`. `ReplacedInPlace` is inductive
with `RepmentsDistinct` (the replacements stand at different operators of the
original text) and `Drawn` (how many there are): a later replacement can then
not undo an earlier one. `SameCandidates` and `ChangesBounded` follow, the
second by counting: the changed positions are among those the replacements
name, and these are as many as the replacements.

*DriverProofs*, from `DriverAssumption`. `RunsAttributable` needs `Current`: until
a tool fails the mutant under a name is that of the file as it is from the
moment the mutator has run, whatever was there before. `BugFilesLatest` needs
`InOrder`, that the session knows of the current mutant only the inputs before
the current one, so that the input being written is the last one that differs,
and `Pairing`, that between the two files the first is written. The fault
counter only grows, which makes "until a tool fails" inductive.
`SessionComplete` needs `Sweeping`: for the files the session is done with every
number and input has its one entry, under one seed; for the current file those
before the current number and input; and no entry of this session is about
anything else, so that the seed drawn for a file is the only one it has.
`JudgementSound` is the meaning of MATLAB's `==` on rows: equal rows are never
told apart, and rows of different lengths only compare when one is a scalar or
empty.

*TreeWalkProofs*, for any set of rules. `Nested` is not inductive: its invariant
adds that the entries of the open rules are the unanswered ones and lie in the
order of the chain, so that the next exit answers the last of them. `LeftAll`
is the same invariant at the empty chain.

*SmtParserProofs*, from `InputsAssumption`. `ParserWalks` is the refinement: the
walk's `read` is the parser's position less one, each action of the parser is an
action of the walk or a stutter, and an error handler that skips any number of
tokens is a `Lose`. `ParserReadsInOrder` and `ParserExitsNested` are the walk's
theorems carried over. `PrintsWhatWasRead` needs that `reported` never goes back,
and that until then there is no lost and no missing token, so that all events
that read are leaves. `ReadsWholeScript` proves `StopsBetweenCommands` with the
invariant `InScript`: the context of the script is between two commands, in
one, or at a token that is no "(" and about to be left. The error handler never
works in that context, since a loop that ends its rule takes any token for the
one behind it; so what it does further up leaves the items of the script alone.

*CswapProofs*, from `SamplesAssumption`. The parsers are recursive functions on the
places of a text that ask for what is further on. That such a function exists is
an induction over data, and is proved from a least counterexample as in
`ScriptMeaningProofs`: `ValuesAt` is a function that is right from a place on,
`Backwards` that there is one for every place; `ManyIs`, `EndsIs`, `CommandsIs` and
`FlattenIs` are its uses. Then every parser yields a result further on, of its
type, or none, or a fatal one (`Yields`, up to `CommandYields`). `Stops`: where
no unknown text can be taken the text is at its end, at a ")", or at a "(" from
which `Ends` finds no end; in the last case the surplus of opening parentheses
stays positive to the end, because unknown texts have none left over
(`EndsEven`, `DepthBehind`). `Explained`: a fatal result comes from `decimal` only,
through every alternative and list (`Mild`, from `MildDecimal` to `MildScript`),
and the text has a bare exponent then; and the parts of a file without its
comments are none only if it begins with a comment that does not end
(`Stripped`). `StageInv` ties the results in the state to these functions of the
file.

The rest of *CswapProofs* is that what is printed is read again. A printed tree
is strung together from the leaves of the tree (`Joins`, `Stands`), and the parser
comes by each part in turn. A leaf has to be read as the same leaf though other
things stand behind it: each of the parsers that `alt` tries before the right one
fails at the same piece as it did in the file (`SingleAgain`, and for numbers that
a hexadecimal, a binary and a decimal constant begin alike). `TreesAgain` and
`KnownAgain` carry this over trees and the seven commands, `ScriptOrigin` says that
the commands of a script were all read somewhere in the file, and `PrintedAgain`
goes through the printed script from its end. Only strings break it: a symbol
begins with a quote if no other quote follows in the file, and one may follow
in the printed text. `AgainInv` is the invariant: the second parse, where no
command is odd, has the value of the first. With `StageInv` it gives `Explained`,
for all texts, tidy or not.

The attempt to prove `WordsKept` and what is now `StraysExplained` showed that
neither held of every text as they first stood. Both now ask for `Tidy`, and the counterexamples
are among the samples of the run `text`: `(assert("x))(set-logic x")` and
`(assert((("x))))(declare-const x(x" Int1e))` compare unequal and have no text
outside parentheses; `(assert (x"x 1"))` is read and printed with other words.
`Relogicked` also took a `(set-logic x)` inside an assertion for a command.

Model-checked only: liveness (`EventuallyAllTried`, `EndsIfSolversReturn`,
`EndsIfProgramsReturn`, `Returns`), `ErrorsAreErrors` (a language is a
recursion), and `TidyScriptsKept`: `WordsKept` is about what SMT-LIB sees in a text,
which is a recursion of its own beside the parser's, and `StraysExplained` needs
also that a text left unknown, with the line breaks printing adds, is left unknown
again.

## 5. Not modelled, and the plan

Left out for good:

* the lexers: rmutator's is a serialized automaton run by antlr_rust;
* antlr_rust itself: its prediction is modelled by the tokens a decision needs,
  its recovery by what it may skip;
* the rules of the grammar that nothing calls;
* the reducer: `reducer.hs` compiles, runs both sides, compares and exits, and
  the delta debugger that calls it again and again is not in the repository.
  Two things can go wrong in it: a stale binary, since the exit code of `mcc` is
  not looked at (17), and an empty output, which is an infix of everything (22);
* type-testgen: a Happy grammar whose result nothing reads (`split` at
  Parser.y:185 takes the head of an empty list when a directive is not closed);
* the cost of the enumeration: `permutations` makes `num_bavs!` vectors in each
  round, so that a sample of twelve boolean operations does not end in practice;
* memory, generated MATLAB code, data files.

Next, in this order:

1. `Campaign`: `Rmutator` with `TruthEnumeration` inside, in place of numbers;
   an abstract differential tester (every variant gets one verdict) that
   `Rmutator` and `Driver` implement, with the refinements proved.
2. `SmtParser` and `ScriptMutation` in one: the listener run on a damaged tree.
