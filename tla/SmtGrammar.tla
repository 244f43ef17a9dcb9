----------------------------- MODULE SmtGrammar -----------------------------
(***************************************************************************)
(* The rules of rmutator's generated SMT-LIB parser that a script, a       *)
(* command or an identifier can reach.  A rule is one definition, named as *)
(* its function: the items the function goes through, in order.  The type  *)
(* of a rule's context, its two listener calls and its accessors say which *)
(* kids the rule leaves in the tree, and those are its items too.          *)
(*                                                                         *)
(*   Match(ts)    match_token: the next token must be one of ts            *)
(*   Call(r)      the function of rule r                                   *)
(*   While(ts, s) `while la in ts' around the items s                      *)
(*   Choice(as)   `match la(1)' and `match adaptive_predict(..)': the      *)
(*                first alternative that fits the next tokens              *)
(*   Sync(ts)     err_handler.sync before a loop that starts with a turn;  *)
(*                a While and a Choice begin with a sync of their own      *)
(*                                                                         *)
(* An alternative is a set of lookaheads and its items.  A lookahead is a  *)
(* sequence of token sets.  For `match la(1)' it is the token of the arm;  *)
(* for adaptive_predict it is as many tokens as the decision needs, never  *)
(* more than three: the smallest alternative that can still go on wins.    *)
(***************************************************************************)
EXTENDS Sequences

PredefSymbols ==
    {"PS_Not", "PS_Bool", "PS_ContinuedExecution", "PS_Error", "PS_False",
     "PS_ImmediateExit", "PS_Incomplete", "PS_Logic", "PS_Memout", "PS_Sat",
     "PS_Success", "PS_Theory", "PS_True", "PS_Unknown", "PS_Unsupported",
     "PS_Unsat"}

CommandNames ==
    {"CMD_Assert", "CMD_CheckSat", "CMD_CheckSatAssuming",
     "CMD_DeclareConst", "CMD_DeclareDatatype", "CMD_DeclareDatatypes",
     "CMD_DeclareFun", "CMD_DeclareSort", "CMD_DefineFun",
     "CMD_DefineFunRec", "CMD_DefineFunsRec", "CMD_DefineSort", "CMD_Echo",
     "CMD_Exit", "CMD_GetAssertions", "CMD_GetAssignment", "CMD_GetInfo",
     "CMD_GetModel", "CMD_GetOption", "CMD_GetProof",
     "CMD_GetUnsatAssumptions", "CMD_GetUnsatCore", "CMD_GetValue",
     "CMD_Pop", "CMD_Push", "CMD_Reset", "CMD_ResetAssertions",
     "CMD_SetInfo", "CMD_SetLogic", "CMD_SetOption"}

ReservedWords ==
    {"GRW_Exclamation", "GRW_Underscore", "GRW_As", "GRW_Binary",
     "GRW_Decimal", "GRW_Exists", "GRW_Hexadecimal", "GRW_Forall",
     "GRW_Let", "GRW_Match", "GRW_Numeral", "GRW_Par", "GRW_String"}

PredefKeywords ==
    {"PK_AllStatistics", "PK_AssertionStackLevels", "PK_Authors",
     "PK_Category", "PK_Chainable", "PK_Definition",
     "PK_DiagnosticOutputChannel", "PK_ErrorBehaviour", "PK_Extension",
     "PK_Funs", "PK_FunsDescription", "PK_GlobalDeclarations",
     "PK_InteractiveMode", "PK_Language", "PK_LeftAssoc", "PK_License",
     "PK_Named", "PK_Name", "PK_Notes", "PK_Pattern", "PK_PrintSuccess",
     "PK_ProduceAssertions", "PK_ProduceAssignments", "PK_ProduceModels",
     "PK_ProduceProofs", "PK_ProduceUnsatAssumptions",
     "PK_ProduceUnsatCores", "PK_RandomSeed", "PK_ReasonUnknown",
     "PK_RegularOutputChannel", "PK_ReproducibleResourceLimit",
     "PK_RightAssoc", "PK_SmtLibVersion", "PK_Sorts",
     "PK_SortsDescription", "PK_Source", "PK_Status", "PK_Theories",
     "PK_Values", "PK_Verbosity", "PK_Version"}

ConstantTokens == {"Numeral", "Decimal", "HexDecimal", "Binary", "String"}

\* Comments and white space never reach the parser.
Tokens ==
    {"ParOpen", "ParClose", "Semicolon", "QuotedSymbol", "UndefinedSymbol",
     "Colon"}
        \cup PredefSymbols \cup CommandNames \cup ReservedWords
        \cup PredefKeywords \cup ConstantTokens
EndOfInput == "EOF"

-----------------------------------------------------------------------------
Match(ts) == [op |-> "match", toks |-> ts]
Call(r) == [op |-> "call", rule |-> r]
While(ts, items) == [op |-> "while", toks |-> ts, items |-> items]
Choice(alts) == [op |-> "choice", alts |-> alts]

Sync(ts) == [op |-> "sync", toks |-> ts]

\* `loop { .. if !(la in ts) { break } }': the loop after one turn without
\* a test.
Repeat(ts, items) == <<Sync(ts)>> \o items \o <<While(ts, items)>>

Alt(lookaheads, items) == [when |-> lookaheads, items |-> items]

Open == Match({"ParOpen"})
Close == Match({"ParClose"})

\* The token sets the loops and the arms test.
SimpleStart == PredefSymbols \cup {"UndefinedSymbol"}
SymbolStart == SimpleStart \cup {"QuotedSymbol"}
SortStart == SymbolStart \cup {"ParOpen"}
TermStart == SymbolStart \cup ConstantTokens \cup {"ParOpen"}
KeywordStart == PredefKeywords \cup {"Colon"}
SExprStart == TermStart \cup KeywordStart
IndexStart == SymbolStart \cup {"Numeral"}

Constant1 == <<ConstantTokens>>
Symbol1 == <<SymbolStart>>
Keyword1 == <<KeywordStart>>
Open1 == <<{"ParOpen"}>>
\* ( _ starts an indexed identifier, ( as a qualified one.
Indexed2 == <<{"ParOpen"}, {"GRW_Underscore"}>>
As2 == <<{"ParOpen"}, {"GRW_As"}>>
Applied2 == <<{"ParOpen"}, SortStart>>

-----------------------------------------------------------------------------
(* Words *)

predefSymbol == <<Match(PredefSymbols)>>
predefKeyword == <<Match(PredefKeywords)>>

simpleSymbol ==
    <<Choice(<<Alt({<<PredefSymbols>>}, <<Call("predefSymbol")>>),
               Alt({<<{"UndefinedSymbol"}>>}, <<Match({"UndefinedSymbol"})>>)>>)>>

quotedSymbol == <<Match({"QuotedSymbol"})>>

symbol ==
    <<Choice(<<Alt({<<SimpleStart>>}, <<Call("simpleSymbol")>>),
               Alt({<<{"QuotedSymbol"}>>}, <<Call("quotedSymbol")>>)>>)>>

numeral == <<Match({"Numeral"})>>
decimal == <<Match({"Decimal"})>>
hexadecimal == <<Match({"HexDecimal"})>>
binary == <<Match({"Binary"})>>
string == <<Match({"String"})>>

keyword ==
    <<Choice(<<Alt({<<PredefKeywords>>}, <<Call("predefKeyword")>>),
               Alt({<<{"Colon"}>>}, <<Match({"Colon"}), Call("simpleSymbol")>>)>>)>>

spec_constant ==
    <<Choice(<<Alt({<<{"Numeral"}>>}, <<Call("numeral")>>),
               Alt({<<{"Decimal"}>>}, <<Call("decimal")>>),
               Alt({<<{"HexDecimal"}>>}, <<Call("hexadecimal")>>),
               Alt({<<{"Binary"}>>}, <<Call("binary")>>),
               Alt({<<{"String"}>>}, <<Call("string")>>)>>)>>

SExprList == <<Open, While(SExprStart, <<Call("s_expr")>>), Close>>

s_expr ==
    <<Choice(<<Alt({Constant1}, <<Call("spec_constant")>>),
               Alt({Symbol1}, <<Call("symbol")>>),
               Alt({Keyword1}, <<Call("keyword")>>),
               Alt({Open1}, SExprList)>>)>>

-----------------------------------------------------------------------------
(* Identifiers, attributes and sorts *)

index ==
    <<Choice(<<Alt({<<{"Numeral"}>>}, <<Call("numeral")>>),
               Alt({Symbol1}, <<Call("symbol")>>)>>)>>

identifier ==
    <<Choice(<<Alt({Symbol1}, <<Call("symbol")>>),
               Alt({Open1}, <<Open, Match({"GRW_Underscore"}), Call("symbol")>>
                         \o Repeat(IndexStart, <<Call("index")>>) \o <<Close>>)>>)>>

attribute_value ==
    <<Choice(<<Alt({Constant1}, <<Call("spec_constant")>>),
               Alt({Symbol1}, <<Call("symbol")>>),
               Alt({Open1}, SExprList)>>)>>

\* An attribute has a value when one follows its keyword.
KeywordThen(next) ==
    {<<PredefKeywords, next>>, <<{"Colon"}, SimpleStart, next>>}
NoValue == (Tokens \cup {EndOfInput}) \ TermStart

attribute ==
    <<Choice(<<Alt(KeywordThen(NoValue), <<Call("keyword")>>),
               Alt(KeywordThen(TermStart),
                   <<Call("keyword"), Call("attribute_value")>>)>>)>>

sort ==
    <<Choice(<<Alt({Symbol1, Indexed2}, <<Call("identifier")>>),
               Alt({Applied2}, <<Open, Call("identifier")>>
                            \o Repeat(SortStart, <<Call("sort")>>) \o <<Close>>)>>)>>

qual_identifer ==
    <<Choice(<<Alt({Symbol1, Indexed2}, <<Call("identifier")>>),
               Alt({As2}, <<Open, Match({"GRW_As"}), Call("identifier"),
                            Call("sort"), Close>>)>>)>>

-----------------------------------------------------------------------------
(* Terms *)

var_binding == <<Open, Call("symbol"), Call("term"), Close>>
sorted_var == <<Open, Call("symbol"), Call("sort"), Close>>

pattern ==
    <<Choice(<<Alt({Symbol1}, <<Call("symbol")>>),
               Alt({Open1}, <<Open, Call("symbol")>>
                         \o Repeat(SymbolStart, <<Call("symbol")>>) \o <<Close>>)>>)>>

match_case == <<Open, Call("pattern"), Call("term"), Close>>

Word2(word) == <<{"ParOpen"}, {word}>>
ListOf(rule) == <<Open>> \o Repeat({"ParOpen"}, <<Call(rule)>>) \o <<Close>>
TermList == Repeat(TermStart, <<Call("term")>>)

term_constant == Alt({Constant1}, <<Call("spec_constant")>>)
term_identifier == Alt({Symbol1, Indexed2, As2}, <<Call("qual_identifer")>>)
term_application ==
    Alt({Applied2}, <<Open, Call("qual_identifer")>> \o TermList \o <<Close>>)
term_let ==
    Alt({Word2("GRW_Let")},
        <<Open, Match({"GRW_Let"})>> \o ListOf("var_binding")
            \o <<Call("term"), Close>>)
Quantified(word) ==
    Alt({Word2(word)},
        <<Open, Match({word})>> \o ListOf("sorted_var") \o <<Call("term"), Close>>)
term_forall == Quantified("GRW_Forall")
term_exists == Quantified("GRW_Exists")
term_match ==
    Alt({Word2("GRW_Match")},
        <<Open, Match({"GRW_Match"}), Call("term")>> \o ListOf("match_case")
            \o <<Close>>)
term_attributed ==
    Alt({Word2("GRW_Exclamation")},
        <<Open, Match({"GRW_Exclamation"}), Call("term")>>
            \o Repeat(KeywordStart, <<Call("attribute")>>) \o <<Close>>)

\* An application is tried before an identifier, and with it ( _ and ( as.
BadTerm ==
    <<Choice(<<term_constant,
               Alt({Open1}, <<Open, Call("qual_identifer")>> \o TermList \o <<Close>>),
               term_identifier, term_let, term_forall, term_exists, term_match,
               term_attributed>>)>>

term ==
    <<Choice(<<term_constant, term_identifier, term_application, term_let,
               term_forall, term_exists, term_match, term_attributed>>)>>

-----------------------------------------------------------------------------
(* Declarations *)

sort_dec == <<Open, Call("symbol"), Call("numeral"), Close>>
selector_dec == <<Open, Call("symbol"), Call("sort"), Close>>

constructor_dec ==
    <<Open, Call("symbol"), While({"ParOpen"}, <<Call("selector_dec")>>), Close>>

datatype_plain == Alt({<<{"ParOpen"}, {"ParOpen"}>>}, ListOf("constructor_dec"))
datatype_par ==
    Alt({Word2("GRW_Par")},
        <<Open, Match({"GRW_Par"}), Open>>
            \o Repeat(SymbolStart, <<Call("symbol")>>) \o <<Close>>
            \o ListOf("constructor_dec") \o <<Close>>)
datatype_dec == <<Choice(<<datatype_plain, datatype_par>>)>>

SortedVars == <<Open, While({"ParOpen"}, <<Call("sorted_var")>>), Close>>

function_dec ==
    <<Open, Call("symbol")>> \o SortedVars \o <<Call("sort"), Close>>
function_def ==
    <<Call("symbol")>> \o SortedVars \o <<Call("sort"), Call("term")>>

-----------------------------------------------------------------------------
(* Options and information *)

b_value == <<Match({"PS_False", "PS_True"})>>

\* An option of a known name and kind is that option, any other is an
\* attribute.
Option(name, starts, rule) ==
    Alt({<<{name}, starts>>}, <<Match({name}), Call(rule)>>)
Switch(name) == Option(name, {"PS_False", "PS_True"}, "b_value")
Channel(name) == Option(name, {"String"}, "string")
Number(name) == Option(name, {"Numeral"}, "numeral")

option ==
    <<Choice(<<Channel("PK_DiagnosticOutputChannel"),
               Switch("PK_GlobalDeclarations"),
               Switch("PK_InteractiveMode"),
               Switch("PK_PrintSuccess"),
               Switch("PK_ProduceAssertions"),
               Switch("PK_ProduceAssignments"),
               Switch("PK_ProduceModels"),
               Switch("PK_ProduceProofs"),
               Switch("PK_ProduceUnsatAssumptions"),
               Switch("PK_ProduceUnsatCores"),
               Number("PK_RandomSeed"),
               Channel("PK_RegularOutputChannel"),
               Number("PK_ReproducibleResourceLimit"),
               Number("PK_Verbosity"),
               Alt({Keyword1}, <<Call("attribute")>>)>>)>>

Flag(name) == Alt({<<{name}>>}, <<Match({name})>>)

info_flag ==
    <<Choice(<<Flag("PK_AllStatistics"), Flag("PK_AssertionStackLevels"),
               Flag("PK_Authors"), Flag("PK_ErrorBehaviour"), Flag("PK_Name"),
               Flag("PK_ReasonUnknown"), Flag("PK_Version"),
               Alt({Keyword1}, <<Call("keyword")>>)>>)>>
=============================================================================
