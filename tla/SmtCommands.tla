---------------------------- MODULE SmtCommands ----------------------------
(***************************************************************************)
(* The commands of rmutator's generated SMT-LIB parser, the script, and    *)
(* Body, the table of all rules.  Every command is "(", a rule of its own  *)
(* for its name, what the name asks for, and ")": two tokens decide which  *)
(* of the thirty alternatives it is.                                       *)
(*                                                                         *)
(* The rule start (a script and then the end of the file) is never called. *)
(***************************************************************************)
EXTENDS SmtGrammar

cmd_assert == <<Match({"CMD_Assert"})>>
cmd_checkSat == <<Match({"CMD_CheckSat"})>>
cmd_checkSatAssuming == <<Match({"CMD_CheckSatAssuming"})>>
cmd_declareConst == <<Match({"CMD_DeclareConst"})>>
cmd_declareDatatype == <<Match({"CMD_DeclareDatatype"})>>
cmd_declareDatatypes == <<Match({"CMD_DeclareDatatypes"})>>
cmd_declareFun == <<Match({"CMD_DeclareFun"})>>
cmd_declareSort == <<Match({"CMD_DeclareSort"})>>
cmd_defineFun == <<Match({"CMD_DefineFun"})>>
cmd_defineFunRec == <<Match({"CMD_DefineFunRec"})>>
cmd_defineFunsRec == <<Match({"CMD_DefineFunsRec"})>>
cmd_defineSort == <<Match({"CMD_DefineSort"})>>
cmd_echo == <<Match({"CMD_Echo"})>>
cmd_exit == <<Match({"CMD_Exit"})>>
cmd_getAssertions == <<Match({"CMD_GetAssertions"})>>
cmd_getAssignment == <<Match({"CMD_GetAssignment"})>>
cmd_getInfo == <<Match({"CMD_GetInfo"})>>
cmd_getModel == <<Match({"CMD_GetModel"})>>
cmd_getOption == <<Match({"CMD_GetOption"})>>
cmd_getProof == <<Match({"CMD_GetProof"})>>
cmd_getUnsatAssumptions == <<Match({"CMD_GetUnsatAssumptions"})>>
cmd_getUnsatCore == <<Match({"CMD_GetUnsatCore"})>>
cmd_getValue == <<Match({"CMD_GetValue"})>>
cmd_pop == <<Match({"CMD_Pop"})>>
cmd_push == <<Match({"CMD_Push"})>>
cmd_reset == <<Match({"CMD_Reset"})>>
cmd_resetAssertions == <<Match({"CMD_ResetAssertions"})>>
cmd_setInfo == <<Match({"CMD_SetInfo"})>>
cmd_setLogic == <<Match({"CMD_SetLogic"})>>
cmd_setOption == <<Match({"CMD_SetOption"})>>

Command(name, rule, items) ==
    Alt({<<{"ParOpen"}, {name}>>}, <<Open, Call(rule)>> \o items \o <<Close>>)

command_assert == Command("CMD_Assert", "cmd_assert", <<Call("term")>>)
command_checkSat == Command("CMD_CheckSat", "cmd_checkSat", <<>>)
command_checkSatAssuming ==
    Command("CMD_CheckSatAssuming", "cmd_checkSatAssuming", <<>>)
command_declareConst ==
    Command("CMD_DeclareConst", "cmd_declareConst",
        <<Call("symbol"), Call("sort")>>)
command_declareDatatype ==
    Command("CMD_DeclareDatatype", "cmd_declareDatatype",
        <<Call("symbol"), Call("datatype_dec")>>)
command_declareDatatypes ==
    Command("CMD_DeclareDatatypes", "cmd_declareDatatypes",
        ListOf("sort_dec") \o ListOf("datatype_dec"))
command_declareFun ==
    Command("CMD_DeclareFun", "cmd_declareFun",
        <<Call("symbol"), Open, While(SortStart, <<Call("sort")>>), Close,
          Call("sort")>>)
command_declareSort ==
    Command("CMD_DeclareSort", "cmd_declareSort",
        <<Call("symbol"), Call("numeral")>>)
command_defineFun ==
    Command("CMD_DefineFun", "cmd_defineFun", <<Call("function_def")>>)
command_defineFunRec ==
    Command("CMD_DefineFunRec", "cmd_defineFunRec", <<Call("function_def")>>)
command_defineFunsRec ==
    Command("CMD_DefineFunsRec", "cmd_defineFunsRec",
        ListOf("function_dec") \o <<Open>> \o TermList \o <<Close>>)
command_defineSort ==
    Command("CMD_DefineSort", "cmd_defineSort",
        <<Call("symbol"), Open, While(SymbolStart, <<Call("symbol")>>), Close,
          Call("sort")>>)
command_echo == Command("CMD_Echo", "cmd_echo", <<Call("string")>>)
command_exit == Command("CMD_Exit", "cmd_exit", <<>>)
command_getAssertions ==
    Command("CMD_GetAssertions", "cmd_getAssertions", <<>>)
command_getAssignment ==
    Command("CMD_GetAssignment", "cmd_getAssignment", <<>>)
command_getInfo ==
    Command("CMD_GetInfo", "cmd_getInfo", <<Call("info_flag")>>)
command_getModel == Command("CMD_GetModel", "cmd_getModel", <<>>)
command_getOption ==
    Command("CMD_GetOption", "cmd_getOption", <<Call("keyword")>>)
command_getProof == Command("CMD_GetProof", "cmd_getProof", <<>>)
command_getUnsatAssumptions ==
    Command("CMD_GetUnsatAssumptions", "cmd_getUnsatAssumptions", <<>>)
command_getUnsatCore == Command("CMD_GetUnsatCore", "cmd_getUnsatCore", <<>>)
command_getValue ==
    Command("CMD_GetValue", "cmd_getValue", <<Open>> \o TermList \o <<Close>>)
command_pop == Command("CMD_Pop", "cmd_pop", <<Call("numeral")>>)
command_push == Command("CMD_Push", "cmd_push", <<Call("numeral")>>)
command_reset == Command("CMD_Reset", "cmd_reset", <<>>)
command_resetAssertions ==
    Command("CMD_ResetAssertions", "cmd_resetAssertions", <<>>)
command_setInfo ==
    Command("CMD_SetInfo", "cmd_setInfo", <<Call("attribute")>>)
command_setLogic ==
    Command("CMD_SetLogic", "cmd_setLogic", <<Call("symbol")>>)
command_setOption ==
    Command("CMD_SetOption", "cmd_setOption", <<Call("option")>>)

command ==
    <<Choice(<<
        command_assert, command_checkSat, command_checkSatAssuming,
        command_declareConst, command_declareDatatype,
        command_declareDatatypes, command_declareFun, command_declareSort,
        command_defineFun, command_defineFunRec, command_defineFunsRec,
        command_defineSort, command_echo, command_exit,
        command_getAssertions, command_getAssignment, command_getInfo,
        command_getModel, command_getOption, command_getProof,
        command_getUnsatAssumptions, command_getUnsatCore,
        command_getValue, command_pop, command_push, command_reset,
        command_resetAssertions, command_setInfo, command_setLogic,
        command_setOption>>)>>

\* A file is one command.
BadScript == <<Call("command")>>

\* Commands while the next token is "(": whatever else comes next ends the
\* script, and nobody asks for the end of the file.
script == <<While({"ParOpen"}, <<Call("command")>>)>>

-----------------------------------------------------------------------------
\* What the function of a rule goes through.
Body ==
    [predefSymbol |-> predefSymbol, predefKeyword |-> predefKeyword,
     simpleSymbol |-> simpleSymbol, quotedSymbol |-> quotedSymbol,
     symbol |-> symbol, numeral |-> numeral, decimal |-> decimal,
     hexadecimal |-> hexadecimal, binary |-> binary, string |-> string,
     keyword |-> keyword, spec_constant |-> spec_constant,
     s_expr |-> s_expr, index |-> index, identifier |-> identifier,
     attribute_value |-> attribute_value, attribute |-> attribute,
     sort |-> sort, qual_identifer |-> qual_identifer,
     var_binding |-> var_binding, sorted_var |-> sorted_var,
     pattern |-> pattern, match_case |-> match_case, term |-> term,
     sort_dec |-> sort_dec, selector_dec |-> selector_dec,
     constructor_dec |-> constructor_dec, datatype_dec |-> datatype_dec,
     function_dec |-> function_dec, function_def |-> function_def,
     b_value |-> b_value, option |-> option, info_flag |-> info_flag,
     cmd_assert |-> cmd_assert, cmd_checkSat |-> cmd_checkSat,
     cmd_checkSatAssuming |-> cmd_checkSatAssuming,
     cmd_declareConst |-> cmd_declareConst,
     cmd_declareDatatype |-> cmd_declareDatatype,
     cmd_declareDatatypes |-> cmd_declareDatatypes,
     cmd_declareFun |-> cmd_declareFun,
     cmd_declareSort |-> cmd_declareSort, cmd_defineFun |-> cmd_defineFun,
     cmd_defineFunRec |-> cmd_defineFunRec,
     cmd_defineFunsRec |-> cmd_defineFunsRec,
     cmd_defineSort |-> cmd_defineSort, cmd_echo |-> cmd_echo,
     cmd_exit |-> cmd_exit, cmd_getAssertions |-> cmd_getAssertions,
     cmd_getAssignment |-> cmd_getAssignment, cmd_getInfo |-> cmd_getInfo,
     cmd_getModel |-> cmd_getModel, cmd_getOption |-> cmd_getOption,
     cmd_getProof |-> cmd_getProof,
     cmd_getUnsatAssumptions |-> cmd_getUnsatAssumptions,
     cmd_getUnsatCore |-> cmd_getUnsatCore, cmd_getValue |-> cmd_getValue,
     cmd_pop |-> cmd_pop, cmd_push |-> cmd_push, cmd_reset |-> cmd_reset,
     cmd_resetAssertions |-> cmd_resetAssertions,
     cmd_setInfo |-> cmd_setInfo, cmd_setLogic |-> cmd_setLogic,
     cmd_setOption |-> cmd_setOption, command |-> command, script |-> script]

Rules == DOMAIN Body
=============================================================================
