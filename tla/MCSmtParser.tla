----------------------------- MODULE MCSmtParser -----------------------------
(***************************************************************************)
(* SmtParser on every kind of command, well formed, and on short texts     *)
(* with one token deleted, inserted or replaced.                           *)
(***************************************************************************)
EXTENDS SmtParser, FiniteSets

CONSTANTS Bases,     \* which of the texts below are edited
          Strays     \* the tokens an edit puts in

O == "ParOpen"
C == "ParClose"
U == "UndefinedSymbol"
N == "Numeral"

Cmd(name, s) == <<O, name>> \o s \o <<C>>
Paren(s) == <<O>> \o s \o <<C>>
Binding == Paren(<<U, N>>)      \* also a sorted variable where U follows
SortedVar == Paren(<<U, U>>)
Indexed == Paren(<<"GRW_Underscore", U, N>>)
ArraySort == Paren(<<U, U>> \o Indexed)
Constructor == Paren(<<U>> \o SortedVar)

Terms ==
    {<<N>>, <<"Decimal">>, <<"HexDecimal">>, <<"Binary">>, <<"String">>,
     <<U>>, <<"QuotedSymbol">>, <<"PS_True">>, Indexed,
     Paren(<<"GRW_As">> \o <<U>> \o ArraySort),
     Paren(<<U, U, N>>),
     Paren(<<"PS_Not">> \o Paren(<<U, "PS_False">>)),
     Paren(Indexed \o <<U>>),
     Paren(<<"GRW_Let">> \o Paren(Binding \o Binding) \o <<U>>),
     Paren(<<"GRW_Forall">> \o Paren(SortedVar) \o <<U>>),
     Paren(<<"GRW_Exists">> \o Paren(Paren(<<U>> \o ArraySort)) \o <<U>>),
     Paren(<<"GRW_Match", U>> \o Paren(SortedVar \o Paren(SortedVar \o <<U>>))),
     Paren(<<"GRW_Exclamation", U, "PK_Named", U>>),
     Paren(<<"GRW_Exclamation", U, "PK_Pattern">> \o Paren(<<U, "PK_Name", "Colon", U>>)
           \o <<"Colon", U, "PK_Notes">>)}

FunctionDef == <<U>> \o Paren(SortedVar) \o <<U, U>>

Sentences ==
    {Cmd("CMD_Assert", t) : t \in Terms}
    \cup {Cmd(c, <<>>) : c \in
            {"CMD_CheckSat", "CMD_CheckSatAssuming", "CMD_Exit", "CMD_GetAssertions",
             "CMD_GetAssignment", "CMD_GetModel", "CMD_GetProof",
             "CMD_GetUnsatAssumptions", "CMD_GetUnsatCore", "CMD_Reset",
             "CMD_ResetAssertions"}}
    \cup {Cmd(c, FunctionDef) : c \in {"CMD_DefineFun", "CMD_DefineFunRec"}}
    \cup {Cmd(c, <<N>>) : c \in {"CMD_Pop", "CMD_Push"}}
    \cup {Cmd("CMD_SetOption", o) : o \in
            {<<"PK_ProduceModels", "PS_True">>, <<"PK_ProduceModels", U>>,
             <<"PK_RandomSeed", N>>, <<"PK_RandomSeed">>,
             <<"PK_DiagnosticOutputChannel", "String">>,
             <<"PK_Status", U>>, <<"Colon", U, N>>, <<"Colon", U>>}}
    \cup {Cmd("CMD_GetInfo", <<k>>) : k \in {"PK_Name", "PK_Status"}}
    \cup {Cmd("CMD_CheckSatAssuming", Paren(<<"PS_True">>)),
          Cmd("CMD_DeclareConst", <<U>> \o ArraySort),
          Cmd("CMD_DeclareConst", <<U>> \o Indexed),
          Cmd("CMD_DeclareDatatype", <<U>> \o Paren(Constructor \o Paren(<<U>>))),
          Cmd("CMD_DeclareDatatype",
              <<U>> \o Paren(<<"GRW_Par">> \o Paren(<<U>>) \o Paren(Constructor))),
          Cmd("CMD_DeclareDatatypes",
              Paren(Binding) \o Paren(Paren(Paren(<<U>>)))),
          Cmd("CMD_DeclareFun", <<U>> \o Paren(<<U>> \o ArraySort) \o <<U>>),
          Cmd("CMD_DeclareSort", <<U, N>>),
          Cmd("CMD_DefineFunsRec",
              Paren(Paren(<<U>> \o Paren(SortedVar) \o <<U>>)) \o Paren(<<U>>)),
          Cmd("CMD_DefineSort", <<U>> \o Paren(<<U>>) \o <<U>>),
          Cmd("CMD_Echo", <<"String">>),
          Cmd("CMD_GetOption", <<"PK_ProduceModels">>),
          Cmd("CMD_GetValue", Paren(<<U>> \o Paren(<<U, N>>))),
          Cmd("CMD_SetInfo", <<"PK_Status", "PS_Sat">>),
          Cmd("CMD_SetLogic", <<U>>)}

\* The texts that are edited.
Base ==
    [assertion |-> Cmd("CMD_Assert", Paren(<<U, N>>)) \o Cmd("CMD_CheckSat", <<>>),
     binding |-> Cmd("CMD_Assert", Paren(<<"GRW_Let">> \o Paren(Binding) \o <<U>>)),
     attribute |-> Cmd("CMD_Assert", Paren(<<"GRW_Exclamation", U, "PK_Named", U>>)),
     option |-> Cmd("CMD_SetOption", <<"PK_RandomSeed", N>>),
     declaration |-> Cmd("CMD_DeclareFun", <<U, O, C, U>>)]

Deletions(s) ==
    {SubSeq(s, 1, k - 1) \o SubSeq(s, k + 1, Len(s)) : k \in DOMAIN s}
Insertions(s) ==
    {SubSeq(s, 1, k) \o <<t>> \o SubSeq(s, k + 1, Len(s)) :
        k \in 0..Len(s), t \in Strays}
Replacements(s) == {[s EXCEPT ![k] = t] : k \in DOMAIN s, t \in Strays}
Edits(s) == Deletions(s) \cup Insertions(s) \cup Replacements(s)

\* Files, the commands cmd_from builds and the names qual_id_from builds.
MCInputs ==
    {[start |-> "script", tokens |-> s] :
        s \in Sentences \cup UNION {Edits(Base[b]) : b \in Bases}
                \cup {<<>>, Cmd("CMD_Reset", <<>>) \o Cmd("CMD_Exit", <<>>) \o <<C>>}}
    \cup {[start |-> "command", tokens |-> Cmd("CMD_Assert", t)] :
            t \in {<<>>, Paren(<<U, U>> \o Binding)}}
    \cup {[start |-> "qual_identifer", tokens |-> <<U>>]}

-----------------------------------------------------------------------------
(***************************************************************************)
(* The language of the rules, without lookahead: all the places where a    *)
(* derivation that starts at token i can end.                              *)
(***************************************************************************)
RECURSIVE Ends(_, _, _)
EndsOf(s, i, item) ==
    CASE item.op = "match" -> IF i <= Len(s) /\ s[i] \in item.toks THEN {i + 1} ELSE {}
      [] item.op = "call" -> Ends(s, i, Body[item.rule])
      [] item.op = "choice" ->
            UNION {Ends(s, i, item.alts[k].items) : k \in DOMAIN item.alts}
      [] item.op = "while" ->
            {i} \cup UNION {Ends(s, j, <<item>>) : j \in Ends(s, i, item.items) \ {i}}
      [] item.op = "sync" -> {i}
Ends(s, i, items) ==
    IF items = <<>> THEN {i}
    ELSE UNION {Ends(s, j, Tail(items)) : j \in EndsOf(s, i, Head(items))}

\* A derivation the function of the start rule would stop after: a script is
\* taken as far as commands go.
CleanEnds ==
    {e \in Ends(input.tokens, 1, Body[input.start]) :
        input.start = "script" =>
            (e <= Len(input.tokens) => input.tokens[e] # "ParOpen")}

\* The lookaheads decide right (smtlibv2parser.rs:5037, 12050 and the loops'
\* tests): an error is reported exactly when the text does not start with
\* something the rules derive, and without one that is what was read.  Nothing
\* is read behind the end.
ErrorsAreErrors ==
    open = <<>> =>
        /\ reported <=> CleanEnds = {}
        /\ ~reported => pos \in CleanEnds
        /\ pos <= Len(input.tokens) + 1
=============================================================================
