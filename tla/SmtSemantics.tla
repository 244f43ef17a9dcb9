---------------------------- MODULE SmtSemantics ----------------------------
(***************************************************************************)
(* What the scripts of SmtScript mean to a solver, over a small domain:    *)
(* the value of a term in an environment, and the environments that        *)
(* satisfy the assertions in force at a query.  Truth values are written   *)
(* 0 and 1.  A declared function is a constant one, and define-fun is not  *)
(* interpreted.                                                            *)
(***************************************************************************)
EXTENDS SmtScript, Functions

CONSTANT Domain   \* the values of variables, a finite set of naturals

ASSUME DomainAssumption == {0, 1} \subseteq Domain

Bit(b) == IF b THEN 1 ELSE 0

\* How far behind the arguments of node i are: they are the maximal subtrees
\* below it, and the last one ends at i - 1.
Places(term, i) ==
    {r \in 1..(term[i].size - 1) :
        \A q \in 1..(r - 1) : i - r \notin SpanOf(term, i - q)}

\* What an operator makes of the values of its arguments.
Meaning(op, a) ==
    CASE op = Op("true")  -> 1
      [] op = Op("false") -> 0
      [] op = Op("not")   -> 1 - a[1]
      [] op = Op("and")   -> Bit(\A r \in DOMAIN a : a[r] = 1)
      [] op = Op("or")    -> Bit(\E r \in DOMAIN a : a[r] = 1)
      [] op = Op("=")     -> Bit(\A q, r \in DOMAIN a : a[q] = a[r])
      [] op = Op("<")     -> Bit(\A q, r \in DOMAIN a : q < r => a[r] < a[q])
      [] op = Op("+")     -> FoldFunction(LAMBDA x, y : x + y, 0, a)

\* An environment with the values of h for other names; and one where a
\* binder gave its variables the values of h.
Extended(e, h) ==
    [s \in DOMAIN e \cup DOMAIN h |-> IF s \in DOMAIN e THEN e[s] ELSE h[s]]
Rebound(e, h) == [s \in DOMAIN e |-> IF s \in DOMAIN h THEN h[s] ELSE e[s]]

\* The values of the arguments of node i, the last one first; a named term is
\* the one argument of the node that names it.
Arguments(term, i, val, e) == [r \in Places(term, i) |-> val[i - r][e]]

\* The value of node i in the environment e, from those of earlier nodes.
NodeValue(term, i, val, e) ==
    CASE term[i].kind \in Constants -> term[i].sym[2]
      [] term[i].kind = "binder" ->
            Bit(\A h \in [term[i].bound -> Domain], r \in Places(term, i) :
                    val[i - r][Rebound(e, h)] = 1)
      [] term[i].kind = "symbol" /\ term[i].sym \in Builtin ->
            Meaning(term[i].sym, Arguments(term, i, val, e))
      [] term[i].kind = "named" -> Arguments(term, i, val, e)[1]
      [] OTHER -> e[term[i].sym]

Valuation(term, V) ==
    LET val[i \in DOMAIN term] ==
            [e \in [V -> Domain] |-> NodeValue(term, i, val, e)]
    IN  val
Value(term, env) == Valuation(term, DOMAIN env)[Len(term)][env]

\* The assertions that a query at i is about; an empty one is no assertion.
Asserted(s, i) ==
    {s[j].term : j \in {j \in DOMAIN s :
                           /\ s[j].kind = "assert"
                           /\ s[j].term # <<>>
                           /\ Survives(s, j, i)}}

Satisfies(env, s, i) == \A t \in Asserted(s, i) : Value(t, env) = 1

Environments(symbols) == [symbols -> Domain]
=============================================================================
