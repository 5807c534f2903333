----------------------------- MODULE Expression -----------------------------
(***************************************************************************)
(* translators/aggregate/expression.ts: what the SurrealQL an aggregation  *)
(* expression compiles to evaluates to over a row.                         *)
(*                                                                         *)
(* An expression is <<"path", path>>, <<"variable", name>>, <<"literal",   *)
(* value>>, <<"document", fields>>, <<"list", expressions>>, or an         *)
(* operator: <<name, operands>>, <<name, record>> where the operand is a   *)
(* document that names its parts.                                          *)
(*                                                                         *)
(* A variable stands for the text it compiles to: the <<"parameter", n>>   *)
(* of a closure, or the <<"text", expression, variables>> a $let puts in   *)
(* its place. Parameters hold what the innermost closure of that number    *)
(* has bound.                                                              *)
(***************************************************************************)
EXTENDS Update

fieldPath(path, identityIsPlainField) ==
    IF path = <<"_id">> /\ ~identityIsPlainField THEN <<"id">> ELSE path

\* What an expression is evaluated in.
scope(row, identityIsPlainField) ==
    [row |-> row, plain |-> identityIsPlainField, variables |-> <<>>, parameters |-> <<>>]

-----------------------------------------------------------------------------
(* Closures *)

firstParameter_zero(variables) == 0             \* every closure's is mql_v0

\* A closure's parameters are numbered from how many names are already bound.
firstParameter(variables) == Cardinality(DOMAIN variables)

withClosureVariables(env, bound, values) ==
    LET n == firstParameter(env.variables)
        at(name) == CHOOSE i \in DOMAIN bound : bound[i] = name
    IN  [env EXCEPT
           !.variables  = [name \in Range(bound) |-> <<"parameter", n + at(name)>>] @@ @,
           !.parameters = [k \in (n + 1)..(n + Len(bound)) |-> values[k - n]] @@ @]

withVariable(env, name, value) == withClosureVariables(env, <<name>>, <<value>>)

\* Each variable of a $let is compiled outside it.
withVariables(env, vars) ==
    [env EXCEPT !.variables =
       [name \in DOMAIN vars |-> <<"text", vars[name], env.variables>>] @@ @]

-----------------------------------------------------------------------------
(* Operators over values. Dates count hours, and day 0 is a Monday. *)

Comparisons4 == RangeOperators \cup {"$eq", "$ne"}
DATE_ADD_UNITS   == "hour" :> 1 @@ "day" :> 24 @@ "week" :> 168
DATE_DIFF_UNITS  == "hour" :> 1 @@ "day" :> 24
DATE_TRUNC_UNITS == DATE_DIFF_UNITS

areOf(t, vs) == \A i \in DOMAIN vs : isType(vs[i], t)
arrays(vs) == areOf("array", vs)
distinctOf(v) == union(array(<<>>), v)
intersect(v, w) == array(SelectSeq(distinctOf(v)[2], LAMBDA x : x \in elements(w)))
setDifference(v, w) == distinctOf(complement(v, w))
extend(v, w) == IF isType(v, "object") /\ isType(w, "object") THEN object(w[2] @@ v[2]) ELSE ABORTS
float(v) == v                                   \* a number has halves already
quotient(v, w) == IF w[2] = 0 THEN ABORTS ELSE number((v[2] * 2) \div w[2])
duration(n) == IF n < 0 THEN ABORTS ELSE <<"duration", n>>
magnitudeOf(n) == IF n < 0 THEN -n ELSE n

\* array::fold of two-place functions, from the left
folded2(vs, op(_, _)) ==
    FoldLeft(LAMBDA x, y : IF x = ABORTS THEN x ELSE op(x, y), Head(vs), Tail(vs))

Arithmetic == {"$add", "$multiply", "$subtract", "$divide", "$mod"}

applied2(op, vs) ==
    CASE op \in Arithmetic /\ ~areOf("number", vs) -> ABORTS
      [] op = "$add"      -> folded2(vs, plus)
      [] op = "$multiply" -> folded2(vs, times)
      [] op = "$subtract" -> plus(vs[1], times(number(-2), vs[2]))
      [] op = "$divide"   -> quotient(float(vs[1]), vs[2])
      [] op = "$mod"      -> number(remainder(vs[1][2], vs[2][2]))
      [] op = "$eq"  -> bool(IF vs[1] = vs[2] THEN 1 ELSE 0)
      [] op = "$ne"  -> bool(IF vs[1] = vs[2] THEN 0 ELSE 1)
      [] op \in RangeOperators -> bool(IF compares(vs[1], op, vs[2]) THEN 1 ELSE 0)
      [] op = "$not" -> bool(IF vs[1] = bool(1) THEN 0 ELSE 1)
      [] op = "$size" -> IF isArray(vs[1]) THEN number(2 * Len(vs[1][2])) ELSE ABORTS
      [] op = "$arrayElemAt" ->
           LET n == vs[2][2] \div 2
               i == IF n < 0 THEN Len(vs[1][2]) + n + 1 ELSE n + 1
           IN  IF ~isArray(vs[1]) THEN ABORTS
               ELSE IF i \in DOMAIN vs[1][2] THEN vs[1][2][i] ELSE NONE
      [] op = "$reverseArray" -> IF arrays(vs) THEN array(Reverse(vs[1][2])) ELSE ABORTS
      [] op = "$concatArrays" -> folded2(vs, concat)
      [] op = "$in" -> bool(IF contains(vs[2], vs[1]) THEN 1 ELSE 0)
      [] op = "$setUnion" -> IF arrays(vs) THEN distinctOf(folded2(vs, concat)) ELSE ABORTS
      [] op = "$setIntersection" ->
           IF arrays(vs) THEN distinctOf(folded2(vs, intersect)) ELSE ABORTS
      [] op = "$setDifference" -> IF arrays(vs) THEN setDifference(vs[1], vs[2]) ELSE ABORTS
      [] op = "$setEquals" ->
           IF ~arrays(vs) THEN ABORTS
           ELSE bool(IF Cardinality({ sorted(distinctOf(v), FALSE) : v \in Range(vs) }) = 1 THEN 1 ELSE 0)
      [] op = "$setIsSubset" ->
           IF arrays(vs) THEN bool(IF elements(vs[1]) \subseteq elements(vs[2]) THEN 1 ELSE 0)
           ELSE ABORTS
      [] op = "$mergeObjects" -> folded2(vs, extend)
      [] op = "$objectToArray" ->
           LET ns == SetToSeq(DOMAIN vs[1][2])
           IN  IF ~isType(vs[1], "object") THEN ABORTS
               ELSE array([i \in DOMAIN ns |-> object("k" :> <<"name", ns[i]>> @@ "v" :> vs[1][2][ns[i]])])
      [] op = "$arrayToObject" ->
           LET of(x, i) == IF isArray(x) THEN x[2][i] ELSE member(x, IF i = 1 THEN "k" ELSE "v")
           IN  IF ~isArray(vs[1]) THEN ABORTS
               ELSE object(FoldLeft(LAMBDA f, x : of(x, 1)[2] :> of(x, 2) @@ f, <<>>, vs[1][2]))
      [] op = "$dayOfWeek" ->
           LET iso == ((vs[1][2] \div 24) % 7) + 1
           IN  IF areOf("date", vs) THEN number(2 * ((iso % 7) + 1)) ELSE ABORTS

dateAdd(start, unit, amount) ==
    LET span(n) == duration((n \div 2) * DATE_ADD_UNITS[unit])
    IN  IF ~areOf("date", <<start>>) \/ ~areOf("number", <<amount>>) THEN ABORTS
        ELSE IF amount[2] >= 0 THEN date(start[2] + span(amount[2])[2])
        ELSE date(start[2] - span(magnitudeOf(amount[2]))[2])
dateDiff(start, end, unit) ==
    LET span(x, y) == duration(x[2] - y[2])[2] \div DATE_DIFF_UNITS[unit]
    IN  IF ~areOf("date", <<start, end>>) THEN ABORTS
        ELSE number(2 * (IF compares(end, "$gte", start) THEN span(end, start) ELSE -span(start, end)))
dateTrunc(v, unit, binSize) ==
    LET bin == (binSize[2] \div 2) * DATE_TRUNC_UNITS[unit]
    IN  IF areOf("date", <<v>>) THEN date((v[2] \div bin) * bin) ELSE ABORTS

-----------------------------------------------------------------------------
(* compileExpression *)

RECURSIVE evaluate(_, _)

compileReference(name, env) ==
    LET bound == env.variables[name] IN
    IF name \notin DOMAIN env.variables THEN NOW              \* $$NOW
    ELSE IF bound[1] = "parameter" THEN env.parameters[bound[2]]
    ELSE evaluate(bound[2], [env EXCEPT !.variables = bound[3]])

\* AND and OR are of what is before them and stop where they know.
junction(es, env, decisive) ==
    LET at == { i \in DOMAIN es : evaluate(es[i], env) \in {ABORTS, bool(decisive)} }
    IN  IF at = {} THEN bool(1 - decisive)
        ELSE evaluate(es[CHOOSE i \in at : \A k \in at : i <= k], env)

chosen(test, env, yes(_), no(_)) ==
    CASE evaluate(test, env) = ABORTS  -> ABORTS
      [] evaluate(test, env) = bool(1) -> yes(env)
      [] OTHER -> no(env)

strict(vs, result(_)) == IF ABORTS \in Range(vs) THEN ABORTS ELSE result(vs)

mapOver(v, env, as, e) ==
    IF ~isArray(v) THEN ABORTS
    ELSE strict([i \in DOMAIN v[2] |-> evaluate(e, withVariable(env, as, v[2][i]))], array)

filterOver(v, env, as, cond) ==
    LET tests == [i \in DOMAIN v[2] |-> evaluate(cond, withVariable(env, as, v[2][i]))]
        kept(ts) == array([i \in DOMAIN SelectSeq([k \in DOMAIN ts |-> k], LAMBDA k : ts[k] = bool(1)) |->
                             v[2][SelectSeq([k \in DOMAIN ts |-> k], LAMBDA k : ts[k] = bool(1))[i]]])
    IN  IF isArray(v) THEN strict(tests, kept) ELSE ABORTS

\* The fold begins with its array's first element, which is the initial value.
reduceOver(v, env, initial, e) ==
    LET seeded == concat(array(<<initial>>), v)
        step2(value, current) ==
          evaluate(e, withClosureVariables(env, <<"value", "this">>, <<value, current>>))
    IN  IF initial = ABORTS \/ ~isArray(v) THEN ABORTS ELSE folded2(seeded[2], step2)

evaluate(e, env) ==
    LET op == e[1]
        of == e[2]
        part(name) == evaluate(of[name], env)
        args == [i \in DOMAIN of |-> evaluate(of[i], env)] IN
    CASE op = "path"     -> read(env.row, fieldPath(of, env.plain))
      [] op = "variable" -> compileReference(of, env)
      [] op = "literal"  -> of
      [] op = "document" ->
           strict([i \in DOMAIN of |-> evaluate(of[i][2], env)],
                  LAMBDA vs : object([n \in { of[i][1] : i \in DOMAIN of } |->
                                        vs[CHOOSE i \in DOMAIN of : of[i][1] = n]]))
      [] op = "list"   -> strict(args, array)
      [] op = "$and"   -> junction(of, env, 0)
      [] op = "$or"    -> junction(of, env, 1)
      [] op = "$cond"  -> chosen(of[1], env, LAMBDA x : evaluate(of[2], x), LAMBDA x : evaluate(of[3], x))
      [] op = "$ifNull" -> FoldRight(LAMBDA v, rest : IF v \in {NONE, NULL} THEN rest ELSE v,
                                     Front(args), Last(args))
      [] op = "$switch" ->
           FoldRight(LAMBDA b, rest : chosen(b[1], env, LAMBDA x : evaluate(b[2], x), LAMBDA x : rest),
                     of.branches, IF of.default = {} THEN NONE ELSE evaluate(CHOOSE d \in of.default : TRUE, env))
      [] op = "$map"    -> mapOver(part("input"), env, of.as, of.in)
      [] op = "$filter" -> LET found == filterOver(part("input"), env, of.as, of.cond)
                           IN  IF of.limit = {} \/ found = ABORTS THEN found
                               ELSE slice(found, 0, CHOOSE n \in of.limit : TRUE)
      [] op = "$reduce" -> reduceOver(part("input"), env, part("initialValue"), of.in)
      [] op = "$let"    -> evaluate(of.in, withVariables(env, of.vars))
      [] op = "$dateAdd"   -> strict(<<part("startDate"), part("amount")>>, LAMBDA vs : dateAdd(vs[1], of.unit, vs[2]))
      [] op = "$dateDiff"  -> strict(<<part("startDate"), part("endDate")>>, LAMBDA vs : dateDiff(vs[1], vs[2], of.unit))
      [] op = "$dateTrunc" -> strict(<<part("date"), part("binSize")>>, LAMBDA vs : dateTrunc(vs[1], of.unit, vs[2]))
      [] OTHER -> strict(args, LAMBDA vs : applied2(op, vs))

-----------------------------------------------------------------------------
(* What is refused *)

Arity == [op \in Comparisons4 \cup {"$subtract", "$divide", "$mod", "$arrayElemAt", "$in",
                                    "$setDifference", "$setIsSubset"} |-> 2..2]
         @@ [op \in {"$not", "$size", "$reverseArray", "$objectToArray", "$arrayToObject"} |-> 1..1]
         @@ [op \in {"$ifNull", "$setEquals"} |-> 2..9]
         @@ [op \in {"$add", "$multiply", "$and", "$or", "$setUnion", "$setIntersection",
                     "$mergeObjects"} |-> 1..9]
         @@ [op \in {"$concatArrays", "$dayOfWeek"} |-> 0..9]
DateUnits == "$dateAdd" :> DATE_ADD_UNITS @@ "$dateDiff" :> DATE_DIFF_UNITS @@ "$dateTrunc" :> DATE_TRUNC_UNITS

RECURSIVE refusesExpression(_, _)
refusesExpression(e, bound) ==
    LET op == e[1]
        of == e[2]
        any2(es) == \E i \in DOMAIN es : refusesExpression(es[i], bound)
        closure(name, names2) == \/ refusesExpression(of.input, bound)
                                 \/ refusesExpression(of[name], bound \cup names2) IN
    CASE op \in {"path", "literal"} -> FALSE
      [] op = "variable" -> of \notin bound \cup {"NOW"}
      [] op = "document" -> any2([i \in DOMAIN of |-> of[i][2]])
      [] op \in {"list", "$cond"} -> any2(of)
      [] op = "$switch"  -> \/ of.branches = <<>>
                            \/ \E i \in DOMAIN of.branches : any2(of.branches[i])
                            \/ \E d \in of.default : refusesExpression(d, bound)
      [] op = "$map"     -> closure("in", {of.as})
      [] op = "$filter"  -> closure("cond", {of.as})
      [] op = "$reduce"  -> closure("in", {"value", "this"}) \/ refusesExpression(of.initialValue, bound)
      [] op = "$let"     -> \/ \E n \in DOMAIN of.vars : refusesExpression(of.vars[n], bound)
                            \/ refusesExpression(of.in, bound \cup DOMAIN of.vars)
      [] op \in DOMAIN DateUnits ->
           \/ of.unit \notin DOMAIN DateUnits[op]
           \/ \E n \in DOMAIN of \ {"unit"} : refusesExpression(of[n], bound)
      [] op \in DOMAIN Arity -> Len(of) \notin Arity[op] \/ any2(of)
      [] OTHER -> TRUE

compileExpression(e, row, identityIsPlainField) ==
    IF refusesExpression(e, {}) THEN REFUSED ELSE evaluate(e, scope(row, identityIsPlainField))
=============================================================================
