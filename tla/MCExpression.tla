---------------------------- MODULE MCExpression ----------------------------
(***************************************************************************)
(* Aggregation expressions built from the inside out, a wrapping at a      *)
(* time, each evaluated over every row: what the compiled text is worth    *)
(* against what MongoDB says.                                              *)
(***************************************************************************)
EXTENDS MongoExpression, TLC, Functions

CONSTANT Wrappings     \* the operators an expression is wrapped in

VARIABLE expression    \* <<kind, expression>>

NoExpression == <<"none", <<>>>>

path(name)   == <<"path", <<name>>>>
\* $n is a number, $l an array of them, $ll an array of arrays, $o a document,
\* $d a date, and $m is missing.
numbers(s) == array([i \in DOMAIN s |-> number(s[i])])
Rows == {object("n" :> number(4) @@ "l" :> numbers(<<2, 6, 2, 8>>) @@ "o" :> object("p" :> number(2) @@ "q" :> number(6))
                  @@ "ll" :> array(<<numbers(<<6, 4>>), numbers(<<2>>)>>) @@ "d" :> date(170)),
         object("n" :> number(-6) @@ "l" :> array(<<>>) @@ "o" :> object("r" :> number(0))
                  @@ "ll" :> array(<<numbers(<<>>), numbers(<<2, 2, 8>>)>>) @@ "d" :> date(26))}

lit(n) == <<"literal", number(n)>>
list2  == <<"literal", numbers(<<6, 4, 4>>)>>
variable(name) == <<"variable", name>>
Leaves1 == {<<"number", path("n")>>, <<"number", path("m")>>, <<"number", lit(3)>>,
            <<"number", variable("this")>>, <<"number", variable("value")>>, <<"number", variable("x")>>,
            <<"array", path("l")>>, <<"array", path("m")>>, <<"array", list2>>, <<"array", variable("this")>>,
            <<"object", path("o")>>, <<"date", path("d")>>, <<"date", variable("NOW")>>,
            <<"number", <<"$bitAnd", <<lit(2)>>>>>>, <<"number", <<"$subtract", <<lit(2)>>>>>>}

closure(input, as, e) == [input |-> input, as |-> as, in |-> e]
filtering(input, as, cond, limit) == [input |-> input, as |-> as, cond |-> cond, limit |-> limit]
folding(input, initial, e) == [input |-> input, initialValue |-> initial, in |-> e]
switch(branches, default) == [branches |-> branches, default |-> default]
test(e) == <<"$gt", <<e, lit(2)>>>>
isSix(e) == <<"$eq", <<e, lit(6)>>>>

\* What an expression of a kind may be wrapped in, and the kind of that.
overNumber(e) ==
    { <<"number", <<op, <<e, lit(4)>>>>>> : op \in {"$add", "$multiply", "$subtract", "$divide", "$mod", "$ifNull"} }
    \cup { <<"number", <<op, <<path("n"), e>>>>>> : op \in {"$add", "$subtract", "$divide"} }
    \cup { <<"boolean", <<op, <<e, lit(4)>>>>>> : op \in Comparisons4 }
    \cup { <<"array", <<"$map", closure(input, as, e)>>>> : as \in {"this", "x"}, input \in {path("l"), path("m"), variable("this")} }
    \cup { <<"number", <<"$reduce", folding(path("l"), initial, e)>>>> : initial \in {lit(0), variable("this")} }
    \cup { <<"array", <<"$filter", filtering(path("l"), as, test(e), limit)>>>> : as \in {"this", "x"}, limit \in {{}, {2}} }
    \cup {<<"number", <<"$let", [vars |-> "x" :> e, in |-> <<"$add", <<variable("x"), variable("x")>>>>]>>>>,
          <<"number", <<"$let", [vars |-> "x" :> path("n") @@ "this" :> variable("x"), in |-> e]>>>>,
          <<"number", <<"$cond", <<isSix(e), lit(2), e>>>>>>,
          <<"number", <<"$switch", switch(<<<<test(e), lit(2)>>, <<isSix(path("n")), e>>>>, {e})>>>>,
          <<"number", <<"$switch", switch(<<<<test(e), e>>>>, {})>>>>,
          <<"number", <<"$arrayElemAt", <<path("l"), e>>>>>>, <<"boolean", <<"$in", <<e, path("l")>>>>>>,
          <<"number", <<"$ifNull", <<path("m"), path("m"), e>>>>>>,
          <<"array", <<"list", <<e, path("n"), e>>>>>>, <<"object", <<"document", <<<<"k", e>>, <<"v", path("n")>>>>>>>>,
          <<"date", <<"$dateAdd", [startDate |-> path("d"), amount |-> <<"$multiply", <<e, lit(4)>>>>, unit |-> "day"]>>>>}
overBoolean(e) ==
    { <<"boolean", <<op, <<e, b>>>>>> : op \in {"$and", "$or"}, b \in {test(path("n")), isSix(variable("this"))} }
    \cup { <<"array", <<"$filter", filtering(input, as, e, {})>>>> : as \in {"this", "x"}, input \in {path("l"), variable("this")} }
    \cup {<<"boolean", <<"$not", <<e>>>>>>, <<"boolean", <<"$or", <<isSix(path("n")), e>>>>>>,
          <<"number", <<"$cond", <<e, lit(2), lit(4)>>>>>>}
overArray2(e) ==
    { <<"array", <<op, <<e, list2>>>>>> : op \in {"$concatArrays", "$setUnion", "$setIntersection", "$setDifference"} }
    \cup { <<"boolean", <<op, s>>>> : op \in {"$setEquals", "$setIsSubset"}, s \in {<<e, list2>>, <<<<"literal", numbers(<<4, 6>>)>>, e>>} }
    \cup { <<"array", <<"$map", closure(input, as, e)>>>> : as \in {"this", "x"}, input \in {path("ll"), path("l"), variable("this")} }
    \cup { <<"number", <<"$arrayElemAt", <<e, lit(n)>>>>>> : n \in {0, -2, 6} }
    \cup {<<"number", <<"$size", <<e>>>>>>, <<"array", <<"$reverseArray", <<e>>>>>>,
          <<"array", <<"$setDifference", <<path("l"), e>>>>>>, <<"array", <<"$ifNull", <<e, path("l")>>>>>>,
          <<"array", <<"$filter", filtering(e, "this", test(variable("this")), {1})>>>>,
          <<"number", <<"$reduce", folding(e, lit(2), <<"$subtract", <<variable("value"), variable("this")>>>>)>>>>}
overObject(e) ==
    {<<"object", <<"$mergeObjects", <<e, path("o")>>>>>>, <<"object", <<"$mergeObjects", <<path("o"), e, path("o")>>>>>>,
     <<"entries", <<"$objectToArray", <<<<"$mergeObjects", <<path("o"), path("o")>>>>>>>>>>}
overEntries(e) == {<<"object", <<"$arrayToObject", <<e>>>>>>, <<"number", <<"$size", <<e>>>>>>}
overDate(e) ==
    { <<"date", <<"$dateAdd", [startDate |-> e, amount |-> lit(n), unit |-> u]>>>> : n \in {-4, 2}, u \in {"hour", "day", "week", "month"} }
    \cup { <<"date", <<"$dateTrunc", [date |-> e, binSize |-> lit(2), unit |-> u]>>>> : u \in {"hour", "day", "week"} }
    \cup { <<"number", <<"$dateDiff", [startDate |-> s[1], endDate |-> s[2], unit |-> u]>>>> :
             u \in {"hour", "day"}, s \in {<<e, path("d")>>, <<path("d"), e>>} }
    \cup {<<"number", <<"$dayOfWeek", <<e>>>>>>, <<"boolean", <<"$gt", <<e, path("d")>>>>>>}

wrapped(kind, e) ==
    CASE kind = "number"  -> overNumber(e)
      [] kind = "boolean" -> overBoolean(e)
      [] kind = "array"   -> overArray2(e)
      [] kind = "object"  -> overObject(e)
      [] kind = "entries" -> overEntries(e)
      [] kind = "date"    -> overDate(e)

buildsExpression ==
    expression' \in IF expression = NoExpression THEN Leaves1
                    ELSE { w \in wrapped(expression[1], expression[2]) : w[2][1] \in Wrappings }

-----------------------------------------------------------------------------
\* Lists hold null where they hold nothing, and documents leave it out.
RECURSIVE settled(_)
settled(v) ==
    CASE v = NONE   -> NULL
      [] isArray(v) -> array([i \in DOMAIN v[2] |-> settled(v[2][i])])
      [] isType(v, "object") ->
           object([n \in { k \in DOMAIN v[2] : v[2][k] # NONE } |-> settled(v[2][n])])
      [] OTHER -> v

RECURSIVE within1(_)
within1(e) ==                        \* e and the expressions in it
    LET op == e[1]
        of == e[2]
        operands == CASE op \in {"path", "literal", "variable"} -> {}
                      [] op = "document" -> { of[i][2] : i \in DOMAIN of }
                      [] op = "$switch"  -> UNION { Range(of.branches[i]) : i \in DOMAIN of.branches } \cup of.default
                      [] op = "$let"     -> {of.in} \cup Range(of.vars)
                      [] op \in {"$map", "$filter", "$reduce"} \cup DOMAIN DateUnits ->
                           { of[n] : n \in DOMAIN of \ {"as", "unit", "limit"} }
                      [] OTHER -> Range(of)
    IN  {e} \cup UNION { within1(x) : x \in operands }

\* Something that may be missing is read: of it MongoDB makes null, SurrealQL fails.
readsMissing(e) == \E x \in within1(e) : x = path("m") \/ x[1] = "$arrayElemAt"

\* $dateDiff counts the days that have passed, and MongoDB those begun.
countsDays(e, row) ==
    \E x \in within1(e) :
        /\ x[1] = "$dateDiff" /\ x[2].unit = "day"
        /\ worth(x[2].startDate, row, <<>>)[2] % 24 # worth(x[2].endDate, row, <<>>)[2] % 24

\* Whatever operators are put inside each other, whatever their closures bind and
\* shadow, the text an expression compiles to is worth what MongoDB says: where
\* it fails its statement, MongoDB raises or reads a field that is missing.
\* compileExpression, translators/aggregate/expression.ts.
ExpressionMeansAsMongo ==
    expression # NoExpression =>
    \A row \in Rows :
        LET e      == expression[2]
            made   == compileExpression(e, row, TRUE)
            wanted == worth(e, row, <<>>)
        IN  \/ made = REFUSED \/ wanted = RAISES
            \/ made = ABORTS /\ readsMissing(e)
            \/ settled(made) = settled(wanted) \/ countsDays(e, row)
=============================================================================
