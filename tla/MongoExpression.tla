--------------------------- MODULE MongoExpression ---------------------------
(***************************************************************************)
(* What MongoDB says an aggregation expression is worth over a document:   *)
(* the specification Expression is checked against. Variables have values, *)
(* and a closure or a $let gives its own to what is inside it and to       *)
(* nothing else. Expressions are written as in Expression.                 *)
(***************************************************************************)
EXTENDS MongoUpdate, Expression

isNull(v) == v \in {NONE, NULL}
yesOrNo(b) == bool(IF b THEN 1 ELSE 0)
asSet(v) == elements(v)
\* The first of each value, in the order they appear.
unrepeated(s) == FoldLeft(LAMBDA t, x : IF Contains(t, x) THEN t ELSE Append(t, x), <<>>, s)

numeric(vs, result) ==
    IF \E i \in DOMAIN vs : isNull(vs[i]) THEN NULL
    ELSE IF \E i \in DOMAIN vs : ~isType(vs[i], "number") THEN RAISES ELSE number(result)
halves(vs) == [i \in DOMAIN vs |-> vs[i][2]]

timed(dates, ns, result(_, _)) ==
    IF \E v \in Range(dates \o ns) : isNull(v) THEN NULL
    ELSE IF areOf("date", dates) /\ areOf("number", ns) THEN result(dates, ns) ELSE RAISES

mongoApplied(op, vs) ==
    CASE op = "$add"      -> numeric(vs, FoldLeft(LAMBDA x, y : x + y, 0, halves(vs)))
      [] op = "$multiply" -> numeric(vs, FoldLeft(LAMBDA x, y : (x * y) \div 2, 2, halves(vs)))
      [] op = "$subtract" -> numeric(vs, vs[1][2] - vs[2][2])
      [] op = "$divide"   -> IF vs[2] = number(0) THEN RAISES
                             ELSE numeric(vs, (2 * vs[1][2]) \div vs[2][2])
      [] op = "$mod"      -> numeric(vs, remainder(vs[1][2], vs[2][2]))
      [] op = "$eq"  -> yesOrNo(vs[1] = vs[2])
      [] op = "$ne"  -> yesOrNo(vs[1] # vs[2])
      [] op \in RangeOperators -> yesOrNo(compares(vs[1], op, vs[2]))
      [] op = "$not" -> yesOrNo(vs[1] # bool(1))
      [] op = "$mergeObjects" ->
           IF \E i \in DOMAIN vs : ~isNull(vs[i]) /\ ~isType(vs[i], "object") THEN RAISES
           ELSE object(FoldLeft(LAMBDA f, v : IF isNull(v) THEN f ELSE v[2] @@ f, <<>>, vs))
      [] op = "$objectToArray" ->
           IF isNull(vs[1]) THEN NULL ELSE IF ~isType(vs[1], "object") THEN RAISES
           ELSE LET f  == vs[1][2]
                    ns == SetToSeq(DOMAIN f)
                IN  array([i \in DOMAIN ns |-> object("k" :> <<"name", ns[i]>> @@ "v" :> f[ns[i]])])
      [] op = "$arrayToObject" ->
           LET key(x) == IF isArray(x) THEN x[2][1][2] ELSE member(x, "k")[2]
               val(x) == IF isArray(x) THEN x[2][2] ELSE member(x, "v")
               s      == vs[1][2]
           IN  IF isNull(vs[1]) THEN NULL ELSE IF ~isArray(vs[1]) THEN RAISES
               ELSE object([n \in { key(x) : x \in Range(s) } |->
                       val(s[CHOOSE i \in DOMAIN s : key(s[i]) = n
                              /\ \A k \in (i + 1)..Len(s) : key(s[k]) # n])])
      [] op = "$in" -> IF isArray(vs[2]) THEN yesOrNo(vs[1] \in elements(vs[2])) ELSE RAISES
      [] op = "$arrayElemAt" ->
           LET n == vs[2][2] \div 2
               s == vs[1][2]
           IN  IF isNull(vs[1]) THEN NULL ELSE IF ~isArray(vs[1]) THEN RAISES
               ELSE IF n >= 0 THEN IF n < Len(s) THEN s[n + 1] ELSE NONE
               ELSE IF -n <= Len(s) THEN s[Len(s) + n + 1] ELSE NONE
      [] op = "$dayOfWeek" -> timed(vs, <<>>, LAMBDA d, n : number(2 * ((((d[1][2] \div 24) + 1) % 7) + 1)))
      [] OTHER ->                               \* operators over arrays
           IF op \notin {"$size", "$setEquals", "$setIsSubset"}
              /\ \E i \in DOMAIN vs : isNull(vs[i]) THEN NULL
           ELSE IF ~arrays(vs) THEN RAISES
           ELSE CASE op = "$size" -> number(2 * Len(vs[1][2]))
                  [] op = "$reverseArray" ->
                       array([i \in DOMAIN vs[1][2] |-> vs[1][2][Len(vs[1][2]) + 1 - i]])
                  [] op = "$concatArrays" -> array(FlattenSeq([i \in DOMAIN vs |-> vs[i][2]]))
                  [] op = "$setUnion" ->
                       array(unrepeated(FlattenSeq([i \in DOMAIN vs |-> vs[i][2]])))
                  [] op = "$setIntersection" ->
                       array(SelectSeq(unrepeated(vs[1][2]),
                                       LAMBDA x : \A i \in DOMAIN vs : x \in asSet(vs[i])))
                  [] op = "$setDifference" ->
                       array(SelectSeq(unrepeated(vs[1][2]), LAMBDA x : x \notin asSet(vs[2])))
                  [] op = "$setEquals" -> yesOrNo(\A i \in DOMAIN vs : asSet(vs[i]) = asSet(vs[1]))
                  [] op = "$setIsSubset" -> yesOrNo(asSet(vs[1]) \subseteq asSet(vs[2]))

-----------------------------------------------------------------------------
RECURSIVE worth(_, _, _)

\* The first expression of a sequence that is, or is not, TRUE decides.
decided(es, row, vars, decisive) ==
    LET at == { i \in DOMAIN es : worth(es[i], row, vars) \in {RAISES, bool(decisive)} }
    IN  IF at = {} THEN bool(1 - decisive)
        ELSE worth(es[CHOOSE i \in at : \A k \in at : i <= k], row, vars)

raising(vs, result(_)) == IF RAISES \in Range(vs) THEN RAISES ELSE result(vs)
eachOf(v, name, e, row, vars) ==
    [i \in DOMAIN v[2] |-> worth(e, row, (name :> v[2][i]) @@ vars)]

worth(e, row, vars) ==
    LET op == e[1]
        of == e[2]
        part(name) == worth(of[name], row, vars)
        args == [i \in DOMAIN of |-> worth(of[i], row, vars)]
        firstTrue == { i \in DOMAIN of.branches : worth(of.branches[i][1], row, vars) = bool(1) }
        overArray(v, result(_)) ==
          IF v = RAISES THEN RAISES ELSE IF isNull(v) THEN NULL
          ELSE IF ~isArray(v) THEN RAISES ELSE result(v) IN
    CASE op = "path"     -> read(row, of)
      [] op = "variable" -> IF of \in DOMAIN vars THEN vars[of] ELSE NOW
      [] op = "literal"  -> of
      [] op = "document" ->
           LET vs == [i \in DOMAIN of |-> worth(of[i][2], row, vars)]
               kept == { i \in DOMAIN of : vs[i] # NONE }
           IN  IF RAISES \in Range(vs) THEN RAISES
               ELSE object([n \in { of[i][1] : i \in kept } |->
                              vs[CHOOSE i \in kept : of[i][1] = n]])
      [] op = "list" -> raising(args, LAMBDA vs :
                          array([i \in DOMAIN vs |-> IF vs[i] = NONE THEN NULL ELSE vs[i]]))
      [] op = "$and" -> decided(of, row, vars, 0)
      [] op = "$or"  -> decided(of, row, vars, 1)
      [] op = "$cond" -> CASE args[1] = RAISES  -> RAISES
                           [] args[1] = bool(1) -> args[2]
                           [] OTHER -> args[3]
      [] op = "$ifNull" ->
           LET at == { i \in DOMAIN args : ~isNull(args[i]) \/ i = Len(args) }
           IN  args[CHOOSE i \in at : \A k \in at : i <= k]
      [] op = "$switch" ->
           IF firstTrue # {}
           THEN worth(of.branches[CHOOSE i \in firstTrue : \A k \in firstTrue : i <= k][2], row, vars)
           ELSE IF of.default = {} THEN RAISES
           ELSE worth(CHOOSE d \in of.default : TRUE, row, vars)
      [] op = "$map" -> overArray(part("input"), LAMBDA v :
                          raising(eachOf(v, of.as, of.in, row, vars), array))
      [] op = "$filter" ->
           overArray(part("input"), LAMBDA v :
             LET keep(tests) ==
                   LET at == SetToSortSeq({ i \in DOMAIN tests : tests[i] = bool(1) }, <)
                       most == of.limit \cup {Len(at)}
                       n == CHOOSE m \in most : \A k \in most : m <= k
                   IN  array([i \in 1..n |-> v[2][at[i]]])
             IN  raising(eachOf(v, of.as, of.cond, row, vars), keep))
      [] op = "$reduce" ->
           overArray(part("input"), LAMBDA v :
             FoldLeft(LAMBDA sofar, x : IF sofar = RAISES THEN RAISES
                        ELSE worth(of.in, row, "value" :> sofar @@ "this" :> x @@ vars),
                      part("initialValue"), v[2]))
      [] op = "$let" ->
           LET values == [n \in DOMAIN of.vars |-> worth(of.vars[n], row, vars)]
           IN  IF RAISES \in { values[n] : n \in DOMAIN values } THEN RAISES
               ELSE worth(of.in, row, values @@ vars)
      [] op = "$dateAdd" ->
           timed(<<part("startDate")>>, <<part("amount")>>, LAMBDA d, n :
                 date(d[1][2] + (n[1][2] * DATE_ADD_UNITS[of.unit]) \div 2))
      [] op = "$dateDiff" ->
           timed(<<part("startDate"), part("endDate")>>, <<>>, LAMBDA d, n :
                 number(2 * ((d[2][2] \div DATE_DIFF_UNITS[of.unit]) - (d[1][2] \div DATE_DIFF_UNITS[of.unit]))))
      [] op = "$dateTrunc" ->
           timed(<<part("date")>>, <<part("binSize")>>, LAMBDA d, n :
                 date(d[1][2] - (d[1][2] % DATE_TRUNC_UNITS[of.unit])))
      [] OTHER -> raising(args, LAMBDA vs : mongoApplied(op, vs))
=============================================================================
