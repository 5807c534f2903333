----------------------------- MODULE MongoQuery -----------------------------
(***************************************************************************)
(* What MongoDB answers: whether a document matches a filter. It is the    *)
(* specification that Filter is checked against, written from MongoDB's    *)
(* query language (paths that spread over arrays, comparison within one    *)
(* BSON type) and from nothing of the translators. Filters are written as  *)
(* in Filter.                                                              *)
(***************************************************************************)
EXTENDS Filter

\* The values at the end of a path, NONE where there is none: a path spreads
\* over the documents of an array.
RECURSIVE reached(_, _)
reached(v, path) ==
    IF path = <<>> THEN {v}
    ELSE IF isArray(v)
    THEN UNION { reached(x, path) : x \in { y \in elements(v) : isType(y, "object") } }
    ELSE reached(member(v, Head(path)), Tail(path))

spread(vs) == vs \cup UNION { elements(v) : v \in { w \in vs : isArray(w) } }

\* The _id a stored record carries.
mongoReads(doc, path) ==
    IF path = <<"_id">> THEN {member(doc, "id")[2]} ELSE reached(doc, path)

sameType(x, v) == IF isObjectId(v) THEN isObjectId(x)
                  ELSE isType(x, v[1]) /\ ~isObjectId(x)

equals(xs, v)    == v \in xs \/ (v = NULL /\ NONE \in xs)
inRange(xs, op, v) ==
    IF v \in {NULL, NaN} THEN op \in {"$gte", "$lte"} /\ equals(xs, v)
    ELSE \E x \in xs \ {NaN} : sameType(x, v) /\ compares(x, op, v)

matchesRegex(x, re, flags) ==
    /\ isType(x, "string")
    /\ IF "i" \in flags THEN fits(folded(re), lowered(x)[2]) ELSE fits(re, x[2])

hasType(x, t) == isType(x, t) \/ (t = "object" /\ isGeometry(x))

hasRemainder(x, v) ==
    /\ isType(x, "number") /\ x \notin {NaN, Infinity}
    /\ remainder(truncate(x[2]), truncate(v[1][2])) = truncate(v[2][2])

ends(x) == IF isType(x, "point") THEN <<x[2], x[2]>> ELSE x[2]
within(x, shape) ==
    LET lo == minMax(shape[2], shape[3])[1]
        hi == minMax(shape[2], shape[3])[2] IN
    CASE shape[1] = "$geometry" -> isGeometry(x) /\ lo <= ends(x)[1] /\ ends(x)[2] <= hi
      [] shape[1] = "$box"      -> isType(x, "point") /\ lo <= x[2] /\ x[2] <= hi
      [] OTHER -> isType(x, "point") /\ distanceOf(x[2], shape[2]) <= shape[3]
overlaps(x, shape) ==
    isGeometry(x) /\ ends(x)[1] <= shape[3] /\ shape[2] <= ends(x)[2]
isNear(x, near, ops) ==
    LET arcs == distanceOf(x[2], near[2])
        measured == IF near[1] = "pair" THEN arcs ELSE arcs * MONGO_RADIUS
        bounds == nearBounds(near, ops)
    IN  \A i \in DOMAIN bounds :
            IF bounds[i][1] = "$minDistance" THEN measured >= bounds[i][2]
            ELSE measured <= bounds[i][2]

\* Whether values at the end of a path satisfy operators: `xs` as they are, and
\* `alike` with the elements of those that are arrays.
RECURSIVE satisfies(_, _, _)
satisfies(xs, alike, ops) ==
    \A i \in DOMAIN ops :
        LET op == ops[i][1]
            v  == ops[i][2] IN
        CASE op = "$eq"     -> equals(alike, v)
          [] op = "$ne"     -> ~equals(alike, v)
          [] op \in RangeOperators -> inRange(alike, op, v)
          [] op = "$in"     -> \E w \in elements(v) : equals(alike, w)
          [] op = "$nin"    -> \A w \in elements(v) : ~equals(alike, w)
          [] op = "$all"    -> v[2] # <<>> /\ \A w \in elements(v) : equals(alike, w)
          [] op = "$exists" -> (v = 1) = (\E x \in xs : x # NONE)
          [] op = "$type"   -> \E x \in (IF v = "array" THEN xs ELSE alike) : hasType(x, v)
          [] op = "$mod"    -> \E x \in alike : hasRemainder(x, v)
          [] op = "$regex"  -> \E x \in alike : matchesRegex(x, v, flagsOf(ops))
          [] op = "$size"   -> \E x \in xs : isArray(x) /\ Len(x[2]) * 2 = v[2]
          [] op = "$not"    -> ~satisfies(xs, alike, v)
          [] op = "$elemMatch" ->
               \E x \in { y \in xs : isArray(y) } : \E e \in elements(x) :
                  /\ satisfies({e}, {e}, v[1])
                  /\ \A k \in DOMAIN v[2] :
                        /\ isType(e, "object")
                        /\ satisfies(reached(e, v[2][k][1]),
                                     spread(reached(e, v[2][k][1])), v[2][k][2])
          [] op = "$geoWithin"     -> \E x \in alike : within(x, v)
          [] op = "$geoIntersects" -> \E x \in alike : overlaps(x, v)
          [] op \in NearOperators  -> \E x \in xs : isType(x, "point") /\ isNear(x, v, ops)
          [] OTHER -> TRUE

RECURSIVE matches(_, _, _)
matches(doc, filter, indexed) ==
    \A i \in DOMAIN filter :
        LET c == filter[i]
            holds(b) == matches(doc, c[2][b], indexed) IN
        CASE c[1] = "field" -> LET xs == mongoReads(doc, c[2])
                               IN  satisfies(xs, spread(xs), c[3])
          [] c[1] = "$and"  -> \A b \in DOMAIN c[2] : holds(b)
          [] c[1] = "$or"   -> \E b \in DOMAIN c[2] : holds(b)
          [] c[1] = "$nor"  -> \A b \in DOMAIN c[2] : ~holds(b)
          [] c[1] = "$text" -> \E t \in indexed : LET v == member(doc, t)
                                                  IN  isType(v, "string") /\ occurs(c[2], v[2])
=============================================================================
