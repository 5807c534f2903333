------------------------------- MODULE Filter -------------------------------
(***************************************************************************)
(* translators/filter: what the WHERE clause a filter is translated into   *)
(* says of a document. A translator is defined by what the clause it emits *)
(* evaluates to, and not by its text; `refuses` says when it throws, and   *)
(* `malformed` when what it emits is no clause.                            *)
(*                                                                         *)
(* A filter is a sequence of conditions,                                   *)
(*    <<"field", path, operators>>   <<"$and", filters>>   <<"$text", s>>  *)
(* and so on, and operators are a sequence of <<name, operand>>. A bare    *)
(* value is its $eq and a RegExp its $regex, to which                      *)
(* translateFieldCondition hands them.                                     *)
(*                                                                         *)
(* The field an operator is translated for is what it reads and what it    *)
(* is: a "field", the "id" column, or the "element" of an $elemMatch.      *)
(***************************************************************************)
EXTENDS Values, SequencesExt

field(v)   == [value |-> v, is |-> "field"]
element(v) == [value |-> v, is |-> "element"]
idColumn(v) == [value |-> v, is |-> "id"]
isWholeValue(f) == f.is \in {"id", "element"}

names(ops) == { ops[i][1] : i \in DOMAIN ops }
operand(ops, name) == ops[CHOOSE i \in DOMAIN ops : ops[i][1] = name][2]

-----------------------------------------------------------------------------
(* operators/comparison.ts and membership.ts *)

\* `test` of the field or, over an array, of any element of it.
fieldOrAnyElement(f, test(_)) ==
    IF isWholeValue(f) THEN test(f.value)
    ELSE either(test(f.value),
                both(truth(isArray(f.value)), arrayAny(f.value, test)))

nullEqualityPredicate(f) ==
    either(truth(f.value \in {NULL, NONE}),
           truth(~isWholeValue(f) /\ isArray(f.value) /\ contains(f.value, NULL)))

equalityPredicate(f, v) ==
    IF v = NULL THEN nullEqualityPredicate(f)
    ELSE truth(\/ f.value = v
               \/ ~isWholeValue(f) /\ isArray(f.value) /\ contains(f.value, v))

inequalityPredicate(f, v) ==
    IF isWholeValue(f) /\ v # NULL THEN truth(f.value # v)
    ELSE negated(equalityPredicate(f, v))

membershipPredicate(f, list) ==
    truth(\/ f.value \in elements(list)
          \/ /\ ~isWholeValue(f)
             /\ \/ isArray(f.value) /\ anyInside(f.value, list)
                \/ NULL \in elements(list) /\ f.value = NONE)

nonMembershipPredicate(f, list) == negated(membershipPredicate(f, list))

-----------------------------------------------------------------------------
(* operators/range.ts *)

RangeOperators == {"$gt", "$gte", "$lt", "$lte"}
Bracketed      == {"number", "string", "bool", "date"}

inBracket_open(op, v, x) ==                \* no bound keeps NaN out
    IF isObjectId(v) THEN isObjectId(x) ELSE isType(x, v[1])

\* The type of values `operator value` may match: numbers but not NaN, ...
inBracket(op, v, x) ==
    IF isObjectId(v) THEN isObjectId(x)
    ELSE /\ isType(x, v[1])
         /\ isType(v, "number") =>
               IF op \in {"$gt", "$gte"} THEN compares(x, "$lte", Infinity)
               ELSE compares(x, "$gte", number(-Infinity[2]))

\* Null and NaN order against nothing, and are equal to themselves.
unorderedOperand(f, op, v) ==
    IF op \in {"$gt", "$lt"} THEN "false"
    ELSE IF v = NULL THEN nullEqualityPredicate(f)
    ELSE equalityPredicate(f, v)

\* The range for the planner to scan: all that can match, and more.
leadingRange(f, op, v) ==
    \/ compares(f.value, op, v)
    \/ op \in {"$lt", "$lte"} /\ compares(f.value, "$gte", array(<<>>))

rangePredicate(f, op, v, leads) ==
    LET compare(x) == truth(inBracket(op, v, x) /\ compares(x, op, v))
        scans == leads /\ f.is # "element" /\ ~isObjectId(v)
    IN  IF f.is = "id" THEN truth(compares(f.value, op, v))
        ELSE IF v \in {NULL, NaN} THEN unorderedOperand(f, op, v)
        ELSE both(truth(scans => leadingRange(f, op, v)), fieldOrAnyElement(f, compare))

-----------------------------------------------------------------------------
(* operators/evaluation.ts and element.ts; the flags of a $regex are letters,
   of which "i" folds the case of the letters 11, 12 ... and "g" is ignored *)

folded(re)  == pattern(re[1], [i \in DOMAIN re[2] |-> re[2][i] % 10])
lowered(v)  == IF isType(v, "string")
               THEN string([i \in DOMAIN v[2] |-> v[2][i] % 10]) ELSE v
KnownFlags  == {"i", "g"}

regexPredicate(f, re, flags) ==
    LET test(x) == both(truth(isType(x, "string")),
                        IF "i" \in flags THEN stringMatches(lowered(x), folded(re))
                        ELSE stringMatches(x, re))
    IN  fieldOrAnyElement(f, test)

BsonTypes == {"number", "string", "bool", "date", "null", "array", "object"}

typePredicate(f, t) ==
    LET is(x) == truth(isType(x, t) \/ (t = "object" /\ isGeometry(x)))
    IN  IF t = "array" THEN is(f.value) ELSE fieldOrAnyElement(f, is)

modPredicate(f, divisor, rest) ==
    LET whole(n) == IF n >= 0 THEN floor(n) ELSE -floor(-n)
        test(x)  ==
          both(truth(isType(x, "number")),
               IF ~isType(x, "number") THEN "aborts"
               ELSE truth(/\ x \notin {NaN, Infinity}
                          /\ remainder(whole(x[2]), truncate(divisor))
                               = truncate(rest)))
    IN  fieldOrAnyElement(f, test)

existsPredicate(f, v) == truth(IF v = 1 THEN f.value # NONE ELSE f.value = NONE)

-----------------------------------------------------------------------------
(* operators/geospatial.ts, on a line. A polygon is the stretch between two
   coordinates, less its ends when SurrealQL's INSIDE asks, and empty when its
   ends are the wrong way round. A unit of the line is an arc: it measures
   SURREAL_RADIUS metres to geo::distance and MONGO_RADIUS to MongoDB. *)

SURREAL_RADIUS == 10
MONGO_RADIUS   == 11

distanceOf(x, y) == IF x < y THEN y - x ELSE x - y

\* SurrealQL's operators over a bound stretch [lo, hi].
inside(v, lo, hi) ==
    CASE isType(v, "point")   -> lo < v[2] /\ v[2] < hi
      [] isType(v, "stretch") -> lo < v[2][1] /\ v[2][2] < hi
      [] OTHER -> FALSE
intersects(v, lo, hi) ==
    CASE isType(v, "point")   -> lo <= v[2] /\ v[2] <= hi
      [] isType(v, "stretch") -> lo <= v[2][2] /\ v[2][1] <= hi /\ lo <= hi
      [] OTHER -> FALSE
\* geo::distance(v, point) <op> bound, whose sides are scaled to stay whole: it
\* refuses what is no geometry, and is NONE, below every number, for a stretch.
distanceIs(v, centre, op, bound, scale) ==
    CASE isType(v, "point") ->
           compares(number(distanceOf(v[2], centre) * SURREAL_RADIUS * scale),
                    op, number(bound))
      [] isType(v, "stretch") -> compares(NONE, op, number(bound))
      [] OTHER -> FALSE

pointGuard(v, test) ==
    both(truth(isType(v, "point")), IF isGeometry(v) THEN truth(test) ELSE "aborts")

\* metres are MongoDB's and restated, radians need no earth
toSurrealMetres(m)        == <<m * SURREAL_RADIUS, MONGO_RADIUS>>
radiansToSurrealMetres(r) == <<r * SURREAL_RADIUS, 1>>

minMax(x, y) == IF x <= y THEN <<x, y>> ELSE <<y, x>>

translateGeoWithin(f, shape) ==
    LET kind == shape[1]
        test(x) ==
          CASE kind = "$geometry" ->
                 either(truth(inside(x, shape[2], shape[3])),
                        both(truth(isType(x, "point")),
                             truth(intersects(x, shape[2], shape[3]))))
            [] kind = "$box" ->
                 LET ring == minMax(shape[2], shape[3])
                 IN  pointGuard(x, intersects(x, ring[1], ring[2]))
            [] kind = "$center" ->
                 pointGuard(x, /\ isType(x, "point")
                               /\ distanceOf(x[2], shape[2]) * distanceOf(x[2], shape[2])
                                    <= shape[3] * shape[3])
            [] kind = "$centerSphere" ->
                 LET bound == radiansToSurrealMetres(shape[3])
                 IN  pointGuard(x, distanceIs(x, shape[2], "$lte", bound[1], bound[2]))
    IN  fieldOrAnyElement(field(f.value), test)

translateGeoIntersects(f, shape) ==
    LET test(x) == truth(intersects(x, shape[2], shape[3]))
    IN  fieldOrAnyElement(field(f.value), test)

\* A $near's operand is <<form, centre, bounds>>; bounds are operators too, and
\* may be written beside the $near instead.
nearBounds(near, ops) ==
    SelectSeq(near[3] \o ops, LAMBDA o : o[1] \in {"$minDistance", "$maxDistance"})

translateNear(f, near, ops) ==
    LET convert(n) == IF near[1] = "pair" THEN radiansToSurrealMetres(n)
                      ELSE toSurrealMetres(n)
        meets(b) == LET bound == convert(b[2])
                    IN  distanceIs(f.value, near[2],
                                   IF b[1] = "$minDistance" THEN "$gte" ELSE "$lte",
                                   bound[1], bound[2])
        bounds == nearBounds(near, ops)
    IN  pointGuard(f.value, \A i \in DOMAIN bounds : meets(bounds[i]))

-----------------------------------------------------------------------------
(* operators/array.ts and logical.ts, and the dispatch of index.ts. The
   operand of an $elemMatch is <<operators, fields>>: conditions on the element
   itself, and a sequence of <<path, operators>>. *)

Companions == {"$options", "$minDistance", "$maxDistance"}
NearOperators == {"$near", "$nearSphere"}

flagsOf(ops) == IF "$options" \in names(ops) THEN operand(ops, "$options") ELSE {}

RECURSIVE translateOperators(_, _)

translateElement(x, conditions) ==
    LET parts == <<<<element(x), conditions[1]>>>>
                   \o [i \in DOMAIN conditions[2] |->
                         <<field(read(x, conditions[2][i][1])), conditions[2][i][2]>>]
    IN  all([i \in DOMAIN parts |-> translateOperators(parts[i][1], parts[i][2])])

translateElemMatch(f, conditions) ==
    both(truth(isArray(f.value)), lenWhere(f.value, LAMBDA x : translateElement(x, conditions)))

allPredicate(f, list) ==
    IF list[2] = <<>> THEN "false"
    ELSE all([i \in DOMAIN list[2] |-> equalityPredicate(f, list[2][i])])

sizePredicate(f, n) == both(truth(isArray(f.value)), lenIs(f.value, n[2] \div 2))

translate(f, op, v, ops) ==
    CASE op = "$eq"     -> equalityPredicate(f, v)
      [] op = "$ne"     -> inequalityPredicate(f, v)
      [] op \in RangeOperators -> rangePredicate(f, op, v, TRUE)
      [] op = "$in"     -> membershipPredicate(f, v)
      [] op = "$nin"    -> nonMembershipPredicate(f, v)
      [] op = "$exists" -> existsPredicate(f, v)
      [] op = "$type"   -> typePredicate(f, v)
      [] op = "$mod"    -> modPredicate(f, v[1][2], v[2][2])
      [] op = "$regex"  -> regexPredicate(f, v, flagsOf(ops))
      [] op = "$all"    -> allPredicate(f, v)
      [] op = "$size"   -> sizePredicate(f, v)
      [] op = "$elemMatch"     -> translateElemMatch(f, v)
      [] op = "$not"           -> negated(translateOperators(f, v))
      [] op = "$geoWithin"     -> translateGeoWithin(f, v)
      [] op = "$geoIntersects" -> translateGeoIntersects(f, v)
      [] op \in NearOperators  -> translateNear(f, v, ops)
      [] op \in Companions     -> "true"

translateOperators(f, ops) ==
    all([i \in DOMAIN ops |-> translate(f, ops[i][1], ops[i][2], ops)])

\* id-field.ts: the operands an _id is compared with become RecordIds.
coerceValue(v) == IF v = NULL THEN v ELSE record(v)
coerceIdCondition(ops) ==
    [i \in DOMAIN ops |->
        CASE ops[i][1] \in {"$in", "$nin"} ->
               <<ops[i][1], array([k \in DOMAIN ops[i][2][2] |->
                                     coerceValue(ops[i][2][2][k])])>>
          [] ops[i][1] \in RangeOperators \cup {"$eq", "$ne"} ->
               <<ops[i][1], coerceValue(ops[i][2])>>
          [] OTHER -> ops[i]]

\* Without the table there is no RecordId to make, and _id is a field.
translateFieldCondition(doc, path, ops, table) ==
    LET isId == path = <<"_id">> /\ table
    IN  translateOperators(IF isId THEN idColumn(read(doc, <<"id">>)) ELSE field(read(doc, path)),
                           IF isId THEN coerceIdCondition(ops) ELSE ops)

-----------------------------------------------------------------------------
(* index.ts: the walk over the filter *)

\* Whether the walk will need the collection's text index.
RECURSIVE usesTextSearch(_)
usesTextSearch(filter) ==
    \E i \in DOMAIN filter :
        \/ filter[i][1] = "$text"
        \/ /\ filter[i][1] \in {"$and", "$or", "$nor"}
           /\ \E b \in DOMAIN filter[i][2] : usesTextSearch(filter[i][2][b])

translateTextSearch(doc, s, textFields) ==
    truth(\E t \in textFields : LET v == read(doc, <<t>>)
                                IN  isType(v, "string") /\ occurs(s, v[2]))

RECURSIVE translateDocument(_, _, _, _)

translateLogicalArray(doc, branches, textFields, table) ==
    [b \in DOMAIN branches |-> translateDocument(doc, branches[b], textFields, table)]

translateDocument(doc, filter, textFields, table) ==
    all([i \in DOMAIN filter |->
      LET c == filter[i] IN
      CASE c[1] = "$and"  -> all(translateLogicalArray(doc, c[2], textFields, table))
        [] c[1] = "$or"   -> any(translateLogicalArray(doc, c[2], textFields, table))
        [] c[1] = "$nor"  -> negated(any(translateLogicalArray(doc, c[2], textFields, table)))
        [] c[1] = "$text" -> translateTextSearch(doc, c[2], textFields)
        [] c[1] = "field" -> translateFieldCondition(doc, c[2], c[3], table)])

-----------------------------------------------------------------------------
(* What is refused *)

validNear(op, near, ops) ==
    LET bounds == nearBounds(near, ops) IN
    /\ op = "$near" => near[1] # "pair"                  \* needs a 2d index
    /\ near[1] \in {"pair", "$geometry"}                 \* of a point
    /\ \A i, k \in DOMAIN bounds : bounds[i][1] = bounds[k][1] => i = k
    /\ \A i \in DOMAIN bounds : bounds[i][2] >= 0

validSize(v) == isType(v, "number") /\ v[2] >= 0 /\ v[2] % 2 = 0

validMod(v) == /\ Len(v) = 2
               /\ \A i \in 1..2 : isType(v[i], "number")
               /\ truncate(v[1][2]) # 0

RECURSIVE refusesOperators(_)
refusesOperators(ops) ==
    \E i \in DOMAIN ops :
        LET op == ops[i][1]
            v  == ops[i][2] IN
        CASE op \in RangeOperators -> /\ v[1] \notin Bracketed \cup {"null", "record"}
                                      /\ ~isObjectId(v)
          [] op = "$all"   -> ~isArray(v)
          [] op = "$size"  -> ~validSize(v)
          [] op = "$mod"   -> ~validMod(v)
          [] op = "$type"  -> v \notin BsonTypes
          [] op = "$regex" -> ~(flagsOf(ops) \subseteq KnownFlags)
          [] op = "$not"   -> refusesOperators(v)
          [] op = "$elemMatch" ->
               \/ refusesOperators(v[1])
               \/ \E k \in DOMAIN v[2] : refusesOperators(v[2][k][2])
          [] op = "$geoWithin" ->
               \/ v[1] \notin {"$geometry", "$box", "$center", "$centerSphere"}
               \/ v[1] \in {"$center", "$centerSphere"} /\ v[3] < 0
          [] op = "$geoIntersects" -> v[1] # "$geometry"
          [] op \in NearOperators  -> ~validNear(op, v, ops)
          [] op = "$options" -> "$regex" \notin names(ops)
          [] op \in Companions \ {"$options"} -> names(ops) \cap NearOperators = {}
          [] OTHER -> op \notin {"$eq", "$ne", "$in", "$nin", "$exists"}

\* The $nears of a filter, each TRUE where setNearOrder forbids one.
RECURSIVE operatorNears(_, _)
operatorNears(ops, forbidden) ==
    FlattenSeq([i \in DOMAIN ops |->
        CASE ops[i][1] \in NearOperators -> <<forbidden>>
          [] ops[i][1] = "$not" -> operatorNears(ops[i][2], TRUE)
          [] ops[i][1] = "$elemMatch" ->
               operatorNears(ops[i][2][1], TRUE)
                 \o FlattenSeq([k \in DOMAIN ops[i][2][2] |->
                                  operatorNears(ops[i][2][2][k][2], TRUE)])
          [] OTHER -> <<>>])

RECURSIVE nears(_, _)
nears(filter, forbidden) ==
    FlattenSeq([i \in DOMAIN filter |->
        LET c == filter[i]
            withoutNearOrder == \/ c[1] = "$nor"
                                \/ c[1] = "$or" /\ Len(c[2]) > 1 IN
        CASE c[1] = "field" -> operatorNears(c[3], forbidden)
          [] c[1] \in {"$and", "$or", "$nor"} ->
               FlattenSeq([b \in DOMAIN c[2] |->
                             nears(c[2][b], forbidden \/ withoutNearOrder)])
          [] OTHER -> <<>>])

setNearOrder(filter) ==
    LET found == nears(filter, FALSE)
    IN  Len(found) <= 1 /\ ~Contains(found, TRUE)

RECURSIVE refusesDocument(_, _)
refusesDocument(filter, textFields) ==
    \E i \in DOMAIN filter :
        LET c == filter[i] IN
        CASE c[1] = "field" -> refusesOperators(c[3])
          [] c[1] \in {"$and", "$or", "$nor"} ->
               \E b \in DOMAIN c[2] : refusesDocument(c[2][b], textFields)
          [] c[1] = "$text" -> textFields = {}
          [] OTHER -> TRUE

\* operation-context.ts: the text index is looked up for a filter that searches.
filterOptionsFor(filter, indexed) == IF usesTextSearch(filter) THEN indexed ELSE {}

refuses(filter, indexed) ==
    \/ refusesDocument(filter, filterOptionsFor(filter, indexed))
    \/ ~setNearOrder(filter)

\* "empty" is the text of no condition: no clause at all on its own, and no
\* operand of an AND, an OR or a NOT.
joined(texts) ==
    IF Len(texts) = 1 THEN texts[1]
    ELSE IF \A i \in DOMAIN texts : texts[i] = "clause" THEN "clause" ELSE "malformed"

RECURSIVE textOfOperators(_)
textOfOperators(ops) ==
    IF ops = <<>> THEN "empty"
    ELSE IF \E i \in DOMAIN ops : ops[i][1] = "$not" /\ textOfOperators(ops[i][2]) # "clause"
    THEN "malformed" ELSE "clause"

RECURSIVE textOf(_)
textOf(filter) ==
    IF filter = <<>> THEN "empty"
    ELSE joined([i \in DOMAIN filter |->
      LET c == filter[i]
          branches == IF c[2] = <<>> THEN "malformed"
                      ELSE joined([b \in DOMAIN c[2] |-> textOf(c[2][b])]) IN
      CASE c[1] = "field" -> textOfOperators(c[3])
        [] c[1] \in {"$and", "$or"} -> branches
        [] c[1] = "$nor" -> IF branches = "empty" THEN "malformed" ELSE branches
        [] OTHER -> "clause"])

\* What a read under this filter makes of a document: "refused" when it throws,
\* and "aborts" when the server refuses the statement.
translateFilter(filter, doc, indexed) ==
    IF refuses(filter, indexed) THEN "refused"
    ELSE IF textOf(filter) = "malformed" THEN "aborts"
    ELSE translateDocument(doc, filter, filterOptionsFor(filter, indexed), TRUE)
=============================================================================
