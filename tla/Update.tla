------------------------------- MODULE Update -------------------------------
(***************************************************************************)
(* translators/update: what the SET clause an update is translated into    *)
(* makes of a document, and the seed of an upsert's insert.                *)
(*                                                                         *)
(* An update is a sequence of <<operator, entries>>, entries a sequence of *)
(* <<path, operand>>. A path is a sequence of names, some of them markers: *)
(* "$[]" and "$[e]". arrayFilters is a sequence of <<marker, conditions>>, *)
(* conditions a sequence of <<path, operators>>.                           *)
(*                                                                         *)
(* SurrealQL evaluates what is assigned against the document as it was     *)
(* before the statement, and applies += and -= to what the assignments     *)
(* ahead of them have made of the field. Assigning NONE removes.           *)
(***************************************************************************)
EXTENDS Filter

ABORTS  == <<"aborts", 0>>           \* the statement fails and writes nothing
NOW     == date(9)
Markers == {"$[]", "$[e]", "$[f]"}
Indexes == {"0", "1"}
isPositionalPath(path) == \E i \in DOMAIN path : path[i] \in Markers

-----------------------------------------------------------------------------
(* SurrealQL over values *)

plus(v, w) ==
    CASE isType(v, "number") /\ isType(w, "number") -> number(v[2] + w[2])
      [] isArray(v) /\ isArray(w) -> array(v[2] \o w[2])
      [] v = NONE -> w
      [] OTHER -> ABORTS
times(v, w) == IF isType(v, "number") /\ isType(w, "number")
               THEN number((v[2] * w[2]) \div 2) ELSE ABORTS
minus(v, w) == IF isArray(v) THEN array(SelectSeq(v[2], LAMBDA x : x \notin elements(w)))
               ELSE IF v = NONE THEN NONE ELSE ABORTS

\* array::slice(v, from, to), either counted from the end when negative
slice(v, from, to) ==
    LET at(n) == IF n >= 0 THEN n ELSE IF Len(v[2]) + n > 0 THEN Len(v[2]) + n ELSE 0
        end == IF at(to) < Len(v[2]) THEN at(to) ELSE Len(v[2])
    IN  IF isArray(v) THEN array(SubSeq(v[2], at(from) + 1, end)) ELSE ABORTS
concat(v, w) == IF isArray(v) /\ isArray(w) THEN array(v[2] \o w[2]) ELSE ABORTS
sorted(v, descending) ==
    IF ~isArray(v) THEN ABORTS
    ELSE array(SortSeq(v[2], LAMBDA x, y : below(IF descending THEN y ELSE x, IF descending THEN x ELSE y)))
union(v, w) ==
    LET both2 == v[2] \o w[2]
        firsts == { i \in DOMAIN both2 : \A k \in 1..(i - 1) : both2[k] # both2[i] }
    IN  IF isArray(v) THEN array([i \in 1..Cardinality(firsts) |-> both2[SetToSortSeq(firsts, <)[i]]])
        ELSE ABORTS
whole(v) == 100                      \* past the end of every array

\* v with the value at `path` assigned.
RECURSIVE assign(_, _, _)
assign(v, path, x) ==
    IF path = <<>> THEN x
    ELSE LET name  == Head(path)
             held  == IF isType(v, "object") THEN v[2] ELSE <<>>
             inner == assign(member(v, name), Tail(path), x)
         IN  IF x = NONE /\ member(v, name) = NONE THEN v
             ELSE IF inner = NONE THEN object([n \in DOMAIN held \ {name} |-> held[n]])
             ELSE object((name :> inner) @@ held)

-----------------------------------------------------------------------------
(* element-condition.ts *)

elementOperators == RangeOperators \cup
    {"$eq", "$ne", "$in", "$nin", "$regex", "$options", "$exists", "$type",
     "$mod", "$size", "$all", "$elemMatch"}

\* No planner reads it, so a range has no leading one.
elementConditions(f, ops) ==
    all([i \in DOMAIN ops |->
           IF ops[i][1] \in RangeOperators
           THEN rangePredicate(f, ops[i][1], ops[i][2], FALSE)
           ELSE translate(f, ops[i][1], ops[i][2], ops)])

refusesElementConditions(ops) ==
    ~(names(ops) \subseteq elementOperators) \/ refusesOperators(ops)

holdsOf(item, conditions) ==
    all([k \in DOMAIN conditions |->
           elementConditions(field(read(item, conditions[k][1])), conditions[k][2])])

-----------------------------------------------------------------------------
(* operators/array.ts. The operand of a $push is <<"one", v>> or <<"each",
   modifiers>>, of an $addToSet <<"one", v>> or <<"each", array>>, and of a $pull
   <<"value", v>>, <<"where", operators>> or <<"fields", conditions>>. *)

orEmpty(v) == IF v = NONE THEN array(<<>>) ELSE v

pushExpression(v, mods) ==
    LET has(m) == m \in DOMAIN mods
        placed == IF has("$position")
                  THEN LET at == mods["$position"]
                       IN  concat(concat(slice(v, 0, at), mods["$each"]), slice(v, at, whole(v)))
                  ELSE concat(v, mods["$each"])
        ordered == IF has("$sort") THEN sorted(placed, mods["$sort"] = -1) ELSE placed
    IN  IF ~has("$slice") THEN ordered
        ELSE IF mods["$slice"] < 0 THEN slice(ordered, mods["$slice"], whole(v))
        ELSE slice(ordered, 0, mods["$slice"])

\* The element is read as the value of a field, and not as an $elemMatch's.
pulled(item, condition) ==
    holdsOf(item, IF condition[1] = "where" THEN <<<< <<>>, condition[2]>>>> ELSE condition[2])

\* The items a condition answered so, once it has answered for each of them.
answered(items, answers, answer) ==
    LET kept == SelectSeq([i \in DOMAIN items |-> i], LAMBDA i : answers[i] = answer)
    IN  IF "aborts" \in Range(answers) THEN ABORTS
        ELSE array([i \in DOMAIN kept |-> items[kept[i]]])

without(v, condition) ==
    IF condition[1] = "value" THEN minus(v, array(<<condition[2]>>))
    ELSE IF ~isArray(v) THEN v
    ELSE answered(v[2], [i \in DOMAIN v[2] |-> pulled(v[2][i], condition)], "false")

complement(v, w) == IF isArray(v) THEN minus(v, w) ELSE ABORTS
popped(v, end) == IF end = -1 THEN slice(v, 1, whole(v))
                  ELSE IF isArray(v) THEN slice(v, 0, Len(v[2]) - 1) ELSE ABORTS
additions(operand2) == IF operand2[1] = "each" THEN operand2[2] ELSE array(<<operand2[2]>>)

-----------------------------------------------------------------------------
(* operators/field.ts. What an operator makes of the value v at a path: the
   expression a plain path is assigned, and the one of a positional path. *)

choose(v, w, op) == IF v = NONE \/ compares(w, op, v) THEN w ELSE v

becomes(op, w, v) ==
    CASE op \in {"$set", "$setOnInsert"} -> w
      [] op = "$unset" -> NONE
      [] op = "$currentDate" -> NOW
      [] op = "$mul"  -> times(v, w)
      [] op = "$min"  -> choose(v, w, "$lt")
      [] op = "$max"  -> choose(v, w, "$gt")
      [] op = "$push" -> pushExpression(v, w[2])
      [] op = "$pull" -> without(v, w)
      [] op = "$pullAll" -> complement(v, w)
      [] op = "$addToSet" -> union(orEmpty(v), additions(w))
      [] op = "$pop" -> popped(v, w)

becomesPositional(op, w, v) ==
    CASE op = "$inc"  -> IF v = NONE THEN w ELSE plus(v, w)
      [] op = "$mul"  -> IF v = NONE THEN number(0) ELSE times(v, w)
      [] op = "$push" -> IF w[1] = "one" THEN concat(orEmpty(v), array(<<w[2]>>))
                         ELSE pushExpression(orEmpty(v), w[2])
      [] op \in {"$pull", "$pullAll", "$pop"} /\ ~isArray(v) -> v
      [] OTHER -> becomes(op, w, v)

-----------------------------------------------------------------------------
(* positional.ts. The updates to one array are a sequence of <<rest, operator,
   operand>>, `rest` the path from a marker on. *)

headsOf(updates) == { Head(updates[i][1]) : i \in DOMAIN updates }
under(updates, name) ==
    LET found == SelectSeq(updates, LAMBDA u : Head(u[1]) = name)
    IN  [i \in DOMAIN found |-> <<Tail(found[i][1]), found[i][2], found[i][3]>>]
isLeaf(updates) == updates[1][1] = <<>>
isArrayLevel(updates) == ~isLeaf(updates) /\ headsOf(updates) \subseteq Markers

\* Two updates on one path, or on a path and one inside it.
RECURSIVE conflict(_)
conflict(updates) ==
    IF \E i \in DOMAIN updates : updates[i][1] = <<>> THEN Len(updates) > 1
    ELSE \/ headsOf(updates) \cap Markers # {} /\ ~(headsOf(updates) \subseteq Markers)
         \/ \E name \in headsOf(updates) : conflict(under(updates, name))

removesOnly_never(updates) == FALSE        \* what a removal goes through is made

removesOnly(updates) ==
    \A i \in DOMAIN updates : updates[i][2] = "$unset" /\ ~isPositionalPath(updates[i][1])

\* The identifiers that address one array, in the order they first appeared.
selectors(updates) ==
    LET firsts == { i \in DOMAIN updates : \A k \in 1..(i - 1) :
                      Head(updates[k][1]) # Head(updates[i][1]) }
        order == SetToSortSeq(firsts, <)
    IN  [i \in DOMAIN order |-> Head(updates[order[i]][1])]

resolveArrayFilter(marker, arrayFilters) ==
    arrayFilters[CHOOSE i \in DOMAIN arrayFilters :
                    /\ arrayFilters[i][1] = marker
                    /\ \A k \in 1..(i - 1) : arrayFilters[k][1] # marker][2]

selected(item, marker, arrayFilters) ==
    IF marker = "$[]" THEN "true"
    ELSE holdsOf(item, resolveArrayFilter(marker, arrayFilters))

ifSelected(answer, new, item) ==
    CASE answer = "true"  -> new
      [] answer = "false" -> item
      [] OTHER -> ABORTS
unlessAborted(items) == IF ABORTS \in Range(items) THEN ABORTS ELSE array(items)

\* The fields computed, over those of base; NONE is one removed.
laidOn(base, new) ==
    LET laid == new @@ base[2] IN
    IF ~isType(base, "object") \/ \E k \in DOMAIN new : new[k] = ABORTS THEN ABORTS
    ELSE object([k \in { n \in DOMAIN laid : laid[n] # NONE } |-> laid[k]])

RECURSIVE compileLevel(_, _, _), compileElement(_, _, _), compileField(_, _, _)

\* One array::map after another, an identifier each.
compileLevel(updates, v, arrayFilters) ==
    FoldLeft(LAMBDA current, marker :
               IF current = ABORTS THEN ABORTS
               ELSE unlessAborted([i \in DOMAIN current[2] |->
                      LET item == current[2][i]
                      IN  ifSelected(selected(item, marker, arrayFilters),
                                     compileElement(under(updates, marker), item, arrayFilters),
                                     item)]),
             v, selectors(updates))

\* Every field computed from what was there before.
compileObject(updates, was, base, arrayFilters) ==
    laidOn(base, [k \in headsOf(updates) \ Markers |->
                    compileField(under(updates, k), member(was, k), arrayFilters)])

compileElement(updates, item, arrayFilters) ==
    IF isLeaf(updates)
    THEN IF updates[1][2] = "$unset" THEN NULL
         ELSE becomesPositional(updates[1][2], updates[1][3], item)
    ELSE IF isType(item, "object") THEN compileObject(updates, item, item, arrayFilters)
    ELSE ABORTS                                              \* THROW

compileField(updates, held, arrayFilters) ==
    IF isLeaf(updates)
    THEN IF updates[1][2] = "$unset" THEN NONE
         ELSE becomesPositional(updates[1][2], updates[1][3], held)
    ELSE IF isArrayLevel(updates)
    THEN IF isArray(held) THEN compileLevel(updates, held, arrayFilters) ELSE held
    ELSE IF removesOnly(updates) /\ ~isType(held, "object") THEN held
    ELSE compileObject(updates, held, IF held = NONE THEN object(<<>>) ELSE held, arrayFilters)

-----------------------------------------------------------------------------
(* index.ts: the SET clause, a sequence of <<path, "=" or "+=" or "-=", value>> *)

readsMarkers(op, path) == isPositionalPath(path) /\ op # "$setOnInsert"

partsOf(op, path, w, was, upsert) ==
    LET v == read(was, path) IN
    CASE readsMarkers(op, path) -> <<>>
      [] op = "$inc" -> <<<<path, "+=", w>>>>
      [] op = "$push" /\ w[1] = "one" -> <<<<path, "+=", array(<<w[2]>>)>>>>
      [] op = "$pull" /\ w[1] = "value" -> <<<<path, "-=", array(<<w[2]>>)>>>>
      [] op = "$rename" -> <<<<w, "=", v>>, <<path, "=", NONE>>>>
      [] op = "$setOnInsert" ->
           IF upsert THEN <<<<path, "=", IF member(was, "id") = NONE THEN w ELSE v>>>> ELSE <<>>
      [] OTHER -> <<<<path, "=", becomes(op, w, v)>>>>

\* Every <<operator, path, operand>> of an update, in order.
assignments(update) ==
    FlattenSeq([i \in DOMAIN update |->
        [k \in DOMAIN update[i][2] |->
            <<update[i][1], update[i][2][k][1], update[i][2][k][2]>>]])

firstMarker(path) == CHOOSE i \in DOMAIN path :
                        path[i] \in Markers /\ \A k \in 1..(i - 1) : path[k] \notin Markers
baseOf(path) == SubSeq(path, 1, firstMarker(path) - 1)

positionalOf(update) ==
    SelectSeq(assignments(update), LAMBDA u : readsMarkers(u[1], u[2]))
basesOf(update) == LET p == positionalOf(update) IN { baseOf(p[i][2]) : i \in DOMAIN p }
updatesTo(update, base) ==
    LET found == SelectSeq(positionalOf(update), LAMBDA u : baseOf(u[2]) = base)
    IN  [i \in DOMAIN found |->
            <<SubSeq(found[i][2], Len(base) + 1, Len(found[i][2])), found[i][1], found[i][3]>>]

\* One rewrite of each array, once every operator has had its say.
emit(update, was, arrayFilters) ==
    LET bases == SetToSeq(basesOf(update)) IN
    [i \in DOMAIN bases |->
        LET v == read(was, bases[i])
        IN  <<bases[i], "=",
              IF isArray(v) THEN compileLevel(updatesTo(update, bases[i]), v, arrayFilters)
              ELSE v>>]

applied(current, part) ==
    LET held == read(current, part[1])
        new == CASE part[2] = "="  -> part[3]
                 [] part[2] = "+=" -> plus(held, part[3])
                 [] part[2] = "-=" -> minus(held, part[3])
    IN  IF current = ABORTS \/ new = ABORTS THEN ABORTS ELSE assign(current, part[1], new)

setClause(update, was, arrayFilters, upsert) ==
    LET us == assignments(update)
    IN  FlattenSeq([i \in DOMAIN us |-> partsOf(us[i][1], us[i][2], us[i][3], was, upsert)])
          \o emit(update, was, arrayFilters)

-----------------------------------------------------------------------------
(* What is refused *)

UpdateOperators == {"$set", "$setOnInsert", "$unset", "$inc", "$mul", "$min", "$max",
                    "$rename", "$currentDate", "$push", "$pull", "$pullAll",
                    "$addToSet", "$pop"}

rejectIdMutation(path) == path[1] = "_id"

refusesPath(path) ==
    \/ "$" \in Range(path)
    \/ isPositionalPath(path)
       /\ \E i \in DOMAIN path : i > firstMarker(path) /\ path[i] \in Indexes

refusesOperand(op, w) ==
    CASE op = "$currentDate" -> w # "date"
      [] op = "$addToSet" -> w[1] # "one" /\ ~(w[1] = "each" /\ isArray(w[2]))
      [] op = "$pull" -> \/ w[1] = "mixed"
                         \/ w[1] = "where" /\ refusesElementConditions(w[2])
                         \/ w[1] = "fields" /\ \E k \in DOMAIN w[2] :
                                                  refusesElementConditions(w[2][k][2])
      [] op = "$rename" -> isPositionalPath(w) \/ refusesPath(w)
      [] OTHER -> FALSE

refusesAssignment(op, path, w, upsert) ==
    \/ op \notin UpdateOperators
    \/ rejectIdMutation(path)
    \/ /\ op = "$setOnInsert" => upsert
       /\ \/ refusesPath(path)
          \/ op \in {"$rename", "$setOnInsert"} /\ isPositionalPath(path)
          \/ refusesOperand(op, w)

refusesArrayFilter(marker, arrayFilters) ==
    LET conditions == resolveArrayFilter(marker, arrayFilters) IN
    \/ ~ \E i \in DOMAIN arrayFilters : arrayFilters[i][1] = marker
    \/ \E k \in DOMAIN conditions : refusesElementConditions(conditions[k][2])

refusesUpdate(update, arrayFilters, upsert) ==
    LET us == assignments(update) IN
    \/ \E i \in DOMAIN us : refusesAssignment(us[i][1], us[i][2], us[i][3], upsert)
    \/ \E base \in basesOf(update) : conflict(updatesTo(update, base))
    \/ \E i \in DOMAIN us :
          /\ readsMarkers(us[i][1], us[i][2])
          /\ \E m \in Range(us[i][2]) \cap (Markers \ {"$[]"}) :
                refusesArrayFilter(m, arrayFilters)

REFUSED == <<"refused", 0>>

translateUpdate(update, was, arrayFilters, upsert) ==
    IF refusesUpdate(update, arrayFilters, upsert) THEN REFUSED
    ELSE FoldLeft(applied, was, setClause(update, was, arrayFilters, upsert))

-----------------------------------------------------------------------------
(* collection/operations/upsert.ts: the insert half of an upsert. A seed is a
   function from paths to values. *)

equalityOf(ops) ==
    IF "$eq" \in names(ops) THEN {operand(ops, "$eq")}
    ELSE IF "$in" \in names(ops) /\ Len(operand(ops, "$in")[2]) = 1
    THEN elements(operand(ops, "$in"))
    ELSE {}

RECURSIVE seedFromFilter(_)
seedFromFilter(filter) ==
    LET over(seed, c) ==                               \* the later one wins
          CASE c[1] = "field" ->
                 [path \in (IF equalityOf(c[3]) = {} THEN {} ELSE {c[2]}) |->
                    CHOOSE v \in equalityOf(c[3]) : TRUE] @@ seed
            [] c[1] = "$and" -> FoldLeft(LAMBDA s, b : seedFromFilter(b) @@ s, seed, c[2])
            [] c[1] = "$or" /\ Len(c[2]) = 1 -> seedFromFilter(c[2][1]) @@ seed
            [] OTHER -> seed
    IN  FoldLeft(over, <<>>, filter)

entriesOf(f) == LET paths == SetToSeq(DOMAIN f)
                IN  [i \in DOMAIN paths |-> <<paths[i], f[paths[i]]>>]

withSeed_last(update, seed) ==             \* over what the caller sets
    Append(update, <<"$set", entriesOf(seed)>>)

withSeed(update, seed) ==
    LET sets == SelectSeq(update, LAMBDA u : u[1] = "$set")
        rest == SelectSeq(update, LAMBDA u : u[1] # "$set")
        caller == IF sets = <<>> THEN <<>> ELSE sets[1][2]
        own == SelectSeq(entriesOf(seed), LAMBDA e : \A i \in DOMAIN caller : caller[i][1] # e[1])
    IN  IF DOMAIN seed = {} THEN update ELSE <<<<"$set", own \o caller>>>> \o rest

underId(made, id) ==
    IF made \in {REFUSED, ABORTS} THEN made ELSE assign(made, <<"id">>, record(id))

\* The record inserted, under the _id the filter pins or the generated one.
insertUpserted(filter, update, arrayFilters, generated) ==
    LET seed == seedFromFilter(filter)
        fields == [path \in DOMAIN seed \ {<<"_id">>} |-> seed[path]]
        id == IF <<"_id">> \in DOMAIN seed THEN seed[<<"_id">>] ELSE generated
    IN  underId(translateUpdate(withSeed(update, fields), object(<<>>), arrayFilters, TRUE), id)
=============================================================================
