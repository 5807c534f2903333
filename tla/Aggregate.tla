------------------------------ MODULE Aggregate ------------------------------
(***************************************************************************)
(* translators/aggregate: a pipeline folded into SELECTs, as the rows each *)
(* SELECT answers with; and operations/aggregate.ts, which decodes them or *)
(* writes them to another collection.                                      *)
(*                                                                         *)
(* A stage is <<name, specification>>. Tables are a function from names to *)
(* sequences of records; a name it does not have is a table never written  *)
(* to. The rows of a statement are an array, or ABORTS when it fails.      *)
(***************************************************************************)
EXTENDS Expression, Reads

-----------------------------------------------------------------------------
(* accumulators.ts *)

Aggregates   == {"$sum", "$avg", "$min", "$max", "$addToSet"}
COLLECTORS   == {"$push", "$first", "$last"}
N_COLLECTORS == {"$firstN", "$lastN", "$maxN", "$minN"}
counts(acc) == acc[1] = "$count" \/ acc = <<"$sum", <<"literal", number(2)>>>>
derives(acc) == acc[1] \in {"$first", "$last"} \cup N_COLLECTORS

\* A value for each row of the group: a bare projection, or array::repeat of an
\* expression no row has a part in, which comes to the same.
collect(e, rows, plain) ==
    strict([i \in DOMAIN rows |-> evaluate(e, scope(rows[i], plain))], array)

aggregated(name, vs) ==
    LET ns == [i \in DOMAIN vs |-> vs[i][2]]
        sum == FoldLeft(LAMBDA x, y : x + y, 0, ns) IN
    CASE name = "$addToSet"     -> distinctOf(array(vs))
      [] ~areOf("number", vs)   -> ABORTS
      [] name = "$sum" -> number(sum)
      [] name = "$avg" -> number(sum \div Len(vs))
      [] name = "$min" -> sorted(array(vs), FALSE)[2][1]
      [] name = "$max" -> sorted(array(vs), TRUE)[2][1]

\* What an enclosing statement makes of the collected list.
derive(acc, list) ==
    LET n == acc[3]
        elementAt(i) == IF i \in DOMAIN list[2] THEN list[2][i] ELSE NONE IN
    CASE ~isArray(list)     -> ABORTS
      [] acc[1] = "$first"  -> elementAt(1)
      [] acc[1] = "$last"   -> elementAt(Len(list[2]))
      [] acc[1] = "$firstN" -> slice(list, 0, n)
      [] acc[1] = "$lastN"  -> slice(list, -n, whole(list))
      [] acc[1] = "$maxN"   -> slice(sorted(list, TRUE), 0, n)
      [] acc[1] = "$minN"   -> slice(sorted(list, FALSE), 0, n)

-----------------------------------------------------------------------------
(* lookup.ts and graph-lookup.ts *)

MAX_DEPTH == 64

flat(vs) == UNION { IF isArray(v) THEN elements(v) ELSE {v} : v \in vs }
tableOf(tables, name) == IF name \in DOMAIN tables THEN tables[name] ELSE <<>>

\* The foreign documents any of the rows asks for.
gathered(spec, rows, plain, tables) ==
    LET keys == flat({ read(r, fieldPath(spec.localField, plain)) : r \in Range(rows) })
        stored(d) == IF spec.foreignField = <<"_id">>
                     THEN read(d, <<"id">>) \in { record(k) : k \in keys }
                     ELSE read(d, spec.foreignField) \in keys
        found == SelectSeq(tableOf(tables, spec.from), stored)
    IN  [i \in DOMAIN found |-> recordToDocument(found[i])]

joinedTo(row, spec, plain, join) ==
    LET local == read(row, fieldPath(spec.localField, plain))
        foreign(d) == read(d, spec.foreignField)
    IN  array(SelectSeq(join, LAMBDA d : \/ foreign(d) = local
                                         \/ isArray(local) /\ foreign(d) \in elements(local)))

unseen(d, seen) == \A i \in DOMAIN seen : read(d, <<"id">>) # record(member(seen[i], "_id"))

stepsOf(spec) == IF spec.maxDepth = {} THEN MAX_DEPTH ELSE any1(spec.maxDepth) + 1

\* What a step reaches from the values at the front, that none before it did.
reachedFrom(spec, table, front, seen) ==
    SelectSeq(table, LAMBDA d : /\ read(d, fieldPath(spec.connectToField, FALSE)) \in front
                                /\ unseen(d, seen)
                                /\ translateDocument(d, spec.restrict, {}, TRUE) = "true")
atDepth(spec, ds, depth) ==
    [i \in DOMAIN ds |->
        LET doc == recordToDocument(ds[i])
        IN  IF spec.depthField = {} THEN doc
            ELSE object(any1(spec.depthField) :> number(2 * depth) @@ doc[2])]
stepped(spec, seen, ds) ==
    [seen |-> seen \o ds, front |-> flat({ read(d, spec.connectFromField) : d \in Range(ds) })]

compileGraphLookup(spec, seeds, table) ==
    IF seeds = ABORTS THEN ABORTS
    ELSE array(FoldLeft(LAMBDA a, depth :
                          stepped(spec, a.seen,
                                  atDepth(spec, reachedFrom(spec, table, a.front, a.seen), depth)),
                        [seen |-> <<>>, front |-> flat({seeds})],
                        [i \in 1..stepsOf(spec) |-> i - 1]).seen)

-----------------------------------------------------------------------------
(* One SELECT, of builder.ts. A field of its list is <<name, term>>, where a
   term says what it computes. *)

Source == 0
Where  == 1
Split  == 2
Group  == 3
Fields == 4
Order  == 5
Start  == 6
Limit  == 7

AllFields == [star |-> TRUE, named |-> <<>>, omit |-> {}, value |-> {}]
only(named)     == [AllFields EXCEPT !.star = FALSE, !.named = named]
alongside(named) == [AllFields EXCEPT !.named = named]

emptyLevel(from) ==
    [from |-> from, fields |-> AllFields, where |-> <<>>, split |-> <<>>, groupBy |-> FALSE,
     orderBy |-> <<>>, start |-> {}, limit |-> {}, highest |-> Source]

through(v, f(_)) == IF v = ABORTS THEN ABORTS ELSE f(v[2])

termOf(term, row, group) ==
    LET kind == term[1] IN
    CASE kind = "expression" -> evaluate(term[2], scope(row, term[3]))
      [] kind = "count"      -> number(2 * Len(group))
      [] kind \in {"aggregate", "collect"} ->
           through(collect(term[2][2], group, term[3]),
                   LAMBDA vs : IF kind = "collect" THEN array(vs) ELSE aggregated(term[2][1], vs))
      [] kind = "derive"     -> derive(term[2], member(row, term[3]))
      [] kind = "column"     -> member(row, term[2])
      [] kind = "join"       -> joinedTo(row, term[2], term[3], term[4])
      [] kind = "reachable"  ->
           compileGraphLookup(term[2], evaluate(term[2].startWith, scope(row, term[3])), term[4])

\* The field list over a row, which stands for the rows of `group`.
selectRow(fields, row, group) ==
    LET valued == fields.value # {}
        terms == IF valued THEN <<<<"value", any1(fields.value)>>>> ELSE fields.named
        base  == IF fields.star THEN FoldLeft(omitting, row, SetToSeq(fields.omit)) ELSE object(<<>>)
        laid(vs) == IF valued THEN vs[1]
                    ELSE FoldLeft(LAMBDA made, i : object(terms[i][1] :> vs[i] @@ made[2]),
                                  base, [i \in DOMAIN vs |-> i])
    IN  IF ~valued /\ ~isType(row, "object") THEN ABORTS
        ELSE strict([i \in DOMAIN terms |-> termOf(terms[i][2], row, group)], laid)

conditionHolds(where, row) ==
    LET v == read(row, where[2]) IN
    CASE where[1] = "filter"    -> translateDocument(row, where[2], {}, ~where[3])
      [] where[1] = "unwindable" ->
           truth(IF isArray(v) THEN v[2] # <<>> ELSE v \notin {NONE, NULL})

rowsWhere(rows, where) ==
    IF where = <<>> THEN array(rows)
    ELSE answered(rows, [i \in DOMAIN rows |-> conditionHolds(where, rows[i])], "true")

\* SPLIT has a row for an empty array too, of nothing.
splitRow(row, path) ==
    LET v == read(row, path)
        over(x) == assign(row, path, x)
    IN  IF ~isArray(v) THEN <<row>>
        ELSE IF v[2] = <<>> THEN <<over(NONE)>> ELSE [i \in DOMAIN v[2] |-> over(v[2][i])]

splitRows(rows, path) ==
    IF path = <<>> THEN rows ELSE FlattenSeq([i \in DOMAIN rows |-> splitRow(rows[i], path)])

together(rows, keys) ==
    LET firsts == SelectSeq([i \in DOMAIN rows |-> i],
                            LAMBDA i : \A k \in 1..(i - 1) : keys[k] # keys[i])
        of(i) == LET at == SelectSeq([k \in DOMAIN rows |-> k], LAMBDA k : keys[k] = keys[i])
                 IN  [k \in DOMAIN at |-> rows[at[k]]]
    IN  [g \in DOMAIN firsts |-> of(firsts[g])]

\* The rows in groups, by the key the field list names _id.
groupsOf(rows, l) ==
    IF ~l.groupBy THEN [i \in DOMAIN rows |-> <<rows[i]>>]
    ELSE together(rows, [i \in DOMAIN rows |->
                           termOf(l.fields.named[1][2], rows[i], <<rows[i]>>)])

selectRows(groups, fields) ==
    strict([i \in DOMAIN groups |-> selectRow(fields, groups[i][1], groups[i])], array)

\* ORDER BY needs its columns selected.
sortable(l) ==
    /\ l.fields.value = {}
    /\ l.fields.star \/ \A i \in DOMAIN l.orderBy :
          \E k \in DOMAIN l.fields.named : l.fields.named[k][1] = Head(l.orderBy[i][1])

Random == <<<<<<"rand()">>, TRUE>>>>
ordered(rows, orderBy) ==
    CASE orderBy = <<>>       -> rows
      [] orderBy = Random -> Reverse(rows)               \* some order
      [] OTHER -> SortSeq(rows, LAMBDA x, y : orderedBefore(orderBy, x, y))

\* The answer to a SELECT, which has rows, or another SELECT, in its FROM.
RECURSIVE render(_)
render(l) ==
    LET from == IF l.from[1] = "select" THEN render(l.from[2]) ELSE l.from
    IN  IF l.orderBy \notin {<<>>, Random} /\ ~sortable(l) THEN ABORTS
        ELSE through(through(through(from,
               LAMBDA rows : rowsWhere(rows, l.where)),
               LAMBDA rows : selectRows(groupsOf(splitRows(rows, l.split), l), l.fields)),
               LAMBDA rows : array(page(ordered(rows, l.orderBy), l.start, l.limit)))

-----------------------------------------------------------------------------
(* SelectBuilder *)

builder(from) == [level |-> emptyLevel(from), reshaped |-> FALSE]

subquery(b) == <<"select", b.level>>
nest_asStored(b) == builder(subquery(b))         \* as if the rows were stored ones again
nest(b)        == [b EXCEPT !.level = emptyLevel(subquery(b))]
materialise(b) == [b EXCEPT !.level = emptyLevel(render(b.level))]    \* the rows, bound
replaceSource(b, from) == [level |-> emptyLevel(from), reshaped |-> TRUE]

alreadyPassed(slot, l) == slot <= l.highest

\* `exclusive` is the split or the grouping the clause cannot stand beside.
claim(b, slot, exclusive) ==
    LET l == b.level
        clashes == \/ "split" \in exclusive /\ l.split # <<>>
                   \/ "group" \in exclusive /\ l.groupBy
    IN  [(IF alreadyPassed(slot, l) \/ clashes THEN nest(b) ELSE b) EXCEPT !.level.highest = slot]

notBefore(slot, l) == IF l.highest < slot THEN slot ELSE l.highest
setFields(b, fields, reshapes) ==
    [b EXCEPT !.level.fields = fields, !.level.highest = notBefore(Fields, b.level),
              !.reshaped = @ \/ reshapes]
setSplit(b, path) ==
    [b EXCEPT !.level.split = path, !.level.highest = notBefore(Fields, b.level)]

claimFields(b, fields, reshapes) == setFields(claim(b, Fields, {}), fields, reshapes)
setWhere(b, where) == [claim(b, Where, {}) EXCEPT !.level.where = where]
setOrderBy(b, order) == [claim(b, Order, {}) EXCEPT !.level.orderBy = order]

-----------------------------------------------------------------------------
(* The stages, of index.ts *)

expressions(entries, plain) ==
    [i \in DOMAIN entries |-> <<entries[i][1], <<"expression", entries[i][2], plain>>>>]
identity(plain) == <<"_id", <<"expression", <<"path", <<"_id">>>>, plain>>>>

applyMatch(b, filter) ==
    IF textOf(filter) = "empty" THEN b ELSE setWhere(b, <<"filter", filter, b.reshaped>>)

applySort(b, sort) ==
    LET by == translateSort(sort) IN
    IF sort = <<>> THEN b
    ELSE setOrderBy(b, IF b.reshaped THEN [i \in DOMAIN by |-> <<sort[i][1], by[i][2]>>] ELSE by)

applyLimit(b, n)  == [claim(b, Limit, {}) EXCEPT !.level.limit = {n}]
applySkip(b, n)   == [claim(b, Start, {}) EXCEPT !.level.start = {n}]
applySample(b, n) == applyLimit(setOrderBy(b, Random), n)

groupBy(b, named) ==
    setFields([claim(b, Group, {"split"}) EXCEPT !.level.groupBy = TRUE], only(named), TRUE)

applyCount(b, name) ==
    claimFields(groupBy(b, <<<<"_id", <<"expression", <<"literal", NULL>>, FALSE>>>>, <<name, <<"count">>>>>>),
                [AllFields EXCEPT !.omit = {<<"_id">>}], TRUE)

projectByExclusion(b, paths, withId) ==
    claimFields(b, [AllFields EXCEPT
        !.omit = { fieldPath(p, b.reshaped) : p \in paths \cup (IF withId THEN {} ELSE {<<"_id">>}) }], FALSE)

\* A projection's entries are <<path, flag or expression>>.
isExcluded(entry) == entry[2] = <<"flag", 0>>
keepsId(entries) == \A i \in DOMAIN entries : entries[i][1] = <<"_id">> => ~isExcluded(entries[i])
rest(entries) == SelectSeq(entries, LAMBDA e : e[1] # <<"_id">>)

applyProject(b, entries) ==
    LET included == SelectSeq(rest(entries), LAMBDA e : ~isExcluded(e))
        named == [i \in DOMAIN included |->
                    <<included[i][1][1],
                      <<"expression", IF included[i][2][1] = "flag" THEN <<"path", included[i][1]>>
                                      ELSE included[i][2], b.reshaped>>>>]
        withId == IF keepsId(entries) THEN <<identity(b.reshaped)>> ELSE <<>>
    IN  IF rest(entries) = <<>> /\ keepsId(entries) THEN claimFields(b, only(withId), TRUE)
        ELSE IF included = <<>> THEN projectByExclusion(b, columnsOf(rest(entries)), keepsId(entries))
        ELSE claimFields(b, only(withId \o named), TRUE)

applyUnset(b, paths) ==
    projectByExclusion(b, Range(paths) \ {<<"_id">>}, <<"_id">> \notin Range(paths))

applyGroup(b, key, accumulators) ==
    LET plain == b.reshaped
        acc(i) == accumulators[i][2]
        alias(i) == <<"collected_0", "collected_1", "collected_2">>[i]
        inner(i) == IF counts(acc(i)) THEN <<accumulators[i][1], <<"count">>>>
                    ELSE IF acc(i)[1] \in Aggregates THEN <<accumulators[i][1], <<"aggregate", acc(i), plain>>>>
                    ELSE <<IF derives(acc(i)) THEN alias(i) ELSE accumulators[i][1], <<"collect", acc(i), plain>>>>
        outer(i) == <<accumulators[i][1],
                      IF derives(acc(i)) THEN <<"derive", acc(i), alias(i)>> ELSE <<"column", accumulators[i][1]>>>>
        over(f(_)) == [i \in DOMAIN accumulators |-> f(i)]
        grouped == groupBy(b, <<<<"_id", <<"expression", key, plain>>>>>> \o over(inner))
    IN  IF \E i \in DOMAIN accumulators : derives(acc(i))
        THEN claimFields(grouped, only(<<<<"_id", <<"column", "_id">>>>>> \o over(outer)), TRUE)
        ELSE grouped

applyUnwind(b, path, preserve) ==
    LET field1 == fieldPath(path, b.reshaped)
        kept == IF preserve THEN b ELSE setWhere(b, <<"unwindable", field1>>)
    IN  setSplit(claim(kept, Split, {"group"}), field1)

\* A document's bucket is the first whose bounds it is between.
bucketOf(spec) ==
    LET value == <<"variable", "mql_bucket_value">>
        lit1(v) == <<"literal", v>>
        bounds == spec.boundaries
        branch(i) == <<<<"$and", <<<<"$gte", <<value, lit1(bounds[i])>>>>,
                                   <<"$lt", <<value, lit1(bounds[i + 1])>>>>>>>>, lit1(bounds[i])>>
    IN  <<"$let", [vars |-> "mql_bucket_value" :> spec.groupBy,
                   in   |-> <<"$switch", [branches |-> [i \in 1..(Len(bounds) - 1) |-> branch(i)],
                                          default  |-> { lit1(d) : d \in spec.default }]>>]>>

CountOne == <<<<"count", <<"$sum", <<"literal", number(2)>>>>>>>>
applyBucket(b, spec) ==
    applySort(applyGroup(b, bucketOf(spec), IF spec.output = {} THEN CountOne ELSE any1(spec.output)),
              <<<<<<"_id">>, "1">>>>)
applySortByCount(b, e) == applySort(applyGroup(b, e, CountOne), <<<<<<"count">>, "-1">>>>)

applyAddFields(b, entries) ==
    claimFields(b, alongside(expressions(entries, b.reshaped)), FALSE)
applyReplaceRoot(b, e) ==
    claimFields(b, [AllFields EXCEPT !.value = {<<"expression", e, b.reshaped>>}], TRUE)

applyGraphLookup(b, spec, tables) ==
    claimFields(b, alongside(<<<<spec.as, <<"reachable", spec, b.reshaped, tableOf(tables, spec.from)>>>>>>),
                FALSE)

joinTo(bound, spec, tables) ==
    LET rows == bound.level.from
        join == <<"join", spec, bound.reshaped, gathered(spec, rows[2], bound.reshaped, tables)>>
    IN  IF rows = ABORTS THEN bound ELSE claimFields(bound, alongside(<<<<spec.as, join>>>>), FALSE)
applyLookup(b, spec, tables) == joinTo(materialise(b), spec, tables)

RECURSIVE runStages(_, _, _)

\* A branch begins as if its rows were stored ones.
branchesOf(input, branches, tables) ==
    [i \in DOMAIN branches |-> render(runStages(builder(input), branches[i][2], tables).level)]
applyFacet(b, branches, tables) ==
    LET document(vs) == array(<<object([n \in columnsOf(branches) |->
                                         vs[CHOOSE i \in DOMAIN branches : branches[i][1] = n]])>>)
    IN  replaceSource(b, strict(branchesOf(materialise(b).level.from, branches, tables), document))

applyStage(b, stage, tables) ==
    LET name == stage[1]
        spec == stage[2] IN
    CASE name = "$match"   -> applyMatch(b, spec)
      [] name = "$sort"    -> applySort(b, spec)
      [] name = "$limit"   -> applyLimit(b, spec)
      [] name = "$skip"    -> applySkip(b, spec)
      [] name = "$count"   -> applyCount(b, spec)
      [] name = "$sample"  -> applySample(b, spec)
      [] name = "$project" -> applyProject(b, spec)
      [] name = "$unset"   -> applyUnset(b, spec)
      [] name = "$group"   -> applyGroup(b, any1(spec.id), spec.fields)
      [] name = "$unwind"  -> applyUnwind(b, spec.path, spec.preserve)
      [] name = "$lookup"  -> applyLookup(b, spec, tables)
      [] name = "$facet"   -> applyFacet(b, spec, tables)
      [] name = "$bucket"  -> applyBucket(b, spec)
      [] name = "$graphLookup" -> applyGraphLookup(b, spec, tables)
      [] name = "$sortByCount" -> applySortByCount(b, spec)
      [] name \in {"$addFields", "$set"} -> applyAddFields(b, spec)
      [] name \in {"$replaceRoot", "$replaceWith"} -> applyReplaceRoot(b, any1(spec))

runStages(b, pipeline, tables) ==
    FoldLeft(LAMBDA built, stage : applyStage(built, stage, tables), b, pipeline)

-----------------------------------------------------------------------------
(* What is refused *)

NOT_IN_FACET == {"$facet", "$out", "$merge", "$geoNear"}
WHEN_MATCHED == {"replace", "merge"}

refusesNear(filter) == refusesDocument(filter, {}) \/ nears(filter, FALSE) # <<>>
refusesGroup(id, accumulators) ==
    \/ id = {} \/ \E e \in id : refusesExpression(e, {})
    \/ \E i \in DOMAIN accumulators :
          LET acc == accumulators[i][2] IN
          /\ acc[1] # "$count"
          /\ \/ acc[1] \notin Aggregates \cup COLLECTORS \cup N_COLLECTORS
             \/ refusesExpression(acc[2], {})
             \/ acc[1] \in N_COLLECTORS /\ acc[3] < 1

RECURSIVE refusesStage(_)
refusesStage(stage) ==
    LET name == stage[1]
        spec == stage[2]
        kinds == { IF isExcluded(e) THEN "out" ELSE "in" : e \in Range(rest(spec)) }
        refusesEach(entries) ==
          \E i \in DOMAIN entries : entries[i][2][1] # "flag" /\ refusesExpression(entries[i][2], {}) IN
    CASE name = "$match"   -> refusesNear(spec)
      [] name = "$sort"    -> refusesSort(spec)
      [] name \in {"$limit", "$skip", "$sample"} -> spec < 0
      [] name = "$count"   -> spec \in {"", "$n", "a.b"}
      [] name = "$project" -> spec = <<>> \/ Cardinality(kinds) > 1 \/ refusesEach(spec)
      [] name = "$unset"   -> spec = <<>>
      [] name = "$group"   -> refusesGroup(spec.id, spec.fields)
      [] name = "$unwind"  -> spec.includeArrayIndex
      [] name = "$lookup"  -> spec.pipeline
      [] name = "$facet"   ->
           \/ spec = <<>>
           \/ \E i \in DOMAIN spec : \E stage2 \in Range(spec[i][2]) :
                 stage2[1] \in NOT_IN_FACET \/ refusesStage(stage2)
      [] name = "$bucket"  ->
           \/ Len(spec.boundaries) < 2 \/ spec.default = {}
           \/ refusesGroup({bucketOf(spec)}, IF spec.output = {} THEN CountOne ELSE any1(spec.output))
      [] name = "$graphLookup" ->
           \/ refusesExpression(spec.startWith, {}) \/ refusesNear(spec.restrict)
           \/ \E n \in spec.maxDepth : n < 0 \/ n >= MAX_DEPTH
      [] name = "$sortByCount" -> refusesExpression(spec, {})
      [] name \in {"$addFields", "$set"} -> spec = <<>> \/ refusesEach(spec)
      [] name \in {"$replaceRoot", "$replaceWith"} ->
           spec = {} \/ \E e \in spec : refusesExpression(e, {})
      [] OTHER -> TRUE                           \* $out and $merge, but last

-----------------------------------------------------------------------------
(* operations/aggregate.ts *)

\* Every _id of a computed row, however deep, that is a record.
RECURSIVE mapIdentities(_)
mapIdentities(v) ==
    CASE isArray(v) -> array([i \in DOMAIN v[2] |-> mapIdentities(v[2][i])])
      [] isType(v, "object") ->
           object([n \in DOMAIN v[2] |->
              IF n # "_id" THEN mapIdentities(v[2][n])
              ELSE IF isType(v[2][n], "record") THEN v[2][n][2] ELSE v[2][n]])
      [] OTHER -> v

decodeAggregated(row, identityIsPlainField) ==
    IF identityIsPlainField THEN mapIdentities(row) ELSE recordToDocument(row)

\* The documents a pipeline that writes nothing answers with.
decodeRows(b) ==
    through(render(b.level),
            LAMBDA rows : array([i \in DOMAIN rows |-> decodeAggregated(rows[i], b.reshaped)]))

planned(pipeline, name, tables) ==
    decodeRows(runStages(builder(array(tableOf(tables, name))), pipeline, tables))

terminalWrite(pipeline) == pipeline # <<>> /\ Last(pipeline)[1] \in {"$out", "$merge"}

refusesTerminal(stage) ==
    stage[1] = "$merge" /\ (stage[2].on # "_id" \/ stage[2].whenMatched \notin WHEN_MATCHED)

-----------------------------------------------------------------------------
(* What $out and $merge leave of their target *)

\* One without an _id is given one, which is here that of no other.
documentToRecord(doc) ==
    object([n \in (DOMAIN doc[2] \ {"_id"}) \cup {"id"} |->
              IF n = "id" THEN record(member(doc, "_id")) ELSE doc[2][n]])

mergeInto(rows, doc, whenMatched) ==
    LET new == documentToRecord(doc)
        at  == { i \in DOMAIN rows : rows[i][2]["id"] = new[2]["id"] }
    IN  IF at = {} THEN Append(rows, new)
        ELSE [i \in DOMAIN rows |-> IF i \notin at THEN rows[i]
                                    ELSE IF whenMatched = "replace" THEN new ELSE object(new[2] @@ rows[i][2])]

runTerminalWrite(terminal, docs, tables) ==
    LET name == IF terminal[1] = "$out" THEN terminal[2] ELSE terminal[2].into
        rows == IF terminal[1] = "$out" THEN [i \in DOMAIN docs |-> documentToRecord(docs[i])]
                ELSE FoldLeft(LAMBDA made, doc : mergeInto(made, doc, terminal[2].whenMatched),
                              tableOf(tables, name), docs)
    IN  name :> rows @@ tables

\* What the call answers with, and the tables it leaves.
outcome(answer, tables) == [cursor |-> answer, tables |-> tables]

\* The pipeline is translated whole before any of it is sent.
planAggregate(pipeline, name, tables) ==
    outcome(IF \E stage \in Range(pipeline) : refusesStage(stage) THEN REFUSED
            ELSE planned(pipeline, name, tables), tables)

\* A write at the end is taken off, and the rest is an aggregation like any other:
\* it may end in a write in turn, which runs too, and answers with no document.
RECURSIVE executeAggregate(_, _, _)
executeAggregate(pipeline, name, tables) ==
    LET terminal == Last(pipeline)
        end == executeAggregate(Front(pipeline), name, tables) IN
    CASE ~terminalWrite(pipeline)  -> planAggregate(pipeline, name, tables)
      [] refusesTerminal(terminal) -> outcome(REFUSED, tables)
      [] end.cursor \in {REFUSED, ABORTS} -> end
      [] OTHER -> outcome(array(<<>>), runTerminalWrite(terminal, end.cursor[2], end.tables))
=============================================================================
