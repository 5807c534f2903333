------------------------------ MODULE MCUpdate ------------------------------
(***************************************************************************)
(* Updates built up an operator at a time, each made to every document of  *)
(* a collection: what the SET clause makes of it against what MongoDB does.*)
(***************************************************************************)
EXTENDS MongoUpdate, MCFilter

VARIABLE update

entry1(o, p, w) == <<o, <<<<p, w>>>>>>
doc1(n, s) == object("n" :> number(n) @@ "s" :> number(s))
letter(n) == string(<<n>>)

Held ==
    {NONE, NULL, number(4), letter(2), array(<<>>), array(<<number(4), number(-2), number(6)>>),
     array(<<number(4), letter(1), array(<<number(4), number(8)>>)>>),
     object("n" :> number(2)), object("w" :> array(<<number(4)>>)),
     array(<<doc1(4, 2), doc1(8, 6), object("s" :> number(4))>>),
     array(<<doc1(4, 6), number(4)>>),
     array(<<object("w" :> array(<<doc1(2, 2), doc1(4, 8)>>) @@ "n" :> number(4)),
             object("w" :> array(<<number(2), number(6)>>) @@ "s" :> number(6))>>),
     array(<<object("b" :> object("n" :> number(2))), object(<<>>)>>)}
UpdateDocuments ==
    { object("id" :> record(number(1)) @@ "c" :> number(6) @@
             (IF v = NONE THEN <<>> ELSE "a" :> v)) : v \in Held }

Plain == {<<"a">>, <<"a", "n">>, <<"c">>}
Positional == {<<"a", "$[]">>, <<"a", "$[]", "n">>, <<"a", "$[e]", "n">>, <<"a", "$[e]", "s">>,
               <<"a", "$[f]", "s">>, <<"a", "$[]", "w">>, <<"a", "$[]", "w", "$[e]">>,
               <<"a", "$[f]", "w", "$[]", "n">>, <<"a", "$[]", "b", "n">>}
Odd == {<<"_id">>, <<"a", "$", "n">>, <<"a", "$[]", "w", "0">>}
Paths == Plain \cup Positional \cup Odd

two == array(<<number(4), number(2)>>)
pushes(e) == <<"each", e>>
Modifiers ==
    {"$each" :> two, "$each" :> two @@ "$position" :> 1, "$each" :> two @@ "$position" :> -1,
     "$each" :> two @@ "$sort" :> -1 @@ "$slice" :> 2, "$each" :> two @@ "$slice" :> -2,
     "$each" :> two @@ "$position" :> 0 @@ "$sort" :> 1 @@ "$slice" :> -1,
     "$each" :> array(<<>>) @@ "$slice" :> 0}
PullConditions ==
    {<<"value", number(4)>>, <<"where", <<<<"$gte", number(4)>>>>>>, <<"where", <<<<"$eq", number(4)>>>>>>,
     <<"where", <<<<"$nin", array(<<number(4)>>)>>>>>>, <<"where", <<<<"$not", <<>>>>>>>>, <<"mixed", <<>>>>,
     <<"fields", <<<<<<"n">>, <<<<"$lt", number(8)>>>>>>>>>>, <<"fields", <<<<<<"n">>, <<<<"$eq", NULL>>>>>>>>>>}
Operands(op) ==
    CASE op = "$set"  -> {number(2), object("n" :> number(2))}
      [] op \in {"$inc", "$mul", "$min", "$max"} -> {number(4)}
      [] op = "$push" -> {<<"one", number(2)>>} \cup { pushes(m) : m \in Modifiers }
      [] op = "$pull" -> PullConditions
      [] op = "$pullAll"  -> {two}
      [] op = "$addToSet" -> {<<"one", two>>, <<"each", two>>, <<"each", number(2)>>}
      [] op = "$pop" -> {1, -1}
      [] op = "$rename" -> {<<"d">>, <<"a", "$[]">>}
      [] op = "$currentDate" -> {"date", "timestamp"}
      [] OTHER -> {number(2)}

Assignments == UNION { { entry1(op, p, w) : w \in Operands(op), p \in Paths } :
                       op \in UpdateOperators \cup {"$bit"} }
More == { entry1(op, p, number(4)) : op \in {"$set", "$inc"},
                                     p \in {<<"a">>, <<"a", "n">>, <<"a", "$[]", "n">>, <<"a", "$[e]", "n">>,
                                            <<"a", "$[f]", "s">>, <<"a", "$[]", "w", "$[e]">>} }

EFilters == {<<<<<<"s">>, <<<<"$gte", number(4)>>>>>>>>, <<<<<<"n">>, <<<<"$eq", number(4)>>>>>>>>,
             <<<<<<"n">>, <<<<"$eq", NULL>>>>>>>>, <<<<<<"s">>, <<<<"$not", <<>>>>>>>>>>}
FFilter  == <<<<<<"s">>, <<<<"$lt", number(6)>>>>>>, <<<<"n">>, <<<<"$exists", 1>>>>>>>>
uses(marker) == LET us == assignments(update) IN \E i \in DOMAIN us : marker \in Range(us[i][2])
ArrayFilters ==
    IF ~uses("$[e]") /\ ~uses("$[f]") THEN {<<>>}
    ELSE {<<>>} \cup { <<<<"$[e]", e>>, <<"$[f]", FFilter>>>> : e \in EFilters }

buildsUpdate ==
    \/ update = <<>> /\ \E u \in Assignments : update' = <<u>>
    \/ update # <<>> /\ \E u \in More : u[1] # update[1][1] /\ update' = Append(update, u)

-----------------------------------------------------------------------------
(* Where the two part, which README.md lists. u is an <<operator, path,
   operand>> of the update. *)

\* The innermost values of arrays of arrays.
RECURSIVE innermost(_)
innermost(v) == IF isArray(v) THEN UNION { innermost(x) : x \in elements(v) } ELSE {v}
held(doc, path) == read(doc, SelectSeq(path, LAMBDA n : n \notin Markers))

\* Plain forms of these fail the statement where the field is absent.
failsOnAbsent(u, doc) ==
    /\ ~isPositionalPath(u[2]) /\ read(doc, u[2]) = NONE
    /\ \/ u[1] \in {"$mul", "$pop", "$pullAll"}
       \/ u[1] = "$push" /\ u[3][1] = "each"
\* A $rename of nothing still clears where it leads.
movesNothing(u, doc) == u[1] = "$rename" /\ read(doc, u[2]) = NONE
\* A removal that goes inside an element that is no document fails.
goesInsideValue(u, doc) ==
    /\ isPositionalPath(u[2]) /\ never(u[1])
    /\ \E i \in firstMarker(u[2])..(Len(u[2]) - 1) :
          LET v == held(doc, SubSeq(u[2], 1, i))
          IN  u[2][i] \in Markers /\ isArray(v) /\ \E x \in elements(v) : ~isType(x, "object")
\* To conditions on fields, a value is a document without any.
pullsValues(u, doc) ==
    /\ u[1] = "$pull" /\ u[3][1] = "fields"
    /\ \E x \in innermost(held(doc, u[2])) : ~isType(x, "object")
\* A plain path that spreads over an array: what SurrealDB does is not modelled.
spreads(u, doc) == ~isPositionalPath(u[2]) /\ Len(u[2]) > 1 /\ isArray(read(doc, Front(u[2])))
\* A positional $pull, $pullAll or $pop makes the documents on its way.
makesParents(u) ==
    /\ isPositionalPath(u[2]) /\ u[1] \in {"$pull", "$pullAll", "$pop"}
    /\ Len(u[2]) > 1 /\ u[2][Len(u[2]) - 1] \notin Markers
\* Identifiers of one array are applied one after the other, and one may read
\* what another has written (positional.ts says so).
readsChanged(fs) ==
    LET us == assignments(update)
        readBy(n) == LET cs == resolveArrayFilter(n, fs) IN { cs[k][1] : k \in DOMAIN cs } IN
    \E i, k \in DOMAIN us : \E m \in Range(us[i][2]), n \in Range(us[k][2]) :
        /\ m # n /\ {m, n} \subseteq Markers /\ n # "$[]"
        /\ <<Last(us[i][2])>> \in readBy(n)
parts(doc, fs) ==
    \/ readsChanged(fs)
    \/ LET us == assignments(update) IN \E i \in DOMAIN us :
         \/ failsOnAbsent(us[i], doc) \/ movesNothing(us[i], doc)
         \/ goesInsideValue(us[i], doc) \/ pullsValues(us[i], doc)
         \/ spreads(us[i], doc) \/ makesParents(us[i])

meetPositionally(us) ==
    \E i, k \in DOMAIN us :
        /\ i # k /\ IsPrefix(us[i][2], us[k][2])
        /\ readsMarkers(us[i][1], us[i][2]) /\ readsMarkers(us[k][1], us[k][2])

agree(made, wanted) == made = REFUSED \/ made = wanted \/ wanted = RAISES

\* The record's fields are what MongoDB would have made of them, wherever the
\* update is accepted and MongoDB accepts it: every operator, plain and
\* positional, several operators that meet in one array, arrayFilters.
\* And two operators that meet on one positional path, or on one inside the other,
\* are refused, as MongoDB refuses them: positional.ts would otherwise let the
\* later one win. translators/update.
UpdateMakesWhatMongoMakes ==
    \A fs \in ArrayFilters :
        \/ refusesUpdate(update, fs, FALSE)
        \/ ~meetPositionally(assignments(update)) /\ \A doc \in UpdateDocuments :
              \/ agree(translateUpdate(update, doc, fs, FALSE), mongoUpdate(update, doc, fs, FALSE))
              \/ parts(doc, fs)

-----------------------------------------------------------------------------
equal(path, v) == <<"field", path, <<<<"$eq", v>>>>>>
is(path, op, v) == <<"field", path, <<<<op, v>>>>>>
EqualityFilters ==
    {<<equal(<<"a">>, number(4))>>, <<equal(<<"_id">>, number(6)), equal(<<"c">>, number(6))>>,
     <<<<"$and", <<<<equal(<<"a", "n">>, number(2))>>, <<is(<<"c">>, "$in", array(<<NULL>>))>>>>>>>>,
     <<<<"$or", <<<<equal(<<"a">>, array(<<number(4)>>))>>>>>>>>}
UpsertFilters == EqualityFilters \cup
    {<<is(<<"a">>, "$gt", number(2)), equal(<<"c">>, letter(1))>>,
     <<<<"$or", <<<<equal(<<"a">>, number(4))>>, <<equal(<<"c">>, number(2))>>>>>>>>,
     <<is(<<"c">>, "$in", array(<<number(2), number(4)>>))>>}

generated == number(8)
meet(p, q) == IsPrefix(p, q) \/ IsPrefix(q, p)
pathsOf(u) == {IF isPositionalPath(u[2]) THEN baseOf(u[2]) ELSE u[2]} \cup (IF u[1] = "$rename" THEN {u[3]} ELSE {})
seeded(u, seed) == \E p \in pathsOf(u), q \in DOMAIN seed : meet(p, q)
\* What reads a field it assigns reads the document as it was, without the seed.
readsSeed(u, seed) ==
    /\ seeded(u, seed)
    /\ \/ isPositionalPath(u[2])
       \/ u[1] \in {"$mul", "$min", "$max", "$pullAll", "$addToSet", "$pop", "$rename"}
       \/ u[1] = "$push" /\ u[3][1] = "each"
       \/ u[1] = "$pull" /\ u[3][1] # "value"

isFound(made) == made \in {REFUSED, ABORTS} \/ translateFilter(filter, made, {}) = "true"

\* The insert half of an upsert is the update made to the filter's equalities,
\* under the _id the filter pins, whichever of the update's operators touch the
\* seeded fields: upsert.ts. An operator that reads its field is left out: it
\* does not see the seed.
UpsertInsertsWhatMongoInserts ==
    \A fs \in IF filter = <<>> THEN {} ELSE ArrayFilters :
        LET us == assignments(update)
        IN  \/ agree(insertUpserted(filter, update, fs, generated),
                     mongoUpsert(filter, update, fs, generated))
            \/ \E i \in DOMAIN us : \/ readsSeed(us[i], seedFromFilter(filter))
                                    \/ failsOnAbsent(us[i], object(<<>>))
                                    \/ movesNothing(us[i], object(<<>>))
                                    \/ spreads(us[i], mongoUpsert(filter, <<>>, fs, generated))

\* Get-or-create finds what it created: a document inserted for a filter of
\* equalities is one the filter keeps, unless the update writes those very
\* fields. The seed and the filter are translated apart, upsert.ts and
\* translators/filter.
UpsertIsFoundAgain ==
    \A fs \in IF filter \in EqualityFilters THEN ArrayFilters ELSE {} :
        LET us == assignments(update)
        IN  \/ \E i \in DOMAIN us : seeded(us[i], seedFromFilter(filter))
            \/ isFound(insertUpserted(filter, update, fs, generated))

\* An upsert gets or creates: it inserts what MongoDB inserts, and the filter that
\* asked for the document finds it.
UpsertGetsOrCreates == UpsertInsertsWhatMongoInserts /\ UpsertIsFoundAgain
=============================================================================
