-------------------------------- MODULE Reads --------------------------------
(***************************************************************************)
(* The statement of a find(), as what it reads of a table: translators/    *)
(* sort.ts and projection.ts, operations/read-source.ts, find.ts and       *)
(* count.ts; and the projection that a find-and-modify makes of the        *)
(* document it returns, utils/projection.ts and utils/id.ts.               *)
(*                                                                         *)
(* A table is a sequence of records, in the order of their ids. A sort is  *)
(* a sequence of <<path, direction>>, a projection one of <<path, flag>>.  *)
(* A limit or a skip is a set of at most one number.                       *)
(***************************************************************************)
EXTENDS Filter

idOr(path) == IF path = <<"_id">> THEN <<"id">> ELSE path       \* escapeSortField
any1(S) == CHOOSE x \in S : TRUE
columnsOf(entries) == { entries[i][1] : i \in DOMAIN entries }
atMost(n, m) == IF n < m THEN n ELSE m

-----------------------------------------------------------------------------
(* sort.ts *)

Ascending  == {"1", "asc", "ascending", "undefined"}
Descending == {"-1", "desc", "descending"}

refusesSort(sort) == \E i \in DOMAIN sort : sort[i][2] \notin Ascending \cup Descending
translateSort(sort) ==
    [i \in DOMAIN sort |-> <<idOr(sort[i][1]), sort[i][2] \in Ascending>>]

\* ORDER BY, column by column in SurrealQL's order of values.
orderedBefore(orderBy, x, y) ==
    \E i \in DOMAIN orderBy :
        LET v(doc, k) == read(doc, orderBy[k][1]) IN
        /\ \A k \in 1..(i - 1) : v(x, k) = v(y, k)
        /\ IF orderBy[i][2] THEN below(v(x, i), v(y, i)) ELSE below(v(y, i), v(x, i))

-----------------------------------------------------------------------------
(* projection.ts *)

others(projection) == SelectSeq(projection, LAMBDA e : e[1] # <<"_id">>)
marked(projection, flag) ==
    columnsOf(SelectSeq(others(projection), LAMBDA e : e[2] = flag))
includeId(projection) == \A i \in DOMAIN projection : projection[i] # <<<<"_id">>, 0>>

refusesProjection(projection) == marked(projection, 0) # {} /\ marked(projection, 1) # {}

\* The columns of the field list; {} is `*`.
translateProjection(projection) ==
    LET id == IF projection # <<>> /\ includeId(projection) THEN {<<"id">>} ELSE {} IN
    IF marked(projection, 1) # {} THEN marked(projection, 1) \cup id
    ELSE IF others(projection) = <<>> THEN id ELSE {}

projectionOmit_named(projection) == marked(projection, 0)   \* _id: 0 is forgotten

projectionOmit(projection) ==
    marked(projection, 0) \cup (IF includeId(projection) THEN {} ELSE {<<"id">>})

\* v without what `path` addresses, in each element of an array.
RECURSIVE omitting(_, _)
omitting(v, path) ==
    IF isArray(v) THEN array([i \in DOMAIN v[2] |-> omitting(v[2][i], path)])
    ELSE IF ~isType(v, "object") \/ Head(path) \notin DOMAIN v[2] THEN v
    ELSE IF Len(path) = 1 THEN object([n \in DOMAIN v[2] \ {path[1]} |-> v[2][n]])
    ELSE object([v[2] EXCEPT ![path[1]] = omitting(@, Tail(path))])

\* The part of v that `paths` address; what they do not find is left out.
RECURSIVE selecting(_, _)
selecting(v, paths) ==
    LET past(n) == { Tail(p) : p \in { q \in paths : Head(q) = n } }
        kept(n) == IF <<>> \in past(n) THEN v[2][n] ELSE selecting(v[2][n], past(n))
        found == { n \in DOMAIN v[2] : past(n) # {} /\ kept(n) # NONE }
    IN  IF ~isType(v, "object") THEN NONE
        ELSE IF found = {} THEN NONE ELSE object([n \in found |-> kept(n)])

projected(projection, record2) ==
    LET columns == translateProjection(projection)
        row == IF columns # {} THEN selecting(record2, columns)
               ELSE FoldLeft(omitting, record2, SetToSeq(projectionOmit(projection)))
    IN  IF row = NONE THEN object(<<>>) ELSE row

\* utils/id.ts: the document a row is, under its _id.
recordToDocument(row) ==
    object([n \in (DOMAIN row[2] \ {"id"}) \cup (IF "id" \in DOMAIN row[2] THEN {"_id"} ELSE {}) |->
               IF n = "_id" /\ "id" \in DOMAIN row[2] THEN row[2]["id"][2] ELSE row[2][n]])

-----------------------------------------------------------------------------
(* read-source.ts and find.ts *)

\* The point the filter's $near measures from, and the field it measures.
RECURSIVE nearDistance(_)
nearDistance(filter) ==
    UNION { LET c == filter[i] IN
            CASE c[1] = "field" ->
                   { <<c[2], c[3][k][2][2]>> : k \in { j \in DOMAIN c[3] : c[3][j][1] \in NearOperators } }
              [] c[1] \in {"$and", "$or", "$nor"} ->
                   UNION { nearDistance(c[2][b]) : b \in DOMAIN c[2] }
              [] OTHER -> {} : i \in DOMAIN filter }

\* A sort must be carried by the field list. Without one, $near's nearest-first
\* orders a subquery.
refusesRead(r) ==
    LET columns == translateProjection(r.projection) IN
    \/ refusesSort(r.sort) \/ refusesProjection(r.projection)
    \/ columns # {} /\ ~(columnsOf(translateSort(r.sort)) \subseteq columns)

nearer(near, x, y) ==
    distanceOf(read(x, near[1])[2], near[2]) < distanceOf(read(y, near[1])[2], near[2])

readSource(r, rows) ==
    LET near == nearDistance(r.filter) IN
    IF r.sort # <<>>
    THEN SortSeq(rows, LAMBDA x, y : orderedBefore(translateSort(r.sort), x, y))
    ELSE IF near # {} THEN SortSeq(rows, LAMBDA x, y : nearer(any1(near), x, y))
    ELSE rows

page_fromStart(rows, skip, limit) ==       \* a limit counts the rows skipped
    SubSeq(rows, (IF skip = {} THEN 0 ELSE any1(skip)) + 1,
           IF limit = {} THEN Len(rows) ELSE atMost(any1(limit), Len(rows)))

\* START and LIMIT.
page(rows, skip, limit) ==
    LET from == IF skip = {} THEN 0 ELSE any1(skip)
        to   == IF limit = {} THEN Len(rows) ELSE atMost(from + any1(limit), Len(rows))
    IN  SubSeq(rows, from + 1, to)

matching(filter, table, indexed) ==
    SelectSeq(table, LAMBDA doc : translateFilter(filter, doc, indexed) = "true")

\* The statement as a whole fails when a record aborts it.
fails(filter, table, indexed) ==
    \E i \in DOMAIN table : translateFilter(filter, table[i], indexed) \in {"aborts", "refused"}

\* The records find() reads, in order, before their projection.
planFind(r, table, indexed) ==
    page(readSource(r, matching(r.filter, table, indexed)), r.skip, r.limit)

executeFind(r, table, indexed) ==
    LET rows == planFind(r, table, indexed)
    IN  [i \in DOMAIN rows |-> recordToDocument(projected(r.projection, rows[i]))]

\* findOne reads a page of one and knows no skip.
findOne(r, table, indexed) ==
    executeFind([r EXCEPT !.skip = {}, !.limit = {1}], table, indexed)

-----------------------------------------------------------------------------
(* count.ts *)

resolveBounds(r) == [r EXCEPT !.skip = @ \ {0}]
refusesBounds(r) == \E n \in r.skip \cup r.limit : n < 0 \/ r.limit = {0}

\* The ids of a bounded subquery are counted, or the rows where they are.
countDocuments(r, table, indexed) ==
    LET b == resolveBounds(r)
        rows == matching(r.filter, table, indexed)
    IN  IF b.skip \cup b.limit = {} THEN Len(rows) ELSE Len(page(rows, b.skip, b.limit))

-----------------------------------------------------------------------------
(* utils/projection.ts and applyProjection of utils/id.ts, for the document a
   find-and-modify returns *)

\* What `path` addresses, copied: of an array, what its documents hold there.
RECURSIVE copied(_, _)
copied(v, path) ==
    IF path = <<>> THEN v
    ELSE IF isArray(v)
    THEN LET found == SelectSeq([i \in DOMAIN v[2] |->
                          IF isArray(v[2][i]) THEN NONE ELSE copied(v[2][i], path)],
                        LAMBDA x : x # NONE)
         IN  IF found = <<>> THEN NONE ELSE array(found)
    ELSE LET x == copied(member(v, Head(path)), Tail(path))
         IN  IF x = NONE THEN NONE ELSE object(Head(path) :> x)

\* A later path is laid over an earlier one, document into document.
RECURSIVE laidOver(_, _)
laidOver(v, w) ==
    IF isType(v, "object") /\ isType(w, "object")
    THEN object([n \in DOMAIN v[2] \cup DOMAIN w[2] |->
             IF n \notin DOMAIN w[2] THEN v[2][n]
             ELSE IF n \notin DOMAIN v[2] THEN w[2][n] ELSE laidOver(v[2][n], w[2][n])])
    ELSE w

applyProjection(doc, excludeFields, withId) ==
    LET paths == excludeFields \cup (IF withId THEN {} ELSE {<<"_id">>})
    IN  FoldLeft(omitting, doc, SetToSeq(paths))

projectDocument(doc, projection) ==
    LET included == SelectSeq(others(projection), LAMBDA e : e[2] = 1)
        over(result, e) == LET x == copied(doc, e[1])
                           IN  IF x = NONE THEN result ELSE laidOver(result, x)
        id == IF includeId(projection) THEN "_id" :> member(doc, "_id") ELSE <<>>
    IN  IF included = <<>>
        THEN applyProjection(doc, marked(projection, 0), includeId(projection))
        ELSE FoldLeft(over, object(id), included)
=============================================================================
