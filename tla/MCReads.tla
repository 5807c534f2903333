------------------------------ MODULE MCReads ------------------------------
(***************************************************************************)
(* Reads built up a clause at a time, over tables that tie and that hold   *)
(* nothing: what comes back, and in which order, against what MongoDB may  *)
(* answer.                                                                 *)
(***************************************************************************)
EXTENDS MongoQuery, Reads

VARIABLE find

NoRead == [filter |-> <<>>, sort |-> <<>>, skip |-> {}, limit |-> {}, projection |-> <<>>]

row(i, f) == object("id" :> record(number(i)) @@ f)
pair(b, c) == object("b" :> b @@ "c" :> c)
Tables ==
    {<<>>,
     <<row(2, "a" :> number(4) @@ "c" :> string(<<1>>)), row(4, "a" :> number(2) @@ "c" :> string(<<1>>)),
       row(6, "c" :> string(<<1>>)), row(8, "a" :> number(2) @@ "c" :> string(<<2>>))>>,
     <<row(2, "a" :> pair(number(4), number(2)) @@ "p" :> point(5)),
       row(4, "a" :> pair(number(4), number(6)) @@ "p" :> point(2)),
       row(6, "a" :> pair(number(2), number(2)) @@ "p" :> point(1)),
       row(8, "a" :> pair(NULL, NULL) @@ "p" :> array(<<point(2)>>)),
       row(10, "a" :> pair(NULL, number(2)) @@ "p" :> point(3))>>}

nearTo(x) == <<<<"field", <<"p">>, <<<<"$near", <<"$geometry", x, <<>>>>>>>>>>>>
ReadFilters == {<<<<"field", <<"a">>, <<<<"$lt", number(4)>>>>>>>>, nearTo(2),
            <<<<"$and", <<nearTo(5)>>>>>>}
SortPaths  == {<<"a">>, <<"c">>, <<"_id">>, <<"a", "b">>, <<"a", "c">>}
Directions == {"asc", "-1", "up"}
Projected  == {<<"_id">>, <<"a">>, <<"c">>, <<"a", "b">>}

buildsRead == find' \in
    { [find EXCEPT !.filter = f] : f \in IF find.filter = <<>> THEN ReadFilters ELSE {} }
    \cup { [find EXCEPT !.sort = Append(@, <<p, d>>)] :
             p \in SortPaths \ columnsOf(find.sort), d \in Directions }
    \cup { [find EXCEPT !.projection = Append(@, <<p, n>>)] : n \in {0, 1},
             p \in { q \in Projected : \A k \in columnsOf(find.projection) :
                                          ~IsPrefix(k, q) /\ ~IsPrefix(q, k) } }
    \cup { [find EXCEPT !.skip = {n}] : n \in {0, 1, 7} }
    \cup { [find EXCEPT !.limit = {n}] : n \in {1, 2} }

-----------------------------------------------------------------------------
\* MongoDB's order, to which a field that is missing is null.
valueOf(doc, path) == LET v == read(doc, idOr(path)) IN IF v = NONE THEN NULL ELSE v
mongoBefore(x, y) ==
    IF find.sort # <<>>
    THEN \E i \in DOMAIN find.sort :
            LET v(doc, k) == valueOf(doc, find.sort[k][1]) IN
            /\ \A k \in 1..(i - 1) : v(x, k) = v(y, k)
            /\ IF find.sort[i][2] = "asc" THEN below(v(x, i), v(y, i)) ELSE below(v(y, i), v(x, i))
    ELSE \E near \in nearDistance(find.filter) :
            LET d(doc) == distanceOf(read(doc, near[1])[2], near[2]) IN d(x) < d(y)

\* `rows` are a page of what matches, in an order MongoDB may give it.
isPage(rows, found) ==
    LET skip == IF find.skip = {} THEN 0 ELSE any1(find.skip)
        left == IF Cardinality(found) > skip THEN Cardinality(found) - skip ELSE 0
    IN  /\ Len(rows) = IF find.limit = {} THEN left ELSE atMost(any1(find.limit), left)
        /\ IsInjective(rows) /\ Range(rows) \subseteq found
        /\ \A i \in DOMAIN rows :
              /\ Cardinality({ x \in found : mongoBefore(x, rows[i]) }) < skip + i
              /\ Cardinality({ x \in found : ~mongoBefore(rows[i], x) }) >= skip + i

refused == refusesRead(find)

readsAPage(table, rows) ==
    /\ isPage(rows, { x \in Range(table) : matches(x, find.filter, {}) })
    /\ ~refusesBounds(find) => countDocuments(find, table, {}) = Len(rows)
    /\ find.skip = {} => findOne(find, table, {}) =
         [i \in 1..atMost(1, Len(rows)) |-> recordToDocument(projected(find.projection, rows[i]))]

\* What a find answers with is a page of the documents that match: as many as
\* skip and limit leave, each once, and none before which MongoDB's order, by the
\* sort or nearest first, has another page's; and a count with the same bounds is
\* as many. findOne without a skip is the first of them. A clause that fails the statement is left out: find.ts, count.ts,
\* read-source.ts, translators/sort.ts.
FindReadsAPage ==
    refused \/ \A table \in Tables :
        fails(find.filter, table, {}) \/ readsAPage(table, planFind(find, table, {}))

Leaves == {<<"_id">>, <<"a">>, <<"c">>, <<"p">>, <<"a", "b">>, <<"a", "c">>}
keeps(path) ==
    LET named(flag) == \E i \in DOMAIN find.projection :
                          /\ find.projection[i][2] = flag /\ IsPrefix(find.projection[i][1], path)
        includes == \E i \in DOMAIN find.projection : find.projection[i][2] = 1
                        /\ (find.projection[i][1] # <<"_id">> \/ Len(find.projection) = 1)
    IN  ~named(0) /\ (includes => path = <<"_id">> \/ named(1))
isProjection(doc, record2) ==
    \A path \in Leaves :
        LET v == IF path = <<"_id">> THEN member(record2, "id")[2] ELSE read(record2, path)
        IN  isType(v, "object") \/ read(doc, path) = IF keeps(path) THEN v ELSE NONE

\* A document keeps the fields a projection names, nested ones and _id among them,
\* and no others, whether the statement selects them (a find) or they are taken
\* of a document the server answered with (a find-and-modify); one that names _id
\* alone is left to the statement: translators/projection.ts, utils/projection.ts.
ProjectionKeepsWhatIsNamed ==
    refused \/ \A table \in Tables : \A i \in DOMAIN table :
        /\ isProjection(recordToDocument(projected(find.projection, table[i])), table[i])
        /\ \/ others(find.projection) = <<>>
           \/ isProjection(projectDocument(recordToDocument(table[i]), find.projection), table[i])
=============================================================================
