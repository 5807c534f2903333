--------------------------- MODULE MongoAggregate ---------------------------
(***************************************************************************)
(* What MongoDB makes of a pipeline, a stage at a time: the specification  *)
(* Aggregate is checked against. Each stage has the documents the one      *)
(* before it left, whose _id is a field like any other. Where MongoDB      *)
(* promises no order, that of Aggregate is taken: groups in the order they *)
(* appear.                                                                 *)
(***************************************************************************)
EXTENDS MongoExpression, Aggregate

documents(tables, name) ==
    [i \in DOMAIN tableOf(tables, name) |-> recordToDocument(tableOf(tables, name)[i])]
orNull(v) == IF v = NONE THEN NULL ELSE v
at1(doc, path) == orNull(read(doc, path))

\* matches() looks a stored record's _id up under its id.
asStored(doc) == object("id" :> record(member(doc, "_id")) @@ doc[2])
each(docs, f(_)) == [i \in DOMAIN docs |-> f(docs[i])]

comesBefore(sort, x, y) ==
    \E i \in DOMAIN sort :
        LET v(doc, k) == at1(doc, sort[k][1]) IN
        /\ \A k \in 1..(i - 1) : v(x, k) = v(y, k)
        /\ IF sort[i][2] \in Ascending THEN below(v(x, i), v(y, i)) ELSE below(v(y, i), v(x, i))

first(n, s) == SubSeq(s, 1, IF n < Len(s) THEN n ELSE Len(s))
past(n, s)  == SubSeq(s, n + 1, Len(s))
without1(doc, paths) == FoldLeft(omitting, doc, SetToSeq(paths))
with(doc, name, v) == object(name :> v @@ doc[2])

\* Documents by the key each has, as <<key, documents>>.
byKeys(docs, keys) ==
    each(unrepeated(keys), LAMBDA k :
      LET at == SelectSeq([i \in DOMAIN docs |-> i], LAMBDA i : keys[i] = k)
      IN  <<k, each(at, LAMBDA i : docs[i])>>)

accumulated(acc, vs) ==
    LET ns == [i \in DOMAIN vs |-> vs[i][2]]
        sum == FoldLeft(LAMBDA x, y : x + y, 0, ns)
        up == SortSeq(vs, LAMBDA x, y : below(x, y))
        least(n) == first(n, up)
        n == Len(vs) IN
    CASE RAISES \in Range(vs) -> RAISES
      [] acc[1] = "$sum"   -> number(sum)
      [] acc[1] = "$avg"   -> number(sum \div n)
      [] acc[1] = "$min"   -> up[1]
      [] acc[1] = "$max"   -> up[n]
      [] acc[1] = "$push"  -> array(vs)
      [] acc[1] = "$addToSet" -> array(unrepeated(vs))
      [] acc[1] = "$first" -> vs[1]
      [] acc[1] = "$last"  -> vs[n]
      [] acc[1] = "$firstN" -> array(first(acc[3], vs))
      [] acc[1] = "$lastN"  -> array(IF acc[3] < n THEN past(n - acc[3], vs) ELSE vs)
      [] acc[1] = "$minN"   -> array(least(acc[3]))
      [] acc[1] = "$maxN"   -> array(first(acc[3], [i \in 1..n |-> up[n + 1 - i]]))
accumulate(acc, docs) ==
    IF acc[1] = "$count" THEN number(2 * Len(docs))
    ELSE accumulated(acc, each(docs, LAMBDA doc : worth(acc[2], doc, <<>>)))

accumulateEach(groups, accumulators) ==
    each(groups, LAMBDA g :
      FoldLeft(LAMBDA doc, a : with(doc, a[1], accumulate(a[2], g[2])),
               object("_id" :> g[1]), accumulators))
groupStage(docs, key, accumulators) ==
    accumulateEach(byKeys(docs, each(docs, LAMBDA d : orNull(worth(key, d, <<>>)))), accumulators)

projectStage(docs, entries) ==
    LET included == SelectSeq(rest(entries), LAMBDA e : ~isExcluded(e))
        out == { e[1] : e \in { x \in Range(entries) : isExcluded(x) } }
        valueIn(doc, e) == IF e[2][1] = "flag" THEN read(doc, e[1]) ELSE worth(e[2], doc, <<>>)
        kept(doc) ==
          FoldLeft(LAMBDA made, e : with(made, e[1][1], valueIn(doc, e)),
                   IF keepsId(entries) THEN object("_id" :> member(doc, "_id")) ELSE object(<<>>), included)
    IN  IF included = <<>> /\ out # {} THEN each(docs, LAMBDA doc : without1(doc, out))
        ELSE each(docs, kept)

unwindStage(docs, spec) ==
    LET unwound(doc) ==
          LET v == read(doc, spec.path)
              of(x) == assign(doc, spec.path, x)
          IN  IF isArray(v) /\ v[2] # <<>> THEN each(v[2], of)
              ELSE IF ~isArray(v) /\ ~isNull(v) THEN <<doc>>
              ELSE IF ~spec.preserve THEN <<>>
              ELSE IF isArray(v) THEN <<without1(doc, {spec.path})>> ELSE <<doc>>
    IN  FlattenSeq(each(docs, unwound))

bucketKey(spec, v) ==
    LET within2 == { i \in 1..(Len(spec.boundaries) - 1) :
                       ~below(v, spec.boundaries[i]) /\ below(v, spec.boundaries[i + 1]) }
    IN  IF within2 = {} THEN any1(spec.default) ELSE spec.boundaries[any1(within2)]
bucketStage(docs, spec) ==
    accumulateEach(
      SortSeq(byKeys(docs, each(docs, LAMBDA d : bucketKey(spec, worth(spec.groupBy, d, <<>>)))),
              LAMBDA g, h : below(g[1], h[1])),
      IF spec.output = {} THEN CountOne ELSE any1(spec.output))

\* A document matches one whose field is its own, or an element of its own.
equalTo(v, w) == v = w \/ (isArray(v) /\ w \in elements(v))

lookupStage(docs, spec, tables) ==
    each(docs, LAMBDA doc : with(doc, spec.as, array(
        SelectSeq(documents(tables, spec.from), LAMBDA d :
            equalTo(at1(doc, spec.localField), at1(d, spec.foreignField))))))

\* The documents at each depth are those the last depth points at that no
\* earlier depth holds.
RECURSIVE levels(_, _, _, _, _)
levels(spec, docs, front, depth, held) ==
    LET new == SelectSeq(docs, LAMBDA d : read(d, spec.connectToField) \in front /\ d \notin held)
        put(d) == IF spec.depthField = {} THEN d ELSE with(d, any1(spec.depthField), number(2 * depth))
    IN  IF new = <<>> \/ \E n \in spec.maxDepth : depth > n THEN <<>>
        ELSE each(new, put) \o levels(spec, docs, flat({ read(d, spec.connectFromField) : d \in Range(new) }),
                                      depth + 1, held \cup Range(new))

graphLookupStage(docs, spec, tables) ==
    LET reached2 == SelectSeq(documents(tables, spec.from), LAMBDA d : matches(asStored(d), spec.restrict, {}))
    IN  each(docs, LAMBDA doc : with(doc, spec.as, array(
            levels(spec, reached2, flat({worth(spec.startWith, doc, <<>>)}), 0, {}))))

RECURSIVE mongoStage(_, _, _), mongoStages(_, _, _)

mongoStage(docs, stage, tables) ==
    LET name == stage[1]
        spec == stage[2]
        sortedBy(ds, sort) == SortSeq(ds, LAMBDA x, y : comesBefore(sort, x, y)) IN
    CASE name = "$match" -> SelectSeq(docs, LAMBDA d : matches(asStored(d), spec, {}))
      [] name = "$sort"  -> sortedBy(docs, spec)
      [] name = "$limit" -> first(spec, docs)
      [] name = "$skip"  -> past(spec, docs)
      [] name = "$sample" -> first(spec, Reverse(docs))
      [] name = "$count" -> IF docs = <<>> THEN <<>> ELSE <<object(spec :> number(2 * Len(docs)))>>
      [] name = "$project" -> projectStage(docs, spec)
      [] name = "$unset"   -> each(docs, LAMBDA d : without1(d, Range(spec)))
      [] name = "$group"   -> groupStage(docs, any1(spec.id), spec.fields)
      [] name = "$unwind"  -> unwindStage(docs, spec)
      [] name = "$bucket"  -> bucketStage(docs, spec)
      [] name = "$sortByCount" ->
           sortedBy(groupStage(docs, spec, CountOne), <<<<<<"count">>, "-1">>>>)
      [] name \in {"$addFields", "$set"} ->
           each(docs, LAMBDA d : FoldLeft(LAMBDA made, e : with(made, e[1], worth(e[2], d, <<>>)), d, spec))
      [] name \in {"$replaceRoot", "$replaceWith"} -> each(docs, LAMBDA d : worth(any1(spec), d, <<>>))
      [] name = "$lookup"      -> lookupStage(docs, spec, tables)
      [] name = "$graphLookup" -> graphLookupStage(docs, spec, tables)
      [] name = "$facet" ->
           <<FoldLeft(LAMBDA doc, f : with(doc, f[1], array(mongoStages(docs, f[2], tables))),
                      object(<<>>), spec)>>

mongoStages(docs, pipeline, tables) ==
    FoldLeft(LAMBDA ds, stage : mongoStage(ds, stage, tables), docs, pipeline)

\* What the pipeline's target holds after it.
mongoWrites(terminal, docs, tables) ==
    LET name == IF terminal[1] = "$out" THEN terminal[2] ELSE terminal[2].into
        old  == { d \in Range(documents(tables, name)) : TRUE }
        idOf(d) == member(d, "_id")
        laid(d) == LET was == { o \in old : idOf(o) = idOf(d) }
                   IN  IF was = {} \/ terminal[2].whenMatched = "replace" THEN d
                       ELSE object(d[2] @@ any1(was)[2])
    IN  IF terminal[1] = "$out" THEN Range(docs)
        ELSE { laid(d) : d \in Range(docs) }
             \cup { o \in old : \A d \in Range(docs) : idOf(d) # idOf(o) }
=============================================================================
