----------------------------- MODULE MCAggregate -----------------------------
(***************************************************************************)
(* Pipelines built a stage at a time, each run over a collection: the rows *)
(* of the SELECTs they fold into, decoded, against what MongoDB makes of   *)
(* the stages one by one.                                                  *)
(***************************************************************************)
EXTENDS MCExpression, MongoAggregate

CONSTANT MatchesProjectedIds   \* may a $match on _id follow a $project that keeps it?

ASSUME MatchesProjectedIds \in BOOLEAN

VARIABLE pipeline

doc2(i, f) == object("id" :> record(number(i)) @@ f)
ns2(s) == array([i \in DOMAIN s |-> number(s[i])])
red  == string(<<1>>)
blue == string(<<2>>)
Database ==
    "t" :> <<doc2(2, "k" :> blue @@ "n" :> number(6) @@ "l" :> ns2(<<2, 4>>) @@ "r" :> number(2)),
             doc2(4, "k" :> red  @@ "n" :> number(2) @@ "l" :> ns2(<<>>) @@ "r" :> ns2(<<2, 6>>)),
             doc2(6, "k" :> blue @@ "n" :> number(4) @@ "l" :> ns2(<<4>>) @@ "r" :> number(4)),
             doc2(8, "k" :> red  @@ "n" :> number(6) @@ "r" :> number(20))>>
    @@ "f" :> <<doc2(2, "n" :> number(2) @@ "up" :> number(4)), doc2(4, "n" :> number(4) @@ "up" :> number(2)),
                doc2(6, "n" :> number(2) @@ "up" :> ns2(<<6, 4>>))>>

p(name) == <<"path", <<name>>>>
c(n)    == <<"literal", number(n)>>
having(name, op, v) == <<<<"field", <<name>>, <<<<op, v>>>>>>>>
in1(name)  == <<<<name>>, <<"flag", 1>>>>
out1(name) == <<<<name>>, <<"flag", 0>>>>
joining(from, foreign) ==
    [from |-> from, localField |-> <<"r">>, foreignField |-> <<foreign>>, as |-> "l", pipeline |-> FALSE]
walks(to, max, restrict) ==
    [from |-> "f", startWith |-> p("r"), connectFromField |-> <<"up">>, connectToField |-> <<to>>,
     as |-> "l", maxDepth |-> max, depthField |-> {"depth"}, restrict |-> restrict]
buckets(default, output) ==
    [groupBy |-> p("n"), boundaries |-> <<number(2), number(4), number(6)>>, default |-> default, output |-> output]
sums == <<<<"n", <<"$sum", p("n")>>>>>>
ends2 == <<<<"n", <<"$last", p("n")>>>>, <<"l", <<"$push", c(2)>>>>>>
tops == <<<<"l", <<"$maxN", p("n"), 1>>>>, <<"n", <<"$count">>>>>>
by(key, fields) == <<"$group", [id |-> {key}, fields |-> fields]>>
sortBy(name, direction) == <<"$sort", <<<<<<name>>, direction>>>>>>
facet(one1, two) == <<"$facet", <<one1, two>>>>
Counted == <<"$count", "n">>
Unwound == <<"$unwind", [path |-> <<"l">>, preserve |-> FALSE, includeArrayIndex |-> FALSE]>>

\* The stages that decide how others fold.
Core ==
    {<<"$match", having("n", "$gt", number(2))>>, <<"$match", having("_id", "$gte", number(4))>>,
     <<"$match", having("_id", "$eq", blue)>>,
     sortBy("n", "-1"), sortBy("_id", "-1"),
     <<"$limit", 1>>, <<"$skip", 1>>, Counted, Unwound,
     <<"$project", <<in1("n"), out1("_id")>>>>, <<"$project", <<in1("_id")>>>>,
     <<"$unset", <<<<"l">>>>>>, <<"$addFields", <<<<"n", <<"$add", <<p("n"), c(2)>>>>>>>>>>,
     by(p("k"), sums), by(<<"literal", NULL>>, ends2), <<"$lookup", joining("f", "n")>>}

Further ==
    {<<"$match", <<>>>>, <<"$match", having("n", "$near", <<"$geometry", 1, <<>>>>)>>,
     <<"$match", <<<<"$or", <<having("k", "$eq", red), having("n", "$lt", number(4))>>>>>>>>,
     <<"$sort", <<<<<<"k">>, "1">>, <<<<"n">>, "desc">>>>>>, <<"$limit", 2>>, <<"$limit", -1>>, <<"$sample", 2>>,
     <<"$count", "a.b">>, <<"$unwind", [path |-> <<"l">>, preserve |-> TRUE, includeArrayIndex |-> FALSE]>>,
     <<"$project", <<in1("n"), out1("l")>>>>, <<"$project", <<out1("l"), out1("_id")>>>>,
     <<"$project", <<<<<<"n">>, <<"$subtract", <<p("n"), c(2)>>>>>>, in1("k")>>>>,
     <<"$unset", <<<<"_id">>, <<"n">>>>>>, <<"$set", <<<<"k", p("n")>>, <<"l", <<"list", <<p("n"), p("n")>>>>>>>>>>,
     by(<<"document", <<<<"k", p("k")>>>>>>, tops), by(p("n"), <<<<"l", <<"$addToSet", p("k")>>>>>>),
     by(p("k"), <<<<"n", <<"$avg", p("n")>>>>, <<"k", <<"$min", p("n")>>>>, <<"l", <<"$firstN", p("n"), 1>>>>>>),
     <<"$group", [id |-> {}, fields |-> sums]>>, by(p("k"), <<<<"n", <<"$top", p("n")>>>>>>),
     <<"$bucket", buckets({number(0)}, {})>>, <<"$bucket", buckets({number(8)}, {tops})>>, <<"$bucket", buckets({}, {})>>,
     <<"$sortByCount", p("k")>>, <<"$replaceRoot", {<<"document", <<<<"n", p("n")>>, <<"_id", p("k")>>>>>>}>>,
     <<"$replaceWith", {}>>, <<"$lookup", joining("f", "_id")>>, <<"$lookup", joining("none", "n")>>,
     <<"$graphLookup", walks("n", {}, <<>>)>>, <<"$graphLookup", walks("n", {0}, <<>>)>>,
     <<"$graphLookup", walks("n", {1}, having("_id", "$ne", number(6)))>>, <<"$graphLookup", walks("n", {64}, <<>>)>>,
     facet(<<"l", <<<<"$match", having("n", "$gt", number(2))>>, Counted>>>>,
           <<"n", <<by(p("k"), sums), sortBy("_id", "1")>>>>),
     facet(<<"l", <<sortBy("n", "1"), <<"$limit", 2>>, <<"$project", <<in1("n"), out1("_id")>>>>>>>>,
           <<"n", <<<<"$lookup", joining("f", "n")>>, Unwound, Counted>>>>),
     facet(<<"l", <<facet(<<"n", <<>>>>, <<"k", <<>>>>)>>>>, <<"n", <<>>>>),
     <<"$bucketAuto", 2>>}

merge(on, whenMatched) == <<"$merge", [into |-> "f", on |-> on, whenMatched |-> whenMatched]>>
Writes == {<<"$out", "f">>, merge("_id", "replace"), merge("_id", "merge"), merge("n", "merge")}

\* A $project selects the record into _id, and a later $match compares it with
\* plain values.
projectsId(stage) == stage[1] = "$project" /\ keepsId(stage[2]) /\ \E e \in Range(stage[2]) : ~isExcluded(e)
matchesProjectedId(stages) ==
    \E i \in DOMAIN stages : /\ stages[i][1] = "$match"
                             /\ \E k \in DOMAIN stages[i][2] : stages[i][2][k][2] = <<"_id">>
                             /\ \E k \in 1..(i - 1) : projectsId(stages[k])

\* A pipeline grows by any stage, also past a write: by another write, or by a
\* stage the write must not come before.
buildsPipeline ==
    \E stage \in Core \cup (IF Len(pipeline) < 2 THEN Further ELSE {})
                   \cup (IF Len(pipeline) < 2 \/ terminalWrite(pipeline) THEN Writes ELSE {}) :
        /\ pipeline # <<>> => ~refusesStage(Last(pipeline)) \/ terminalWrite(pipeline)
        /\ MatchesProjectedIds \/ ~matchesProjectedId(Append(pipeline, stage))
        /\ pipeline' = Append(pipeline, stage)

\* The stages that read, and the writes at the end.
writesFrom == CHOOSE k \in 0..Len(pipeline) :
    /\ \A i \in (k + 1)..Len(pipeline) : pipeline[i][1] \in {"$out", "$merge"}
    /\ k = 0 \/ ~terminalWrite(SubSeq(pipeline, 1, k))
reading == SubSeq(pipeline, 1, writesFrom)
writing == SubSeq(pipeline, writesFrom + 1, Len(pipeline))

-----------------------------------------------------------------------------
\* A field that is null, or nothing, is left out.
RECURSIVE bare(_)
bare(v) ==
    CASE v = NONE   -> NULL
      [] isArray(v) -> array([i \in DOMAIN v[2] |-> bare(v[2][i])])
      [] isType(v, "object") ->
           object([n \in { k \in DOMAIN v[2] : v[2][k] \notin {NONE, NULL} } |-> bare(v[2][n])])
      [] OTHER -> v

lacks(docs, where) == \A d \in Range(docs) : read(d, where) \in {NONE, ABORTS}

\* A sort that orders nothing: of a field no document has left, which the
\* statement that dropped it may refuse to order by.
sortsWhatIsGone(stage, docs) ==
    stage[1] = "$sort" /\ \E k \in DOMAIN stage[2] : lacks(docs, stage[2][k][1])
sortsAReplacedRoot ==
    \E i \in DOMAIN pipeline : pipeline[i][1] = "$sort" /\ \E k \in 1..(i - 1) : pipeline[k][1] = "$replaceRoot"

\* An expression or an accumulator over an $n that is no number: MongoDB goes
\* on without it, and the statement fails.
Computing == {"$addFields", "$set", "$project", "$group", "$bucket", "$sortByCount", "$replaceRoot",
              "$graphLookup", "$facet"}
computesOverGaps(stage, docs) ==
    stage[1] \in Computing /\ \E d \in Range(docs) : ~isType(member(d, "n"), "number")

differs(stage, docs) == sortsWhatIsGone(stage, docs) \/ computesOverGaps(stage, docs)

\* What a $merge or an $out of documents without an _id of their own does is
\* the server's to say.
\* The first write at the end has the documents, and the next ones have none.
leftByWrites(docs) ==
    FoldLeft(LAMBDA held, stage : IF stage[1] = "$out" THEN {} ELSE held,
             mongoWrites(Head(writing), docs, Database), Tail(writing))

writesAsMongo(after, docs) ==
    LET ids == [i \in DOMAIN docs |-> member(docs[i], "_id")]
    IN  \/ NONE \in Range(ids) \/ ~IsInjective(ids)
        \/ { bare(d) : d \in Range(documents(after, "f")) } = { bare(d) : d \in leftByWrites(docs) }

endsAsMongo(end, docs) ==
    IF writing = <<>> THEN bare(end.cursor) = bare(array(docs))
    ELSE writesAsMongo(end.tables, docs)

\* The documents MongoDB's stages leave, up to one the two differ about.
followed ==
    FoldLeft(LAMBDA at, stage :
               IF at.differs \/ differs(stage, at.docs) THEN [at EXCEPT !.differs = TRUE]
               ELSE [at EXCEPT !.docs = mongoStage(@, stage, Database)],
             [docs |-> documents(Database, "t"), differs |-> FALSE], reading)
meansItsStages(end, at) == at.differs \/ endsAsMongo(end, at.docs)

answer  == executeAggregate(pipeline, "t", Database)
Refusal == outcome(REFUSED, Database)

\* A pipeline folded into nested SELECTs, with each output field computed where
\* its rows still hold what it reads, gives the documents MongoDB's stages give
\* one after another, and its $out or $merge leaves the target as MongoDB would;
\* one that is refused, for a write that is not at the end too, has written
\* nothing. Of several writes at the end, which MongoDB refuses, all run, the
\* first over the documents and the next over none. builder.ts takes a stage into
\* the current SELECT when that SELECT has not yet passed the stage's clause:
\* translators/aggregate, operations/aggregate.ts.
PipelineMeansItsStages ==
    \/ sortsAReplacedRoot
    \/ LET end == answer IN end = Refusal \/ meansItsStages(end, followed)

\* "MongoDB requires both to be the final stage, and so does this driver"
\* (translators/aggregate/index.ts:26): checked by hand, and not so of a write
\* before another at the end.
WritesAreLast == (\E i \in 1..(Len(pipeline) - 1) : pipeline[i][1] \in {"$out", "$merge"}) => answer = Refusal
=============================================================================
