------------------------------ MODULE MCFilter ------------------------------
(***************************************************************************)
(* Filters built up a step at a time, each put to every document of a      *)
(* collection that holds a value of every kind: what the translated clause *)
(* answers against what MongoDB does. MCTranslation takes the steps.       *)
(***************************************************************************)
EXTENDS MongoQuery, Reads, TLC

CONSTANT NegatesIds     \* may a condition on _id be wrapped in $not?

ASSUME NegatesIds \in BOOLEAN

VARIABLE filter

a == string(<<1>>)
ab == string(<<1, 2>>)
A == string(<<11>>)
one(f, v) == object(f :> v)

Scalars == {NULL, bool(0), number(-3), number(4), number(5), Infinity, NaN,
            a, ab, A, date(2), objectId(1), objectId(2)}
Lists   == {array(<<>>), array(<<number(4), NULL>>), array(<<ab, number(-3)>>),
            array(<<NaN>>), array(<<array(<<number(4)>>)>>),
            array(<<one("b", number(4)), one("b", a)>>)}
Objects == {one("b", number(4)), one("b", array(<<number(4)>>)), one("b", NULL), one("c", a)}
Places  == {point(0), point(1), point(3), point(4), stretch(1, 2), stretch(2, 5),
            array(<<point(1), point(5)>>)}
Kept    == {NONE} \cup Scalars \cup Lists \cup Objects \cup Places

stored(v, i, t) == object("a" :> v @@ "id" :> record(number(i)) @@ "t" :> t)
Documents == { stored(v, 4, ab) : v \in Kept } \cup { stored(ab, i, a) : i \in {2, 6} }


Comparisons == RangeOperators \cup {"$eq", "$ne"}
compared == { <<<<op, v>>>> : op \in Comparisons,
              v \in Scalars \cup {array(<<number(4), NULL>>), one("b", number(4))} }
listed == { <<<<op, array(s)>>>> : op \in {"$in", "$nin", "$all"},
            s \in {<<>>, <<NULL>>, <<number(4), ab>>, <<array(<<number(4)>>)>>, <<NaN>>} }
shaped == { <<<<"$size", number(n)>>>> : n \in {-2, 0, 1, 2, 4} }
          \cup { <<<<"$exists", n>>>> : n \in {0, 1} }
          \cup { <<<<"$type", t>>>> : t \in BsonTypes \cup {"javascript"} }
          \cup { <<<<"$mod", s>>>> : s \in {<<number(4), number(-2)>>, <<number(-4), number(1)>>,
                                           <<number(1), number(0)>>, <<number(4), number(0)>>} }
patterns == { <<<<"$regex", pattern(b, s)>>>> : b \in BOOLEAN, s \in {<<1>>, <<2>>, <<11>>} }
            \cup { <<<<"$regex", pattern(TRUE, <<1>>)>>, <<"$options", fl>>>> :
                     fl \in {{"i"}, {"g"}, {"q"}} }
            \cup { <<<<"$options", {"i"}>>>> }
elemMatching ==
    { <<<<"$elemMatch", <<ops, <<>>>>>>>> :
        ops \in {<<>>, <<<<"$gt", number(2)>>>>, <<<<"$eq", NULL>>>>, <<<<"$in", array(<<ab>>)>>>>,
                 <<<<"$not", <<<<"$type", "object">>>>>>>>} }
    \cup { <<<<"$elemMatch", <<<<>>, <<<<<<"b">>, ops>>>>>>>>>> :
             ops \in {<<<<"$eq", number(4)>>>>, <<<<"$gt", number(2)>>>>} }
shapes == {<<"$geometry", 0, 3>>, <<"$box", 3, 0>>, <<"$center", 2, 1>>,
           <<"$center", 2, -1>>, <<"$centerSphere", 2, 1>>}
spatial == { <<<<op, s>>>> : op \in {"$geoWithin", "$geoIntersects"}, s \in shapes }
bands == {<<>>, <<<<"$maxDistance", 11>>>>, <<<<"$minDistance", 2>>>>}
nearby == { <<<<op, <<form, 2, b>>>>>> : op \in NearOperators, form \in {"pair", "$geometry"}, b \in bands }
          \cup { <<<<"$near", <<"$geometry", 2, b>>>>, <<"$maxDistance", 11>>>> : b \in bands }

OperatorLists == compared \cup listed \cup shaped \cup patterns \cup elemMatching
                 \cup spatial \cup nearby
Few == {<<<<"$eq", number(4)>>>>, <<<<"$gt", number(2)>>>>, <<<<"$in", array(<<NULL>>)>>>>,
        <<<<"$regex", pattern(TRUE, <<1>>)>>>>, <<<<"$near", <<"$geometry", 2, <<>>>>>>>>}

on(path, ops) == <<"field", path, ops>>
IdConditions  == { on(<<"_id">>, <<<<op, v>>>>) : op \in Comparisons, v \in {number(4), number(6)} }
                 \cup { on(<<"_id">>, <<<<op, array(<<number(2), number(4)>>)>>>>) : op \in {"$in", "$nin"} }
PathConditions == { on(<<"a", "b">>, <<<<op, v>>>>) : op \in Comparisons,
                    v \in Scalars \ {NULL} }
Conditions == { on(<<"a">>, ops) : ops \in OperatorLists } \cup IdConditions
              \cup PathConditions \cup { <<"$text", <<2>>>>, <<"$where", <<>>>> }
Additions == { on(<<"a">>, ops) : ops \in Few } \cup {on(<<"_id">>, <<<<"$gt", number(2)>>>>), <<"$text", <<2>>>>}

-----------------------------------------------------------------------------
begins == filter = <<>> /\ \E c \in Conditions : filter' = <<c>>
adds   == filter # <<>> /\ \E c \in Additions : filter' = Append(filter, c)
\* another operator on the same field
joins  == /\ Len(filter) = 1 /\ filter[1][1] = "field" /\ filter[1][2] = <<"a">>
          /\ \E ops \in Few : /\ ops[1][1] \notin names(filter[1][3])
                              /\ filter' = <<on(<<"a">>, filter[1][3] \o ops)>>
negates == /\ Len(filter) = 1 /\ filter[1][1] = "field"
           /\ filter[1][2] = <<"_id">> => NegatesIds
           /\ filter' = <<on(filter[1][2], <<<<"$not", filter[1][3]>>>>)>>
wraps   == \E op \in {"$and", "$or", "$nor"} : filter' = <<<<op, <<filter>>>>>>
branches == \E op \in {"$and", "$or", "$nor"}, c \in Additions :
                filter' = <<<<op, <<filter, <<c>>>>>>>>

buildsFilter == begins \/ adds \/ joins \/ negates \/ wraps \/ branches

-----------------------------------------------------------------------------
judgesAsMongo(doc, answer) ==
    /\ answer \in {"true", "false"} => answer = truth(matches(doc, filter, {"t"}))
    /\ answer = "aborts" => textOf(filter) = "malformed"
    /\ answer = "true" =>
         \A near \in nearDistance(filter) : isType(read(doc, near[1]), "point")

\* The clause a filter becomes keeps the documents MongoDB would match, over
\* every operator, every kind of value and every nesting of them, and no document
\* makes the server refuse the statement unless the clause itself is ill-formed:
\* translators/filter. And a row that is kept is one nearest-first can order: a
\* $near that is accepted is a condition of every match, and its field holds a
\* point. read-source.ts measures that field of every row of its subquery.
FilterMatchesAsMongo ==
    \A doc \in Documents : judgesAsMongo(doc, translateFilter(filter, doc, {"t"}))
=============================================================================
