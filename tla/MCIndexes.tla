------------------------------ MODULE MCIndexes ------------------------------
(* Instances of Indexes for TLC: two flows, on one Collection object or on   *)
(* two, and indexes whose names and columns meet.                            *)
EXTENDS Indexes, TLC

CONSTANTS f1, f2, c1, c2

MCFlows  == {f1, f2}
MCOwners == {f1 :> c1 @@ f2 :> c1, f1 :> c1 @@ f2 :> c2}

plain == [name |-> <<>>, unique |-> FALSE, sparse |-> FALSE, rejected |-> FALSE]
named(n) == [plain EXCEPT !.name = n]
Specs == {<<<<<<"a", "text">>>>, plain>>,
          <<<<<<"a", "text">>, <<"b", "text">>>>, named(<<"t">>)>>,
          <<<<<<"b", "-1">>, <<"b", "1">>>>, named(<<"t", "a">>)>>,
          <<<<<<"b", "1">>, <<"7", "1">>>>, [named(<<"t">>) EXCEPT !.unique = TRUE]>>,
          <<<<<<"newword", "1">>>>, plain>>,
          <<<<<<"a", "text">>, <<"newword", "text">>>>, plain>>,
          <<<<<<"a", "1">>, <<"b", "text">>>>, plain>>,
          <<<<<<"select", "1">>>>, plain>>,
          <<<<<<"c", "1">>>>, named(ID_INDEX_NAME)>>,
          <<<<<<"_id", "-1">>>>, plain>>,
          <<<<<<"c", "1">>>>, [plain EXCEPT !.rejected = TRUE]>>}
Definitions == { resolveIndexDefinition(s[1], s[2]) :
                   s \in { t \in Specs : ~refusesIndexDefinition(t[1], t[2]) } }
identity == resolveIndexDefinition(<<<<"_id", "1">>>>, plain)
textPair == resolveIndexDefinition(<<<<"a", "text">>, <<"b", "text">>>>, named(<<"t">>))
onB == resolveIndexDefinition(<<<<"b", "1">>>>, named(<<"t", "a">>))

MCCalls == { createIndexes(<<d>>) : d \in Definitions }
           \cup {createIndexes(<<onB, identity, textPair>>), dropIndex(<<"t">>),
                 dropIndexes, search}

byHand(columns, kind) == [columns |-> columns, kind |-> kind, unique |-> FALSE, comment |-> {}]
MCTables == {<<>>, <<"t", "b">> :> byHand(<<"a">>, "btree"),
             ID_INDEX_NAME :> byHand(<<"id">>, "btree") @@ <<"t">> :> byHand(<<"b">>, "fulltext")}
=============================================================================
