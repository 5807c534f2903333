-------------------------- MODULE IndexDefinition --------------------------
(***************************************************************************)
(* collection/index-definition.ts: what an index specification is resolved *)
(* to, the SurrealDB indexes that make it up, and the inventory that is    *)
(* read back from them.                                                    *)
(*                                                                         *)
(* A key is a sequence of <<field, direction>>. A name is a sequence of    *)
(* the parts that "_" joins, so that the name generated for {a: 1} and the *)
(* one derived for a column can collide. An index of the server is what    *)
(* its name maps to in a table: the columns, the kind, whether it is       *)
(* unique, and its comment.                                                *)
(***************************************************************************)
EXTENDS Integers, SequencesExt, FiniteSetsExt

\* STRING: the provers do not know the strings that are written out to be in it.
Strings == STRING \cup {"_id", "id", "1", "text"}

ID_INDEX_NAME == <<"_id_">>
fieldsOf(key) == [i \in DOMAIN key |-> key[i][1]]

-----------------------------------------------------------------------------
(* The specification *)

\* A Map's set: a field given twice keeps its place and takes the later direction.
withEntry(key, entry) ==
    IF \E i \in DOMAIN key : key[i][1] = entry[1]
    THEN [i \in DOMAIN key |-> IF key[i][1] = entry[1] THEN entry ELSE key[i]]
    ELSE Append(key, entry)

resolveIndexKey(spec) ==
    LET key[i \in 0..Len(spec)] ==
            IF i = 0 THEN <<>> ELSE withEntry(key[i - 1], spec[i])
    IN  key[Len(spec)]

\* The members of s that are in S, in their order.
selected(s, S) ==
    LET kept[i \in 0..Len(s)] ==
            IF i = 0 THEN <<>>
            ELSE IF s[i] \in S THEN Append(kept[i - 1], s[i]) ELSE kept[i - 1]
    IN  kept[Len(s)]

generateIndexName(key) ==
    [i \in 1..(2 * Len(key)) |-> key[(i + 1) \div 2][IF i % 2 = 1 THEN 1 ELSE 2]]

\* A plain object puts the names that are whole numbers first.
Numerals == {"7"}
keyToObject(key) ==
    LET numbered == { e \in Range(key) : e[1] \in Numerals }
    IN  selected(key, numbered) \o selected(key, Range(key) \ numbered)

isIdIndexKey(key) == key = <<<<"_id", "1">>>>

\* Words the server stores an index on and cannot read back: those this driver
\* knows, and one it does not.
UNINDEXABLE_LEADING_SEGMENTS == {"select"}
Unreadable == UNINDEXABLE_LEADING_SEGMENTS \cup {"newword"}

isText(key) == \E i \in DOMAIN key : key[i][2] = "text"
resolveIndexKind(key) == IF isText(key) THEN "fulltext" ELSE "btree"
refusesIndexKind(key) ==
    \/ \E i \in DOMAIN key : key[i][2] \notin {"1", "-1", "text"} \/ key[i][1] = "$**"
    \/ isText(key) /\ \E i \in DOMAIN key : key[i][2] # "text"

refusesIndexDefinition(spec, options) ==
    LET key == resolveIndexKey(spec) IN
    \/ key = <<>> \/ options.rejected
    \/ Len(key) = 1 /\ key[1][1] = "_id" /\ ~isIdIndexKey(key)
    \/ Range(fieldsOf(key)) \cap UNINDEXABLE_LEADING_SEGMENTS # {}
    \/ refusesIndexKind(key)
    \/ options.name = ID_INDEX_NAME /\ ~isIdIndexKey(key)

columnOf(field) == IF field = "_id" THEN "id" ELSE field
fieldOf(column) == IF column = "id" THEN "_id" ELSE column

resolveIndexDefinition(spec, options) ==
    LET key == resolveIndexKey(spec) IN
    [name |-> IF options.name = <<>> THEN generateIndexName(key) ELSE options.name,
     key  |-> key, kind |-> resolveIndexKind(key),
     columns |-> [i \in DOMAIN key |-> columnOf(key[i][1])],
     unique  |-> options.unique, sparse |-> options.sparse]

\* What every definition that is not refused satisfies.
IsResolved(definition) ==
    LET key == definition.key IN
    /\ definition \in [name: Seq(Strings), key: Seq(Strings \X Strings),
                       kind: {"btree", "fulltext"}, columns: Seq(Strings),
                       unique: BOOLEAN, sparse: BOOLEAN]
    /\ definition.name # <<>>
    /\ definition.name = ID_INDEX_NAME => isIdIndexKey(key)
    /\ key # <<>>
    /\ \A i, j \in DOMAIN key : key[i][1] = key[j][1] => i = j
    /\ isText(key) => \A i \in DOMAIN key : key[i][2] = "text"
    /\ definition.kind = resolveIndexKind(key)
    /\ definition.columns = [i \in DOMAIN key |-> columnOf(key[i][1])]

-----------------------------------------------------------------------------
(* The indexes of the server that a definition becomes. A comment is a set of
   at most one record, and {} any that encodeIndexMetadata did not write. *)

encodeIndexMetadata(definition) ==
    {[name |-> definition.name, key |-> keyToObject(definition.key),
      unique |-> definition.unique, sparse |-> definition.sparse]}

physicalIndexName(definition, column) ==
    IF definition.kind = "fulltext" /\ Len(definition.columns) > 1
    THEN Append(definition.name, column) ELSE definition.name

physicalIndexNames(definition) ==
    { physicalIndexName(definition, c) : c \in Range(definition.columns) }

\* A sequence of <<name, index>>, a DEFINE INDEX each.
buildIndexStatements(definition) ==
    LET index(columns) == [columns |-> columns, kind |-> definition.kind,
                           unique  |-> definition.kind = "btree" /\ definition.unique,
                           comment |-> encodeIndexMetadata(definition)]
    IN  IF definition.kind = "fulltext"
        THEN [i \in DOMAIN definition.columns |->
                 <<physicalIndexName(definition, definition.columns[i]),
                   index(<<definition.columns[i]>>)>>]
        ELSE <<<<definition.name, index(definition.columns)>>>>

-----------------------------------------------------------------------------
(* The inventory *)

inferKey(index) ==
    [i \in DOMAIN index.columns |->
        <<fieldOf(index.columns[i]), IF index.kind = "fulltext" THEN "text" ELSE "1">>]

describeOne(physical, index) ==
    IF index.comment = {}
    THEN [name |-> physical, key |-> inferKey(index), unique |-> index.unique, sparse |-> FALSE]
    ELSE CHOOSE metadata \in index.comment : TRUE

\* The indexes of the server that are one index of MongoDB, called `name`.
partsOf(table, name) == { p \in DOMAIN table : describeOne(p, table[p]).name = name }

\* The first is described, and the fields of the others extend its key.
describeParts(parts) ==
    LET infos == SetToSeq(DOMAIN parts)
        described(i) == describeOne(infos[i], parts[infos[i]])
        key[i \in 0..Len(infos)] ==
            IF i = 0 THEN <<>> ELSE resolveIndexKey(key[i - 1] \o described(i).key)
    IN  [key |-> keyToObject(key[Len(infos)]),
         unique |-> described(1).unique, sparse |-> described(1).sparse]

idIndexDescription == [key |-> <<<<"_id", "1">>>>, unique |-> FALSE, sparse |-> FALSE]

\* The descriptions by name. What claims the name of the _id index is not one.
describeIndexes(table) ==
    [name \in { describeOne(p, table[p]).name : p \in DOMAIN table } \cup {ID_INDEX_NAME} |->
        IF name = ID_INDEX_NAME THEN idIndexDescription
        ELSE describeParts([p \in partsOf(table, name) |-> table[p]])]

textFieldsOfKey(key) == { key[i][1] : i \in { k \in DOMAIN key : key[k][2] = "text" } }
=============================================================================
