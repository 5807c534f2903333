------------------------------- MODULE Indexes -------------------------------
(***************************************************************************)
(* collection/operations/indexes.ts and index-registry.ts: indexes are     *)
(* created, dropped and searched by flows that share the server, and some  *)
(* of them a Collection object and its registry. Every statement is a step *)
(* at the server and another when its answer arrives.                      *)
(*                                                                         *)
(* Calls inside a transaction are left out: their registry is a new one    *)
(* every time.                                                             *)
(***************************************************************************)
EXTENDS IndexDefinition

CONSTANTS Flows,          \* callers
          Calls,          \* the calls they make: see createIndexes ... below
          Tables,         \* what the server may hold at first
          Owners,         \* which Collection each flow uses: functions from Flows
          MaxCalls,       \* bound: calls that are made
          MaxLost         \* bound: answers that are lost

VARIABLES server,         \* name -> index
          registry,       \* Collection -> MongoDB name -> key
          loaded,         \* Collection -> has it been read?
          owner,          \* flow -> Collection
          call,           \* flow -> the call under way
          made, lost,     \* calls made; answers lost
          result,         \* flow -> how its last call ended
          \* History.
          overlapped,     \* flow -> did another write while its last call did?
          entangled,      \* did writers overlap, or was one broken off half way?
          defined,        \* flow -> what it has defined of the definition it is at
          gone,           \* flow -> what was removed since its last call began
          fresh           \* Collection -> is its registry what the server has?

past == <<overlapped, entangled, defined, gone, fresh>>
vars == <<server, registry, loaded, owner, call, made, lost, result, past>>

Collections == UNION { Range(o) : o \in Owners }

\* A call that waits in phase "inventory" for INFO FOR TABLE, in "statements"
\* for those in `todo`, in "search" for the query; `ran` once the server has
\* done what it waits for.
NoCall == [op |-> "none", definitions |-> <<>>, name |-> <<>>, phase |-> "idle",
           ran |-> FALSE, table |-> <<>>, todo |-> <<>>, fields |-> {}]
createIndexes(definitions) == [NoCall EXCEPT !.op = "create", !.definitions = definitions]
dropIndex(name) == [NoCall EXCEPT !.op = "drop", !.name = name]
dropIndexes     == [NoCall EXCEPT !.op = "dropAll"]
search          == [NoCall EXCEPT !.op = "search"]     \* a find() with $text

NoDefinition == [name |-> <<>>, key |-> <<>>, kind |-> "btree", columns |-> <<>>,
                 unique |-> FALSE, sparse |-> FALSE]
NoResult == [op |-> "none", status |-> "none", of |-> NoDefinition]

\* What is asked for has been through resolveIndexDefinition, and no document
\* has a field called id: that is the column of its _id.
CallsAreResolved ==
    \A c \in Calls :
        \/ c = search \/ c = dropIndexes \/ c = dropIndex(c.name)
        \/ /\ c = createIndexes(c.definitions)
           /\ c.definitions \in Seq(Range(c.definitions))
           /\ \A d \in Range(c.definitions) :
                 IsResolved(d) /\ \A i \in DOMAIN d.key : d.key[i][1] # "id"

\* Indexes defined by hand: the server takes a FULLTEXT over one column only.
TablesAreByHand ==
    \A t \in Tables :
        /\ IsFiniteSet(DOMAIN t) /\ t = [p \in DOMAIN t |-> t[p]]
        /\ \A p \in DOMAIN t :
              /\ t[p] \in [columns: Seq(Strings), kind: {"btree", "fulltext"},
                           unique: BOOLEAN, comment: {{}}]
              /\ t[p].columns # <<>>
              /\ t[p].kind = "fulltext" => Len(t[p].columns) = 1

ASSUME BoundsAssumption == MaxCalls \in Nat /\ MaxLost \in Nat
ASSUME OwnersAssumption == \A o \in Owners : o = [f \in Flows |-> o[f]]
ASSUME CallsAssumption == CallsAreResolved
ASSUME TablesAssumption == TablesAreByHand

-----------------------------------------------------------------------------
Init == /\ owner \in Owners
        /\ server \in Tables
        /\ registry = [c \in Collections |-> <<>>]
        /\ loaded = [c \in Collections |-> FALSE]
        /\ call = [f \in Flows |-> NoCall]
        /\ made = 0 /\ lost = 0
        /\ result = [f \in Flows |-> NoResult]
        /\ overlapped = [f \in Flows |-> FALSE]
        /\ entangled = FALSE
        /\ defined = [f \in Flows |-> {}]
        /\ gone = [f \in Flows |-> {}]
        /\ fresh = [c \in Collections |-> FALSE]

writes(c) == c.op \in {"create", "drop", "dropAll"}
textFields(c) == UNION { textFieldsOfKey(registry[c][n]) : n \in DOMAIN registry[c] }

returns(f, status, definition) ==
    /\ result' = [result EXCEPT ![f] = [op |-> call[f].op, status |-> status, of |-> definition]]
    /\ call' = [call EXCEPT ![f] = NoCall]

\* {_id: 1} is there already, and a createIndexes passes it over.
toDefine(definitions) ==
    selected(definitions, { d \in Range(definitions) : ~isIdIndexKey(d.key) })

defineNext(f, left) ==
    IF left = <<>> THEN returns(f, "ok", Head(call[f].definitions))
    ELSE /\ call' = [call EXCEPT ![f] = [createIndexes(left) EXCEPT !.phase = "inventory"]]
         /\ UNCHANGED result

-----------------------------------------------------------------------------
begin(f, c) ==
    LET left == toDefine(c.definitions)
        known == c.op = "search" /\ loaded[owner[f]]
        others == { g \in Flows \ {f} : writes(call[g]) } IN
    /\ call[f] = NoCall /\ made < MaxCalls
    /\ c.op = "create" => left # <<>>
    /\ c.op = "drop" => c.name # ID_INDEX_NAME
    /\ made' = made + 1
    /\ result' = [result EXCEPT ![f] = NoResult]
    /\ call' = [call EXCEPT ![f] =
                   [c EXCEPT !.phase = IF known THEN "search" ELSE "inventory",
                             !.fields = IF known THEN textFields(owner[f]) ELSE {},
                             !.definitions = left]]
    /\ overlapped' = [g \in Flows |-> IF g = f THEN others # {}
                                      ELSE overlapped[g] \/ (g \in others /\ writes(c))]
    /\ entangled' = (entangled \/ (others # {} /\ writes(c)))
    /\ defined' = [defined EXCEPT ![f] = {}]
    /\ gone' = [gone EXCEPT ![f] = {}]
    /\ UNCHANGED <<server, registry, loaded, owner, lost, fresh>>

\* INFO FOR TABLE, whose answer the call keeps until it arrives.
infoRuns(f) ==
    /\ call[f].phase = "inventory" /\ ~call[f].ran
    /\ call' = [call EXCEPT ![f] = [@ EXCEPT !.ran = TRUE, !.table = server]]
    /\ UNCHANGED <<server, registry, loaded, owner, made, lost, result, past>>

\* sync()
readIndexInventory(f, inventory) ==
    /\ registry' = [registry EXCEPT ![owner[f]] = [n \in DOMAIN inventory |-> inventory[n].key]]
    /\ loaded' = [loaded EXCEPT ![owner[f]] = TRUE]
    /\ fresh' = [fresh EXCEPT ![owner[f]] = (call[f].table = server)]

isEquivalent(existing, definition) ==
    /\ existing.key = keyToObject(definition.key)
    /\ existing.unique = definition.unique
    /\ existing.sparse = definition.sparse

conflicts_namesOnly(table, definition) ==   \* SurrealDB's names are not checked
    LET inventory == describeIndexes(table) IN
    \/ definition.name \in DOMAIN inventory
    \/ \E n \in DOMAIN inventory \ {ID_INDEX_NAME} : isEquivalent(inventory[n], definition)
conflicts(table, definition) ==
    LET inventory == describeIndexes(table) IN
    \/ definition.name \in DOMAIN inventory
    \/ \E n \in DOMAIN inventory \ {ID_INDEX_NAME} : isEquivalent(inventory[n], definition)
    \/ physicalIndexNames(definition) \cap DOMAIN table # {}

isDefined(table, definition) ==
    LET inventory == describeIndexes(table) IN
    definition.name \in DOMAIN inventory /\ isEquivalent(inventory[definition.name], definition)

works(f, todo) ==
    /\ call' = [call EXCEPT ![f] = [@ EXCEPT !.phase = "statements", !.ran = FALSE,
                                             !.table = <<>>, !.todo = todo]]
    /\ UNCHANGED result

defineIndex(f, table) ==
    LET definition == Head(call[f].definitions) IN
    IF isDefined(table, definition) THEN defineNext(f, Tail(call[f].definitions))
    ELSE IF conflicts(table, definition) THEN returns(f, "conflict", definition)
    ELSE works(f, buildIndexStatements(definition))

\* A sequence of <<name, index>>, a REMOVE INDEX each.
removals(table, names) ==
    LET infos == SetToSeq(names) IN [i \in DOMAIN infos |-> <<infos[i], table[infos[i]]>>]

dropNamed_first(f, table) ==              \* one SurrealDB index a name
    LET todo == removals(table, partsOf(table, call[f].name)) IN
    IF todo = <<>> THEN returns(f, "notFound", NoDefinition) ELSE works(f, <<Head(todo)>>)
dropNamed(f, table) ==
    LET todo == removals(table, partsOf(table, call[f].name)) IN
    IF todo = <<>> THEN returns(f, "notFound", NoDefinition) ELSE works(f, todo)

searchFor(f, inventory) ==
    /\ call' = [call EXCEPT ![f] =
                   [search EXCEPT !.phase = "search",
                                  !.fields = UNION { textFieldsOfKey(inventory[n].key) :
                                                     n \in DOMAIN inventory }]]
    /\ UNCHANGED result

inventoryArrives(f) ==
    LET c == call[f] IN
    /\ c.phase = "inventory" /\ c.ran
    /\ readIndexInventory(f, describeIndexes(c.table))
    /\ \/ c.op = "create"  /\ defineIndex(f, c.table)
       \/ c.op = "drop"    /\ dropNamed(f, c.table)
       \/ c.op = "dropAll" /\ works(f, removals(c.table, DOMAIN c.table))
       \/ c.op = "search"  /\ searchFor(f, describeIndexes(c.table))
    /\ defined' = [defined EXCEPT ![f] = {}]
    /\ UNCHANGED <<server, owner, made, lost, overlapped, entangled, gone>>

\* Another Collection's registry no longer says what the server has.
staleElsewhere(f) == fresh' = [c \in Collections |-> fresh[c] /\ c = owner[f]]

with(held, name, value) ==
    [n \in DOMAIN held \cup {name} |-> IF n = name THEN value ELSE held[n]]
without(held, name) == [n \in DOMAIN held \ {name} |-> held[n]]

\* DEFINE INDEX and its read-back, in one transaction: a name that is taken, or
\* a definition the server cannot read, leaves nothing of this statement.
defineOneIndex(f, statement) ==
    LET definition == Head(call[f].definitions)
        refused(status) == /\ returns(f, status, definition)
                           /\ entangled' = (entangled \/ defined[f] # {})
                           /\ UNCHANGED <<server, overlapped, defined, gone, fresh>> IN
    IF statement[1] \in DOMAIN server THEN refused("exists")
    ELSE IF statement[2].columns[1] \in Unreadable THEN refused("unreadable")
    ELSE /\ server' = with(server, statement[1], statement[2])
         /\ call' = [call EXCEPT ![f].ran = TRUE]
         /\ defined' = [defined EXCEPT ![f] = @ \cup {statement[1]}]
         /\ staleElsewhere(f)
         /\ UNCHANGED <<result, overlapped, entangled, gone>>

\* REMOVE INDEX, refused when it is no longer there.
removeIndex(f, physical) ==
    IF physical \notin DOMAIN server
    THEN returns(f, "missing", NoDefinition) /\ UNCHANGED <<server, past>>
    ELSE /\ server' = without(server, physical)
         /\ call' = [call EXCEPT ![f].ran = TRUE]
         /\ gone' = [g \in Flows |-> gone[g] \cup {physical}]
         /\ staleElsewhere(f)
         /\ UNCHANGED <<result, overlapped, entangled, defined>>

statementRuns(f) ==
    LET c == call[f] IN
    /\ c.phase = "statements" /\ ~c.ran /\ c.todo # <<>>
    /\ IF c.op = "create" THEN defineOneIndex(f, Head(c.todo))
       ELSE removeIndex(f, Head(c.todo)[1])
    /\ UNCHANGED <<registry, loaded, owner, made, lost>>

statementArrives(f) ==
    /\ call[f].phase = "statements" /\ call[f].ran /\ Len(call[f].todo) > 1
    /\ call' = [call EXCEPT ![f].ran = FALSE, ![f].todo = Tail(@)]
    /\ UNCHANGED <<server, registry, loaded, owner, made, lost, result, past>>

\* add(), remove() or sync([]), whichever the call ends with.
tracked_neverForgets(c, held) ==          \* remove() is left out
    IF c.op = "create" THEN with(held, Head(c.definitions).name,
                                 keyToObject(Head(c.definitions).key))
    ELSE IF c.op = "drop" THEN held
    ELSE <<>>
tracked(c, held) ==
    IF c.op = "create" THEN with(held, Head(c.definitions).name,
                                 keyToObject(Head(c.definitions).key))
    ELSE IF c.op = "drop" THEN without(held, c.name)
    ELSE <<>>

\* The last answer arrives.
completes(f) ==
    LET c == call[f] IN
    /\ c.phase = "statements" /\ Len(c.todo) = IF c.ran THEN 1 ELSE 0
    /\ registry' = [registry EXCEPT ![owner[f]] = tracked(c, @)]
    /\ IF c.op = "create" THEN defineNext(f, Tail(c.definitions))
       ELSE returns(f, "ok", NoDefinition)
    /\ UNCHANGED <<server, loaded, owner, made, lost, past>>

\* The query matches each field it names by its own text index.
isIndexed(field) == \E n \in DOMAIN server : /\ server[n].kind = "fulltext"
                                            /\ field \in Range(server[n].columns)
searchRuns(f) ==
    LET c == call[f] IN
    /\ c.phase = "search"
    /\ returns(f, IF c.fields = {} THEN "noIndex"
                  ELSE IF \A field \in c.fields : isIndexed(field) THEN "ok"
                  ELSE "unindexed", NoDefinition)
    /\ UNCHANGED <<server, registry, loaded, owner, made, lost, past>>

\* The connection goes: the call is rejected, its statement run or not.
answerLost(f) ==
    /\ call[f] # NoCall /\ lost < MaxLost
    /\ call[f].phase = "statements" => call[f].ran \/ call[f].todo # <<>>
    /\ lost' = lost + 1
    /\ returns(f, "lost", NoDefinition)
    /\ entangled' = (entangled \/ call[f].phase = "statements")
    /\ UNCHANGED <<server, registry, loaded, owner, made, overlapped, defined, gone, fresh>>

step(f) == \/ infoRuns(f) \/ inventoryArrives(f) \/ statementRuns(f)
           \/ statementArrives(f) \/ completes(f) \/ searchRuns(f)
Done == /\ made = MaxCalls /\ \A f \in Flows : call[f] = NoCall
        /\ UNCHANGED vars
Next == \/ \E f \in Flows : step(f) \/ answerLost(f) \/ \E c \in Calls : begin(f, c)
        \/ Done
Spec == Init /\ [][Next]_vars /\ \A f \in Flows : WF_vars(step(f))

-----------------------------------------------------------------------------
quiet == \A f \in Flows : ~writes(call[f])
created(f) == result[f].op = "create" /\ call[f] = NoCall
single(d)  == Cardinality(physicalIndexNames(d)) = 1

\* A createIndex that resolved left every SurrealDB index of its definition,
\* unless someone dropped one meanwhile; for a text index of several fields,
\* unless writers overlapped or one was broken off, which may leave a part of it
\* that is taken for the whole: indexes.ts, defineIndex. One that was refused
\* for a name has defined nothing of that definition, unless another wrote
\* meanwhile: every name is checked before the first statement. One the server
\* cannot read back has defined nothing if it is a single index.
CreatesAllOrNothing ==
    \A f \in Flows : created(f) =>
        LET d == result[f].of IN
        /\ result[f].status = "ok" =>
             \/ ~single(d) /\ entangled
             \/ physicalIndexNames(d) \subseteq DOMAIN server \cup gone[f]
        /\ result[f].status \in {"conflict", "exists"} => overlapped[f] \/ defined[f] = {}
        /\ result[f].status = "unreadable" => ~single(d) \/ defined[f] = {}

\* What listIndexes reports is indexed, and all of it: the metadata of every
\* index, those of several SurrealDB indexes and those defined by hand.
ListedIsIndexed ==
    quiet /\ ~entangled =>
        LET inventory == describeIndexes(server) IN
        \A n \in DOMAIN inventory \ {ID_INDEX_NAME} :
            Range(fieldsOf(inventory[n].key)) =
                { fieldOf(c) : c \in UNION { Range(server[p].columns) : p \in partsOf(server, n) } }

\* The fields a $text search expands to are the ones with a text index, all and
\* no others, when nobody else has changed the indexes since this Collection read
\* them: the registry follows its own creates and drops without another reading,
\* index-registry.ts.
RegistryStaysCurrent ==
    \A c \in Collections :
        loaded[c] /\ fresh[c] /\ quiet /\ ~entangled =>
            textFields(c) =
                { fieldOf(x) : x \in UNION { Range(server[p].columns) :
                     p \in { q \in DOMAIN server : /\ server[q].kind = "fulltext"
                                                   /\ q # ID_INDEX_NAME } } }

\* Creating an index that is there already is no error (indexes.ts, its header).
RecreatingIsANoOp ==
    \A f \in Flows : created(f) /\ result[f].status = "exists" =>
        ~isDefined(server, result[f].of)

\* "No index was created and the collection is unchanged" (indexes.ts, defineOneIndex).
RefusedLeavesNothing ==
    \A f \in Flows : created(f) /\ result[f].status = "unreadable" => defined[f] = {}
=============================================================================
