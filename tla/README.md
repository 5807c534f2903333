# Formal model of mql.js

mql.js is a MongoDB driver whose server is SurrealDB: it offers MongoDB's
client, session, cursor and collection API and turns each call into SurrealQL
sent over the SurrealDB JavaScript SDK. This directory holds TLA+ modules that
model the parts of it where calls overlap, wait for one another, are cancelled,
or lose their answer, and the translators as algorithms checked against MongoDB's
meaning; TLC configurations that check them on small instances; and TLAPS proofs of
theorems about them for instances of any size. Source paths
below are relative to `src/src/`.

JavaScript runs one piece of code at a time, from one `await` to the next. That
is the grain of every module: an action is the code between two awaits, flows
of an application interleave at awaits, and whatever a flow reads again after
an await may have been changed by another. What the server or the SDK does with
a call is an action of its own, and may succeed, fail, or succeed with its
answer lost.

## 1. Inventory

| Component | State it keeps | Operations | What is hard |
|---|---|---|---|
| **TransactionExecutor** `surreal/transaction-executor.ts` | the tail of a promise chain, `isLive`, one SDK transaction handle | statements, `commit`, `cancel`, views of other databases | call order over a handle that multiplexes; a settle against statements; a rejection in the chain |
| **ClientSession** `session/client-session.ts`, `session/transaction.ts` | the current transaction and its state, `scope`, `acquiring`, `commitFailure`, `hasEnded` | `startTransaction`, `commitTransaction`, `abortTransaction`, `endSession`, `_executor` | the server transaction is begun by the first operation, so fields change under operations, commits and aborts of other flows that wait |
| **withTransaction** `session/client-session.ts` | attempt, deadline | the retry loop around a callback | which failure may be retried; unknown commit outcome; deadline |
| **MongoClient life cycle** `client/mongo-client.ts`, `client/client-executor.ts`, `client/connection-manager.ts` | `_connected`, `_closed`, `_connecting`, the sessions | `connect`, the gate of each statement, `close` | one bring-up shared by many flows, several round trips long, with `close` landing inside it |
| **Event emitter** `client/event-emitter.ts` | registrations in order | `on`, `once`, `off`, `emit` | listeners that change the registrations, emit or throw while an emit runs |
| **Cursors and row streams** `cursor/*.ts`, `surreal/row-stream.ts` | row iterator, one row read ahead, loaded results, `closed`, an abort signal | `next`, `hasNext`, `toArray`, `count`, `forEach`, `for await`, `close`, `rewind` | a close or an abort during a read; a stream that falls back; mixed reads |
| **Single-document writes** `collection/operations/modify-one.ts`, `update.ts`, `delete.ts`, `replace.ts`, `find-and-modify.ts`, `upsert.ts` | none | one statement that finds and modifies; conflict retries; match-then-insert upsert | atomicity against other clients; the upsert's window |
| **Inserts and bulk writes** `collection/operations/insert.ts`, `bulk-write.ts` | none | a whole batch, then its documents one by one | what was kept, and what is reported, when part fails or an answer is lost |
| **Indexes** `collection/index-definition.ts`, `index-registry.ts`, `operations/indexes.ts` | a registry of what was seen, per `Collection` | create, drop, list, the fields a `$text` search expands to | inventory and definition are separate round trips; one MongoDB index is several of SurrealDB; the registry follows and is not told |
| **Filter translation** `translators/filter/**` | none | a filter to a `WHERE` clause | missing, null, `NaN` and array values; SurrealQL's total order against MongoDB's brackets |
| **Reads** `translators/sort.ts`, `projection.ts`, `operations/find.ts`, `read-source.ts`, `count.ts` | none | a find to a `SELECT`, a projection of a returned document | which of sort, skip, limit, projection and nearest-first reads what the others drop |
| **Update translation** `translators/update/**`, `operations/upsert.ts` | the tree of positional paths of one call | an update to a `SET` clause, the seed of an upsert | operators that meet in one array; what is read before and what after; the seed |
| **Aggregation pipeline** `translators/aggregate/**`, `operations/aggregate.ts` | the `SelectBuilder` of one call | a pipeline to nested `SELECT`s, expressions, `$out` and `$merge` | when a stage folds and when it opens a subquery; which rows still have a record's id; closures' names |
| **Ids and codecs** `utils/id.ts`, `object-id.ts`, `surreal/bson-codec.ts`, `surreal/geometry-codec.ts` | ObjectId's counter | encode, decode | round trips; the counter's limit |
| **Options, errors, commands, connection string, types** | none | tables and parsing | which label and class a failure is given |

How they interact. An operation asks its session for an executor
(`ClientSession._executor`); outside a transaction it gets the client's
`ClientExecutor`, which passes the connection gate (`MongoClient.ensureConnected`);
inside one it gets the `TransactionExecutor` of the transaction's scope, acquired
on first use through `MongoClient._beginTransaction`. Cursors open their row
stream on that executor when they are first read. `close` ends every session,
and so aborts their transactions, before it takes the connection down. The client
reports its life cycle through the event emitter.

What makes each correct is given with its module in section 2.
`PROJECT.json` lists every hazard at the line where it bites, and the property
that catches it.

## 2. The modules

| Module | Models | Promise, as an abstract specification |
|---|---|---|
| `TransactionExecutor` | one server transaction's executor and the server behind its handle | `SerialTransaction` |
| `Transaction` | the transaction states and the table of legal transitions | |
| `ClientSession` | one session, its flows, its acquisitions and scopes | uses `SerialTransaction`'s behaviour for each scope |
| `WithTransaction` | several sessions' retry loops over one counter | `AtomicWork` |
| `MongoClient` | connect, gate, bring-up, close | |
| `SessionSet` | the sessions of a client, their ends, and close()'s loop over them | |
| `ClientWithSessions` | `MongoClient` and its sessions together | |
| `EventEmitter` | registrations and (nested) emits of one event | |
| `FindCursor` | one cursor, its readers, its stream and its signal | |
| `ListCursor` | one cursor over a listing | |
| `MCCursors` | one state space over the two | |
| `Writes`, `MCWrites` | several clients' writes to one collection | |
| `IndexDefinition`, `Indexes`, `MCIndexes` | definitions, the inventory read back from the server, and flows that create, drop and search | |
| `Values` | stored values and the part of SurrealQL the translators emit (external) | |
| `Filter`, `MCFilter` | what a filter's clause says of a document | `MongoQuery` |
| `Reads`, `MCReads` | what a find's statement answers with; projections | MongoDB's page, in `MCReads` |
| `Update`, `MCUpdate` | what an update's `SET` makes of a document; upserts | `MongoUpdate` |
| `Expression`, `MCExpression` | what a compiled aggregation expression evaluates to | `MongoExpression` |
| `Aggregate`, `MCAggregate` | the statements a pipeline folds into, and their rows | `MongoAggregate` |
| `MCTranslation` | one state space over the five above | |

Composition is by contract. `TransactionExecutor` is shown to implement
`SerialTransaction`; `ClientSession` gives each scope the behaviour of
`SerialTransaction` (calls answered in the order they were enqueued, a settle
spending the handle) rather than the promise chain again; `WithTransaction` takes
from `ClientSession` that an attempt's work is one server transaction whose commit
is answered truthfully (`CommitsWhole`, `DiscardedIsNeverDurable`). Each of these promises, and that
`WithTransaction` in turn implements `AtomicWork`, is proved (section 4).

### TransactionExecutor, SerialTransaction

`enqueue` puts a call at the end of the chain (`tail` holds the calls whose promise
has not settled; `ticket` is the history of call order). `dispatch` is the
reaction that runs when everything before it has settled: it checks `isLive`
(`assertLive`), hands the call to the SDK, and a settle clears `isLive` in the same
step. The handle itself may run what it holds in any order (`serverRuns`,
`serverCommits`, `serverCancels`), so ordering is the chain's doing. `replyLost`
is the connection going while a call is with the server.

`AppliedInCallOrder`, `SettleIsABoundary`, `SpentHandleNeverDialled` and
`EveryCallSettles` are the promises of the comments in the source.
`ImplementsSerialTransaction` maps a call that is still with the handle to one that
has not happened: in `SerialTransaction` a call takes effect and is answered in
one step.

### ClientSession

The variables of the first group are the session's fields. `begin[a]` is the promise
of the a-th `_beginTransaction`, `flow[f]` what a flow awaits, `line[a]` the calls on
scope `a`, `server[a]` the server's transaction; `applied`, `acked` and `told` are
history. `beginAdopted`, `beginDiscarded` and `beginRejected` are the three ends of
the callback of `acquireScope`: keep the scope if a transaction is starting *now*,
otherwise cancel it, or forget `acquiring`. `takeScope` clears both fields and
enqueues the settle in one step, as `takeScope()` and the code up to the `await` do;
the state moves only when the settle is answered (`commitSettled`, `answerCancel`),
or the commit budget runs out (`withCommitBudget`). `endSession` with a transaction awaits
its abort, one that sends nothing or throws at once too, and marks the session only after
that (`sessionReleased`): until then the session is usable, a flow that does not wait may start another
transaction on it, and `endSession` marks it ended around that one.

A call the code refuses with an error changes nothing and is no step.

### WithTransaction, AtomicWork

Each session's callback reads a counter and adds one, so that a lost or doubled
update shows. A commit may conflict, land and be acknowledged, land with its answer
lost, or land later than its answer was given up on (`late`). `isRetryable`, the
backoff and the deadline are the code's. `AtomicWork` says that every work lands
at most once and that its call reports it truthfully. A callback that settles its own
transaction and then throws is not modelled.

### MongoClient

`connecting` is the memo `_connecting`, `stage[e]` the await that the e-th run of
`establish()` is at. `sessionsEnded` sets the flags in one step because no await
separates them. There is one SDK connection; opening or closing it is felt by
every bring-up. `ready` is history: the connection that is up has had its namespace
ensured and version accepted. `reopened` is history too: `connect()` was called on a
closed client while its last bring-up was still running. Two bring-ups then share
the connection, and the properties about a single bring-up exclude that case.

### SessionSet, ClientWithSessions

`tracked` is `_sessions`, `closer[c].left` a `close()`'s copy of it. An end of a session is up to three
steps, whoever ends it (`endSession` its owner, `endsNext` a `close()`): `abortCalled` moves a transaction
in progress to its settle, drops one that has not begun, and throws, which is swallowed, when a settle is in flight;
the answer to the abort is awaited (`sessionAborted`, `abortedOne`); and the `finally` marks the session and
takes it from the set (`forgotten`, in `sessionReleased` and `releasedOne`). So a second `close()`, or an owner,
may get past a session whose abort another still awaits, and take the connection down under it; what was asked
before that is still sent before it. An owner may also give its session a transaction in between, and
`late` is the history of such sessions; `found` is that of the sessions there were when each `close()` was called.

A statement asks for its transaction connected or not (`begin`), and then awaits the bring-up (`connectionReady`).
What opens when the session no longer starts a transaction is cancelled, and that is awaited while it is open
(`begun`, `discarded`); a settle that fails leaves it with the server, where nobody asks again (`left`).
A transaction is four states here, and `ClientSession` has the whole of it.

`ClientWithSessions` joins a step of each: `close()` is both modules' (`closeCalled`),
the connection goes down when the loop is over (`sessionsDone`), a refused bring-up
takes it from under the sessions (`bringUpRefused`), and a transaction's first statement passes the gate
of every operation (`beginTransaction`). The two share `connected` and the flows that close; each step is a step or a
stutter of each part, and what is proved of a part is carried over to the two.

### EventEmitter

`registry` is the list of registrations; an emit is a stack frame holding the
snapshot's registrations not called yet, so that an emit within a listener, and a
listener that throws through several emits, are stack operations. A function may be registered as often as
one likes, by `on` and by `once`, and detaching takes its first registration of either kind (`first`). `due` and `calls`
count what each registration should and did receive.

### FindCursor

`FindCursor` over `CursorRows` over the deferred iterator of `row-stream.ts` and the
streamed one behind it: `begin`, `next`, `hasNext`, `toArray`, `count`, `forEach`, `for
await`, `close`, `rewind`, a signal, a stream refused before its first row (`fallsBack`) or
failing (`readFails`), and a stream told to stop while a read is parked in it
(`interrupted`). `AggregationCursor` has the same reads.

### ListCursor

`results` is the listing kept, none or one; an await of `_execute` is a step even when there is
nothing to fetch. The catalogue grows under the cursor, so that a listing is known by its length, and
a runner answers with one there was since it was asked. `for await` walks the listing it found, the
other reads what is there when they resume (`nothingThere` when nothing is).

### Writes

A document is one value under its id, and a model (`updateOne` and the others are
operators that build one) says which ids and values its filter matches and what it
puts there. `pc` is the statement a client awaits. `insertMany` sends the batch whole
(`wholeWritten`, `wholeRefused`, `wholeLost`) and then, whatever that failed with,
document by document (`reissues`); `bulkWrite` runs one model after another
(`goesOn`); the single-document writes are issued again over a conflict
(`conflict`, at most `CONFLICT_ATTEMPTS` times); an upsert inserts in a second statement
(`upserts`), by `UPSERT` for an update and by `CREATE` for a replacement. The server
takes a statement as one step, which is what the single-statement shape of
`modify-one.ts` relies on; a lost answer may belong to a statement that was done or one that
was not. `told` is what the caller learns of each document or model and `did` what was done for it.

### IndexDefinition, Indexes

A MongoDB index is one SurrealDB index, or one per field of a text index, each carrying
the whole definition in its comment. `resolveIndexDefinition`, `buildIndexStatements` and
`describeIndexes` are the way there and back. Each call of `Indexes` first reads the
inventory (`infoRuns` at the server, `inventoryArrives` in the driver), then sends its
statements one at a time (`statementRuns`, `statementArrives`); an answer may be lost
(`answerLost`). `registry` and `loaded` belong to a `Collection` object, which two flows may
share or not, and `tracked` is `sync`, `add` and `remove`. `past` is history: whether writers
overlapped, or one was broken off between two statements (`overlapped`, `entangled`), what a call has defined and
what was dropped meanwhile (`defined`, `gone`), and whether anyone else changed the indexes
since a registry was read (`fresh`).

The loops of the code are recursive functions over what they have come to (`resolveIndexKey`, `describeParts`), and a
list that is filtered is `selected`. A call's definitions are those that `resolveIndexDefinition` did not refuse
(`CallsAreResolved`), and {_id: 1} is passed over when the call begins (`toDefine`). `Strings` is STRING with the
words the definitions write out, which the provers do not know to be in it.

### The translators: Values, Filter, Reads, Update, Expression, Aggregate

A translator is modelled by what its output evaluates to, not by its text: SurrealQL
is `Values`, with its total order, its `NONE` and `NULL`, and its failing functions (`ABORTS`).
`refuses...` operators say when the driver throws instead. The reference is MongoDB's
meaning, written apart from the translators in `MongoQuery`, `MongoUpdate`,
`MongoExpression` and `MongoAggregate`: matching with paths that spread over arrays,
updates made to the document as it was, expressions with environments, and
a pipeline as one function after another.

`Filter` goes operator by operator as `translators/filter/operators` does.
`Update` builds the tree of positional paths (`positional.ts`), with its conflicts, and
assigns what was computed from the record before the statement. `Expression` compiles
closures as the code does: a variable stands for the parameter or the text it
compiles to, so that a name captured by an inner closure shows. `Aggregate` has
`SelectBuilder` as a record: a stage `claim`s a slot of the statement under construction, or
`nest`s it; `render` gives the rows of a statement; `reshaped` tells whether `_id` is still
the record's id. `executeAggregate` takes the write at the end off and calls itself on the rest, as the code does, so that
a pipeline may end in several writes; each `$out` and `$merge` is one step.

`MCTranslation` builds a call a step at a time (`writesFilter`, `writesUpdate`, `upserts`,
`writesRead`, `writesExpression`, `writesPipeline`) and compares the two meanings in every state, over
every document of a collection that holds a value of each kind.

## 3. What is checked

Passing runs:

| Run | Instance | What it shows |
|---|---|---|
| `transaction_executor` | 3 statements, 1 commit, 1 cancel | every order of calls and of replies, two settles racing; refinement of `SerialTransaction`; every call settles |
| `client_session` | 3 flows, 2 transactions, 2 acquisitions, a commit budget | fields agree with the state, no handle settled twice, nothing left open, an ended session has no transaction and begins none (`EndedSessionHoldsNone`), a transaction is one server transaction that commits whole or not at all (`CommitsWhole`), every wait ends |
| `with_transaction` | 2 sessions | truthful outcomes, refinement of `AtomicWork` (at most once), termination |
| `client` | 2 flows, 3 bring-ups, 1 session | no socket behind a closed client, one bring-up at a time and never a stale memo (`OneLiveBringUp`), every caller answered; no session that has ended holds a transaction open but one it was given while it was being ended, each `close()` ends what it found |
| `event_emitter` | 3 functions, 3 registrations, 3 emits, nested | every emit calls what was registered when it began, and an `on()` stays until it is removed, unless its function was also called for a `once()` (`CalledByEveryEmit`) |
| `writes` | 2 clients, 2 documents and 2 generated ids, 11 different calls, every starting collection | what is reported is what was done, at most once; an ordered batch stops at its first failure and no other does; one claimant; every call returns |
| `cursors` | 1 reader; 2 rows and 3 streams, or a catalogue of up to 3 | rows once, in order and to the end, none passed over (`RowsOnceToTheEnd`), no stream left running, every read returns; a listing is walked as it was read, and read again after a rewind |
| `indexes` | 2 flows on 1 or 2 registries, 3 calls, 1 lost answer, 3 starting tables, a dozen calls whose names and columns meet | a creation is whole or refused; what is listed is indexed; a registry that was read follows |
| `translation` | filters and updates of 2 steps, reads, expressions and pipelines of 3, several writes among a pipeline's last stages | the filter's documents, the update's and the upsert's document, the page and its projection, the expression's value and the pipeline's documents are MongoDB's |

Why the bounds are enough. Three flows let one hold a statement while two race to
settle; two transactions and two acquisitions are the least for an acquisition to
outlive the transaction that asked for it. Three statements are the least for an
overtaking that is not adjacent. Two sessions, or two clients, are the least for a conflict;
a batch of three lets one stop in its middle. Three
bring-ups allow a failure, a retry and a close; two flows let one close() overtake another, or a
bring-up. What is checked of so many flows,
sessions, rows, registrations or documents is proved for any number of them (section 4). Two flows and three calls let an index be created,
dropped and created again with another's statements in between. A filter of two steps is any operator
on any kind of value, negated, joined with another on the same field, or in a branch; an update
of two is any operator beside another that meets it; three stages are the least for one to fold behind a
subquery, and three expression steps the least for a closure within a closure. Each cfg gives its constants, and every bound is a named
constant whose comment says "bound". Deadlock is not checked: an application may stop calling at any time.

`client_session` starts a transaction only when no flow has a call under way
(`OverlapsStart = FALSE`). With overlap `DiscardedIsNeverDurable` fails
(below), and so does `EndedSessionHoldsNone`: an `endSession()` that is not awaited, then `startTransaction()` before its
`finally`, and the session has ended with a transaction starting, which a statement asked for before the `finally` opens.
`hasEnded` is documented as "True once `endSession()` has been called" (`client-session.ts:130`), and is set after the
await (line 427). What the session's fields, handles and settles promise holds with overlap too: of two flows by a run by
hand, of any number by proof (section 4).

Fairness. Only promise reactions, answers of the server or the SDK, and clocks are
weakly fair: the event loop runs every ready reaction, the SDK answers or rejects
each call when the connection goes, and deadlines pass. Nothing makes an
application call, return from a callback it is not documented to return from, or
read a cursor to its end.

Violated on purpose: runs that show the code doing something else than its
documentation says.

| Run | Property | What happens |
|---|---|---|
| `client_session_stale` | `DiscardedIsNeverDurable` | a statement of an aborted transaction, whose acquisition was in flight, is adopted by the next transaction and committed with it |
| `writes_upsert` | `OutcomeIsTruthful` | an upsert by update whose filter names an `_id` that is there: the document is changed and reported as created |
| `expression_scope` | `ExpressionMeansAsMongo` | `$map`s nested under names that repeat: the parameter is numbered by how many names are bound (`variables.size`), two closures get the same one, and the inner hides the outer |

Four more configurations are kept beside them, to be run by hand; each ends in
the violations it is named for:

| Configuration | Property | What happens |
|---|---|---|
| `MongoClientOpen.cfg` (`MongoClient`) | `OpenMeansConnected` | a `close()` during the last two round trips of the bring-up; `open` is emitted on the closed client, although "it marks the connection actually being established" (`client/mongo-client.ts:408-409`) |
| `WritesBatch.cfg` (`MCWrites`) | `OutcomeIsTruthful` | an `insertMany` whose answer was lost after it was written: its own documents are reported refused as duplicates (`insert.ts:122`, against lines 84-85) |
| `IndexesTwice.cfg` (`MCIndexes`) | `RecreatingIsANoOp` | two flows create the same index at once: the second is told that it already exists (`operations/indexes.ts:10-12` calls it "a successful no-op") |
| the same, with `-continue` | `RefusedLeavesNothing` | the second field of a text index cannot be read back: the call throws "No index was created and the collection is unchanged" (`operations/indexes.ts:270`), and the first field's index stays |
| `SessionSetStart.cfg` (`SessionSet`) | `TrackedUntilEnded` | a session started while `close()` awaits another's abort is cleared from the set and never ended (`mongo-client.ts:298`, against lines 118-119) |
| the same, with `-continue` | `LateHoldsNothingOpen` | a session given a transaction and a statement between the abort `close()` awaits and its `finally`: it has ended, and its transaction is open (`client-session.ts:421-427`) |

The modules also state eight properties that do not hold and have no configuration:

- `GateWaitsForReady` (`MongoClient`): `_connected` is set before the namespace is ensured and
  the version checked, and a second flow's statement passes the gate in between.
- `OnceIsCalledOnce` (`EventEmitter`): a listener that emits its own event gets a `once` behind it called by
  both emits; and with one function registered by `on` and by `once`, the `once` detaches the `on` and is called again by
  the next emit (`event-emitter.ts:51`, "for the next `event` only").
- `EndedSessionHoldsNone` with `OverlapsStart = TRUE` (`ClientSession`), above.
- `WritesAreLast` (`MCAggregate`): `terminalWrite` is asked again of the pipeline without its last stage
  (`operations/aggregate.ts:52-56`), so that `[..., $out, $merge]` runs both, the second over no document (a `$out` then empties its
  target), where `translators/aggregate/index.ts:25-26` and `251-255` refuse a write that is not the final stage.
- `ToArrayIsTheRest` (`FindCursor`): `toArray()` after `next()` on a loaded result returns the
  rows already read again.
- `RowsOnceToTheEnd` with `SharesCursor = TRUE` (`FindCursor`): two `hasNext()` under way at once
  each read a row ahead and the second overwrites the first.
- `AbortIsNeverAQuietEnd` (`FindCursor`): aborted right after `next()` was called, the read answers null, as
  at the end (`find-cursor.ts:185`, against `CHANGELOG.md:19`).
- `ResultsAreThere` (`ListCursor`): `next()` is called, and `close()` or an abort before it resumes: it
  throws a `TypeError` on null (`list-collections-cursor.ts:59`, where `!` says there is a listing).

With `SharesCursor = TRUE`, `ListCursor`'s `WalksOneListing` fails too: the answer to a read that was under way at
`rewind()` is kept as the new listing. And a `forEach` that is aborted before it resumes ends
quietly, having called nothing (`this._results ?? []`).

`writes` leaves out what its two violations are about: upserts by update use generated ids
only, and the answer to a whole batch is not lost. Every other answer may be.

### Where the translators and MongoDB part

`translation` holds on everything else; what follows is left out of it by a named
exception in the MC modules, or by what they build.

- Filters: a condition on `_id` wrapped in `$not` is not coerced to a record id
  (`id-field.ts:74-88`; `NegatesIds = TRUE` shows it); an empty branch `{}` and `$not` of a RegExp
  give a clause that is no SurrealQL; not built: field conditions of `$elemMatch` on
  elements that are no documents, arrays inside the items of a dotted path, `$type` and
  `$regex` on `_id`, `$in` with a RegExp, ranges over `_id`s of several types, and an array of points
  under `$near`.
- Reads: `findOne` ignores `skip`, which `types/options.ts:222-223` calls honoured. A returned document
  projected by `{_id: 1}` keeps everything (`utils/projection.ts:34-38`, against
  `translators/projection.ts:84-88`); two dotted paths through one array keep the last only.
  `limit(0)` on a cursor is `LIMIT 0`. Missing and null tie in MongoDB's sort and not in SurrealDB's.
- Updates (`parts` names them): `$mul`, `$pop`, `$pullAll` and `$push` with `$each` on an
  absent plain field fail the statement (`failsOnAbsent`); `$rename` of a missing field clears where
  it leads (`movesNothing`); a positional removal inside an element that is no document fails
  (`goesInsideValue`); `$pull` by conditions on fields takes scalars too (`pullsValues`);
  a positional removal makes the parents on its way (`makesParents`); two identifiers of one array of
  which one reads what the other writes (`readsChanged`; `positional.ts` says so). `$rename` to `_id` writes
  a column of that name. `$addToSet` also removes duplicates that were there; plain paths that overlap are
  not refused; `$min` and `$max` compare values of any type; `$push` with a `$sort` by a document is not built.
- Upserts (`readsSeed`): an operator that reads its field does not see the filter's seed, and a
  positional path clears a seeded one, although `upsert.ts:132-136` has `{$inc: {a: 5}}` over `{a: 1}`
  make 6 (which `+=` does).
- Expressions: what reads something missing fails the statement where MongoDB goes on with null
  (`readsMissing`); `$dateDiff` counts elapsed units and MongoDB boundaries (`countsDays`); `$dateTrunc` with a
  `binSize` counts from another origin; `$and`, `$or` and `$cond` have SurrealQL's truth of values that are not Boolean.
- Pipelines: an expression or accumulator over a field that is no number fails
  (`computesOverGaps`), as may a `$sort` by a field no longer selected (`sortsWhatIsGone`,
  `sortsAReplacedRoot`). A `$match` on `_id` after a `$project` that keeps it never matches
  (`MatchesProjectedIds = TRUE` shows it). A branch of `$facet` forgets that the row was reshaped, against
  `builder.ts:112-118`, and one that keeps rows answers `id` for `_id`. `$lookup` by a stored `_id`, and
  `$graphLookup` from or to one, match nothing; `$_id` inside an expression is the record id;
  a foreign field that is an array, or null against missing, is matched differently; a dotted output name is a column
  with a dot in its name. Of several writes at the end all run, the first over the documents and the next over none
  (`leftByWrites`).
- Indexes: a text index of several fields may be left half made when a definition fails
  or an answer is lost, its retry then is a no-op that reports success, and the error that says
  "No index was created and the collection is unchanged" is not true of it (`RefusedLeavesNothing`; `entangled` marks these
  histories); an inventory that arrives late replaces what `add()` put in the registry meanwhile.

## 4. What is proved

Every invariant of every run except those of `translation` is a theorem, and so
are the two refinements and `ClientSession`'s action property. Each proof module extends the module it is
about, and follows one argument: an inductive invariant `IInv` (type correctness, the
properties themselves where they are inductive, and named strengthenings), which TLC checked on
the run's instance before it was proved; one lemma per action; the properties from it.

### TransactionExecutorProofs

For any sets of statements, commits and cancels that are disjoint:

- `TypeCorrect`: `Spec => []TypeOK`;
- `CallOrder`: statements take effect in call order;
- `SettleBoundary`: no statement is with the handle once the transaction is settled,
  and a commit covers exactly the statements called before it;
- `SingleUse`: the handle is given nothing once it is spent;
- `Implements`: the executor implements `SerialTransaction` (`ImplementsSerialTransaction`).

The properties are not inductive. `IInv` adds what makes them so: the tickets of the
calls in the chain increase along it and lie above those of everything settled
(`TicketsOK`, `TailOK`); only the head of the chain has been given to the handle
(`OnlyHeadStarted`), which is why a handle that reorders cannot; everything called before a call that
has started is settled (`PredecessorsSettled`); a handle that is live is open on the server
(`LiveMeansOpen`); only a settle spends it (`SettlesSpend`); and what was
applied is in ticket order, below every ticket still in the chain (`AppliedOK`). The proof has one lemma per
kind of step. Steps that neither join nor leave the chain share
`MovesKeepChain`, those that settle the head share `SettlesKeepChain`.

The refinement maps a call that is with the handle to one that has not been made (`spentSeen`, `serverSeen`,
`appliedSeen`, `answerSeen`), so it needs what the server did for that call, of which
there is one: its statement is the newest applied, its settle is the server's state (`ServerDid`).
A call that joins the chain is `SerialTransaction`'s call (`EnqueueJoins`), an answer is
its serve (`RepliesServe`), a refusal its refusal (`RefusesSpent`), and what happens at the server a
stutter (`MovesUnseen`).

Assumed: the three kinds of calls are disjoint (`KindsDisjoint`).

### ClientSessionProofs

For any number of flows, transactions and acquisitions, with or
without a commit budget, and whether or not transactions overlap
(`OverlapsStart`), which no run checks:

- `TypeCorrect`: `Spec => []TypeOK`;
- `FieldsAgree` (`ScopeMatchesState`): while a flow awaits its settle the transaction
  stays the one it settled, in progress; the stored handle is live; and a transaction
  in progress without its handle has exactly one flow settling it;
- `SettledOnce` (`SettleFindsLiveHandle`): a commit or cancel never meets a spent scope;
- `NothingLeftOpen` (`NoOrphanedTransaction`): an open server transaction is the
  session's, or its settle is on its way;
- `LegalTransitions` (`TransitionsAreLegal`): `Transaction.transition` never has to throw;

and, when no transaction is started while calls on the session are under way (`~OverlapsStart`; for what happens without it
see `client_session_stale` and section 3):

- `CommittedWhole` (`CommitsWhole`): a transaction's statements take effect in one server transaction
  that is its alone, and an acknowledged commit makes every acknowledged statement durable;
- `DiscardedForGood` (`DiscardedIsNeverDurable`): what was aborted or rejected never becomes
  durable, not even by a commit left behind when its budget ran out;
- `EndedForGood` (`EndedSessionHoldsNone`): a session that has ended has no transaction and is given none.

`IInv` adds to these what their steps rest on. A line holds at most one settle and at most
one call of each flow (`OneEach`), and a call is awaited by the flow that made it, where it made
it (`JobsOK`): so the settle that is answered is the only one, and the flow
it answers is the only one that settles. What was not begun has no call, no server
transaction and is nobody's handle (`UnbegunIsBare`): so an adoption
replaces no handle, and a discarded one's cancel is alone in its line. The handle is open on the server
(`ScopeIsOpen`), which is what a settle that takes it finds. One lemma
per action; those that only move a flow share `FreeFlowMoves`, `FreeFlowEnqueues`,
`AnsweredFlowMoves` and `OthersSettle`, and the answers to settles share `SettleAnswered`.
The last two rest on a second invariant, `Whole`, over `IInv`. At most one scope can still take effect, and
it is the current transaction's, which has no other (`OneHome`, where a scope counts as long as the session
or a flow that waits still holds it); what is under way and awaited is of the current
transaction (`OfTheCurrent`); one that has begun nothing has taken effect nowhere (`NoneYet`); and a
commit its caller gave up on has a scope of its own transaction, of which nothing more is
said (`LeftBehind`).
`EndedForGood` adds that a session whose end has only its `finally` to come has no transaction any more
(`EndedHoldsNone`).

Assumed: the bounds are naturals, and the mark of a call nobody awaits is no flow.

### WithTransactionProofs

For any number of sessions and of attempts:

- `TypeCorrect`: `Spec => []TypeOK`;
- `Truthful` (`OutcomeIsTruthful`): a work lands at most once, a success has landed, a failure has not
  and never will;
- `Implements` (`ImplementsAtomicWork`): the calls do what `AtomicWork` promises.

`IInv` says what each label goes with: `TransientTransactionError` and an unlabelled error leave nothing
behind, and only they end an attempt that may be tried again (`LabelMatches`, `WorkMatches`); a commit of unknown
outcome is the only thing of its session that may still land, and it is not tried again
(`LateIsAlone`). Assumed: at least one attempt is made.

### ClientWithSessionsProofs

Of `SessionSet`, whose closers are here the client's flows (its instance `S`), for any number of sessions and of `close()` at once:

- `SessionsTypeCorrect`: `S!Spec => []S!TypeOK`;
- `NothingHeld` (`EndedHoldsNothingOpen`): a session that has ended leaves no open transaction
  on the server, unless it was given one while a `close()` ended it (`late`), which `LateHoldsNothingOpen` shows to happen;
- `NoneForgotten` (`TrackedUntilEnded`) and `AllEnded` (`CloseEndsWhatItFound`), assuming that no session is
  started while a `close()` runs (`~StartsWhileClosing`), without which neither holds.

`SessionsIInv` adds that what a `close()` in its loop has yet to see to is every session that has not
ended (`LoopCoversTheRest`): that is what makes clearing the set at its end safe. A `close()` awaits one session
at most (`AwaitsOne`), and the server has an open transaction only while its session is in one or awaits the cancel of
what it no longer wants (`ServerFollowsSession`). Between the abort and the `finally` the session is not marked yet, so `EndedIsOver`
says of that gap already what `hasEnded` will have to find: the abort of a session in it is over, and no transaction
is starting or in progress, unless the session is `late`.

Of the client, and of the two together, for any flows, bring-ups and sessions:

- `TypeCorrect`: `Spec => []TypeOK`;
- `FlagIsTrue` (`ConnectedMatchesSocket`): a client at rest believes in its connection exactly when
  there is one, and has none once it is closed or its server was refused;
- `OneAtOnce` (`OneLiveBringUp`): two bring-ups never run at once, and what an operation joins is live;
- `FlagIsTrueOfBoth`, `OneAtOnceOfBoth`, `NothingHeldOfBoth`, `AllEndedOfBoth`: so both sets of promises hold
  of the two together, the last again assuming `~StartsWhileClosing`.

For the connection, `IInv` says of the memo that its bring-up is under way, or done over a connection
the client believes in (`MemoIsLive`), at all times; and, unless `connect()` reopened a closed client whose last
bring-up was still running (`reopened`, which the properties exclude), that the running bring-up is the memo's
unless a `close()` forgot it (`OneAtATime`), and that flag and socket differ only while a server too old is being refused
(`FlagFollowsSocket`). A step of the composition is a step or a stutter of each part (`StepIsClients`,
`StepIsSessions`), which carries the theorems over.

### EventEmitterProofs

For any number of functions, registrations and emits, nested as they may be:

- `TypeCorrect`: `Spec => []TypeOK`;
- `EmitsCallTheirSnapshot`: each registration is called by exactly the emits that found it
  there and no listener ended by throwing (`CallsAreDue`);
- `EveryEmitCalls` (`CalledByEveryEmit`): and an `on()` stays until a caller removes it, unless its function was also
  called for a `once`, which may have detached the `on` (`StaysUntilRemoved`, inductive as it stands).

Nothing is assumed of the listeners: a function may be registered any number of times, also while it is registered.

What makes the count inductive is that at every moment a registration is owed its calls so far and one
of each frame of the stack that still holds it (`Owed`). Registrations are in the order they were made, so none is
twice in a list (`InOrder`); hence a turn takes one from its frame and leaves the others' (`TurnKeeps`), and a throw
through k emits forgives exactly those k (`OwingSplits`). That detaching takes one registration of the function,
whichever there are, needs that a set of naturals has a least member (`Least`).

### CursorsProofs

For any number of rows, streams and collections, when the cursor's reads are awaited one after
another (`~SharesCursor`; the properties above that fail when they are not are the reason):

- `TypeCorrect`: `Spec => []TypeOK`, of `FindCursor`;
- `RowsInOrder` (`RowsOnceToTheEnd`): rows come in order, none missing and none twice, whatever mix of
  reads, fallbacks, failures, rewinds and aborts there is, and a read that reports the end has handed out all;
- `NoneLeft` (`NoStreamLeftRunning`): however the cursor is left, the server streams no query but the
  one it reads;
- `WalksOne` (`WalksOneListing`): the same of a listing cursor, and what is read after a rewind was listed since.

`CursorAtRow` says where a cursor is by how it reads: in a whole result its index is what it handed out; in a
stream the server is at that row, or one ahead when the row is in `peeked`. `AsksItsStream` says that a read
that waits asks the stream the cursor reads, or one the signal took from it, at the row the cursor is at;
`ReadsOfAnOpenCursor` and `StreamsInOrder` that nothing but the signal closes a cursor under a read, and that every
stream has a query of its own; `EndIsTheEnd` that an end is where every row was handed out. Of the
listing, `ListAtRow` and `ListEnds` say the same. Assumed: the numbers of rows, streams and collections are naturals.

### WritesProofs

For any number of clients, documents and calls, and batches of any length:

- `TypeCorrect`: `Spec => []TypeOK`;
- `EndsWhereItShould` (`BatchEndsWhereItShould`): an ordered batch ends at its first failure, an unordered one
  was told of everything;
- `Claimed` (`ClaimedOnce`), assuming that what one call makes of a document is matched by none
  (`ClaimsAreFinal`), as of callers that race to claim a job;
- `Truthful` (`OutcomeIsTruthful`), assuming that the answer to a batch of several is not lost (`~LosesBatches`) and
  that no update upserts under an `_id` its filter names (`UpsertsGenerate`): `WritesBatch.cfg` and `writes_upsert` show
  the two that are excluded.

`IInv` says what a call has been told of: everything before the document it is at and nothing else
(`ToldPrefix`), and which statement it can be awaiting there (`StagesOK`). `Truthful` adds that nothing was done for what is
still ahead (`AheadUndone`), and that the `_id`s it may generate are nobody's yet (`GeneratedAhead`), over every client's statements
and every retry over a conflict. Assumed of the constants: a call is a batch that fits the bound
(`CallsAreBatches`), an insert names its `_id`, and an ObjectId is generated once and named by nobody before
(`GeneratedAreNew`); TLC evaluates these on each instance.

### IndexesProofs

For any flows, calls, starting tables, Collections and lost answers:

- `DefinitionsAreResolved`: what `resolveIndexDefinition` makes of a specification that is not refused has each of its fields
  once and no other, one kind for the whole key, and columns and a name that follow from it; so `CallsAreResolved` asks
  nothing more of a call than the code does, but for "id";
- `InvariantHolds`: `Spec => []IInv`, below;
- `TypeCorrect`: `Spec => []TypeInv`;
- `CreatesAll` (`CreatesAllOrNothing`): a creation that resolved left every SurrealDB index of its definition,
  and one refused for a name has defined nothing of it;
- `ListsWhatIsIndexed` (`ListedIsIndexed`): what is listed is indexed, and all of it;
- `StaysCurrent` (`RegistryStaysCurrent`): a registry that was read follows its own creates and drops.

None of the three properties is inductive: between a call's first statement and its last, the server holds part of an
index, and the registry not yet or no longer its name. `IInv` says what is true then. `TypeInv`: the server's
indexes were all defined by hand or for a definition that was asked for (`WellMade`), and a call's statements
are a suffix of those of its definition, what it has defined the prefix before it (`IsCreating`), or removals. `Alone`: a writer
that no other overlapped knows what the server has, an inventory that is still the table, none of the names
it is still to define taken, exactly the indexes it is still to remove there (`knows`). `WholeInv`: unless writers were entangled, every
index that no call is at is there whole (`touches`, `Whole`). `RegistryInv`: of every such index a registry that
is fresh agrees with the table. `ResultInv` is `CreatesAllOrNothing` of calls that are not over either. TLC checked `IInv`
on the run's instance with two calls and with three before it was proved. Each step is shown to fit one of
a few shapes (`moves` of one flow, the table with a name more or a name less), and each part of the invariant to
be kept by the shape (`TypeStep`, `AloneStep`, `IndexesStep`, `ResultStep`).

What the definitions compute is proved by induction over the data. No induction theorem with an operator for a
parameter can be used; `Induction` takes a set of numbers instead, from the least-element principle of
`WellFoundedInduction` (`WFMin`), and `LoopRuns` gives a recursive function over 1..n its values. From these come what
`resolveIndexKey` keeps (`ResolveFacts`), that `keyToObject` reorders and loses nothing (`KeyToObjectFacts`),
that the inventory of a table has the fields of every part of an index and no others (`InventoryFacts`), and that, over whole indexes, the
text fields it lists are those the server has indexed (`FieldsByName`).

Assumed: calls are of resolved definitions, none with a field called "id", which is the column of `_id`
(`CallsAreResolved`); the first table is one defined by hand, a FULLTEXT over one column as the server has it (`TablesAreByHand`);
TLC evaluates both on the run's instance.

### What is only model-checked

Liveness (every wait ends, every call returns), which the prover does not reach. Everything of the translators, whose definitions are recursive
over data. The properties' hypotheses above are not gaps of the proofs: for each the README names the run, configuration or
property that shows what happens without it.

## 5. Not modelled

- Ids and codecs, option checks and the mapping of errors to classes, commands and admin
  operations, the connection string and client options, types: tables, parsing and
  dispatch, without state of their own. What they do to a document's `_id` is in `Reads` and
  `Aggregate` (`recordToDocument`, `documentToRecord`).
- `distinct`; cursors' batches and hints.
- Operations within a transaction in `Writes` and `Indexes`.
- In the pipeline: string, type and date-part operators, `$stdDevPop` and `$stdDevSamp`,
  `$sample`'s randomness, and the failure of `$out` or `$merge` part way, which the source
  documents as a tradeoff and promises nothing of.

Data is abstract where modelled: a statement is an identity, a row a number; in `Values` a
string is a few letters and a geometry lies on a line. The SDK, the server and the
application's callbacks are external, modelled from how the driver uses them.

## 6. Plan

1. The action properties worth having besides `TransitionsAreLegal`, and lemmas about the translators'
   operators that are not recursive (sort, page, projection).
2. Compositions: `withTransaction` over `ClientSession` with callbacks that settle;
   `MongoClient` with throwing listeners; `Writes` within a transaction.
3. ObjectId's counter at its limit, and which label each server failure is given.

Checks of pure algorithms share one module and one run, since each is a choice of inputs
and one comparison.
