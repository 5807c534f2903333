------------------------------- MODULE Writes -------------------------------
(***************************************************************************)
(* Several clients write to one collection at once, outside a transaction: *)
(* insertMany (collection/operations/insert.ts), and the models of a       *)
(* bulkWrite (bulk-write.ts), each of which is a lone insertOne, update,   *)
(* replace, delete or find-and-modify. A lone call is a batch of one.      *)
(*                                                                         *)
(* A document is one field, `value`, under its _id. A model changes, to a  *)
(* value or to absent, one document (updateOne, replaceOne, deleteOne, the *)
(* findOneAnd family) or all (updateMany, deleteMany) of those its filter  *)
(* matches.                                                                *)
(*                                                                         *)
(* The server is external. A statement is a transaction: it takes effect   *)
(* whole or not at all. An action is one statement's effect together with  *)
(* what the driver does with its answer, for the answer is fixed by then   *)
(* and read by nobody else. The answer may be lost, whichever it was.      *)
(***************************************************************************)
EXTENDS Naturals, Sequences, FiniteSets

CONSTANTS
    Clients,
    Ids,                \* record ids
    Values,             \* what `value` can hold
    MaxItems,           \* bound: documents or models of a batch
    Generated,          \* the ObjectId an upsert is given, per client and position
    Calls,              \* the calls a client may make; it makes one
    CONFLICT_ATTEMPTS,  \* times a single-document write is issued over conflicts
    LosesBatches,       \* may the answer to a whole batch of several be lost?
    LosesReplies,       \* may any other answer be lost?
    absent              \* a document that is not there

Upserts == {"no", "update", "replacement"}
Items == [ op: {"insert", "one", "many"}, ids: SUBSET Ids, from: SUBSET Values,
           to: Values \cup {absent}, upsert: Upserts ]

Positions == 1..MaxItems

\* An insert names the _id of its document.
ASSUME CallsAreBatches ==
    \A k \in Calls :
        /\ k.op \in {"insertMany", "bulkWrite"}
        /\ k.ordered \in BOOLEAN
        /\ k.items \in Seq(Items)
        /\ Len(k.items) \in Positions
        /\ \A i \in DOMAIN k.items :
              /\ k.op = "insertMany" => k.items[i].op = "insert"
              /\ k.items[i].op = "insert" => \E d \in Ids : k.items[i].ids = {d}
ASSUME SomeItems == MaxItems \in Nat \ {0}

\* An ObjectId is generated once, and nobody names one that was not generated yet.
pinned(m) == Cardinality(m.ids) = 1
ASSUME GeneratedAreNew ==
    /\ Generated \in [Clients -> [Positions -> Ids]]
    /\ \A c, e \in Clients, i, j \in Positions :
          Generated[c][i] = Generated[e][j] => c = e /\ i = j
    /\ \A k \in Calls : \A n \in DOMAIN k.items :
          k.items[n].op = "insert" \/ pinned(k.items[n]) =>
              \A c \in Clients, i \in Positions : Generated[c][i] \notin k.items[n].ids
ASSUME AttemptsArePositive == CONFLICT_ATTEMPTS \in Nat \ {0}
ASSUME LossesAreBoolean == LosesReplies \in BOOLEAN /\ LosesBatches \in BOOLEAN
ASSUME AbsentIsNoValue == absent \notin Values

VARIABLES
    docs,       \* external: the collection
    defined,    \* external: the table has been written to
    call,       \* what each client has called, << >> before
    pc,         \* which statement each client awaits
    at,         \* the document or model it is for
    attempt,    \* how often that statement has been issued
    told,       \* what the caller is told of each document or model
    did,        \* history: what the server did for it, each time it did something
    claims      \* history: callers told they changed this document since it was put

vars == <<docs, defined, call, pc, at, attempt, told, did, claims>>

Stages == {"idle", "whole", "oneByOne", "independently",      \* insertMany
           "inserting", "matching", "modifying", "upserting", \* a model
           "done"}

TypeOK ==
    /\ docs \in [Ids -> Values \cup {absent}]
    /\ defined \in BOOLEAN
    /\ call \in [Clients -> Calls \cup {<< >>}]
    /\ pc \in [Clients -> Stages]
    /\ at \in [Clients -> Positions]
    /\ attempt \in [Clients -> 1..CONFLICT_ATTEMPTS]
    /\ told \in [Clients -> [Positions ->
          {"unsaid", "created", "modified", "nothing", "refused", "unknown"}]]
    /\ did \in [Clients -> [Positions -> Seq({"created", "modified"})]]
    /\ claims \in [Ids -> Nat]

Init ==
    /\ docs \in [Ids -> Values \cup {absent}]
    /\ \A c \in Clients, i \in Positions : docs[Generated[c][i]] = absent
    /\ defined \in BOOLEAN
    /\ ~defined => \A d \in Ids : docs[d] = absent
    /\ call = [c \in Clients |-> << >>]
    /\ pc = [c \in Clients |-> "idle"]
    /\ at = [c \in Clients |-> 1]
    /\ attempt = [c \in Clients |-> 1]
    /\ told = [c \in Clients |-> [i \in Positions |-> "unsaid"]]
    /\ did = [c \in Clients |-> [i \in Positions |-> << >>]]
    /\ claims = [d \in Ids |-> 0]

-----------------------------------------------------------------------------
(* The operations, by what they do to the collection. `from` is what the    *)
(* filter asks of the value; the ids are all of them unless it names an _id. *)

upsertAs(how, upsert) == IF upsert THEN how ELSE "no"
model(op, ids, from, to, upsert) ==
    [op |-> op, ids |-> ids, from |-> from, to |-> to, upsert |-> upsert]

insertOne(id, value)              == model("insert", {id}, {}, value, "no")
updateOne(ids, from, to, upsert)  == model("one", ids, from, to, upsertAs("update", upsert))
updateMany(ids, from, to, upsert) == model("many", ids, from, to, upsertAs("update", upsert))
replaceOne(ids, from, to, upsert) ==
    model("one", ids, from, to, upsertAs("replacement", upsert))
deleteOne(ids, from)              == model("one", ids, from, absent, "no")
deleteMany(ids, from)             == model("many", ids, from, absent, "no")

\* They differ from these only in the document they return, which the statement
\* that changes it returns with it.
findOneAndUpdate(ids, from, to, upsert)  == updateOne(ids, from, to, upsert)
findOneAndReplace(ids, from, to, upsert) == replaceOne(ids, from, to, upsert)
findOneAndDelete(ids, from)              == deleteOne(ids, from)

insertMany(docs_, ordered) == [op |-> "insertMany", items |-> docs_, ordered |-> ordered]
bulkWrite(models, ordered) == [op |-> "bulkWrite", items |-> models, ordered |-> ordered]

items(c)  == call[c].items
item(c)   == items(c)[at[c]]
theId(m)  == CHOOSE d \in m.ids : TRUE

-----------------------------------------------------------------------------
(* The server *)

\* A table that was never written to is refused, which the driver reads as one
\* that holds nothing; and it does hold nothing.
matching(m) == {d \in m.ids : docs[d] \in m.from}

unserved == UNCHANGED <<docs, defined, claims>>

\* The records of D are given the value. A document put afresh may be claimed again.
put(D, value, isClaim) ==
    /\ docs' = [d \in Ids |-> IF d \in D THEN value ELSE docs[d]]
    /\ defined' = TRUE
    /\ claims' = [d \in Ids |-> IF d \notin D THEN claims[d]
                                ELSE IF isClaim THEN claims[d] + 1 ELSE 0]

records(c, i, effect) == did' = [did EXCEPT ![c][i] = Append(@, effect)]

-----------------------------------------------------------------------------
(* The driver *)

\* The first statement a model needs.
opens(m) ==
    CASE m.op = "insert"                        -> "inserting"
      [] m.op = "many" /\ m.upsert # "no"       -> "matching"
      [] OTHER                                  -> "modifying"

issues(c, stage) ==
    /\ pc' = [pc EXCEPT ![c] = stage]
    /\ attempt' = [attempt EXCEPT ![c] = 1]

\* Mutant: an ordered batch goes on after a failure.
goesOn_afterFailure(c, result) ==
    /\ told' = [told EXCEPT ![c][at[c]] = result]
    /\ IF at[c] = Len(items(c))
       THEN issues(c, "done") /\ UNCHANGED at
       ELSE /\ at' = [at EXCEPT ![c] = @ + 1]
            /\ issues(c, IF call[c].op = "bulkWrite" THEN opens(items(c)[at[c] + 1])
                                                     ELSE pc[c])

\* What becomes of one document or model is known. An ordered batch stops at the
\* first that failed, and keeps what came before it.
goesOn(c, result) ==
    /\ told' = [told EXCEPT ![c][at[c]] = result]
    /\ IF \/ at[c] = Len(items(c))
          \/ call[c].ordered /\ result \in {"refused", "unknown"}
       THEN issues(c, "done") /\ UNCHANGED at
       ELSE /\ at' = [at EXCEPT ![c] = @ + 1]
            /\ issues(c, IF call[c].op = "bulkWrite" THEN opens(items(c)[at[c] + 1])
                                                     ELSE pc[c])

start(c) ==
    /\ pc[c] = "idle"
    /\ \E k \in Calls :
          /\ call' = [call EXCEPT ![c] = k]
          /\ issues(c, IF k.op = "insertMany" THEN "whole" ELSE opens(k.items[1]))
    /\ UNCHANGED <<docs, defined, at, told, did, claims>>

-----------------------------------------------------------------------------
(* insertMany: the batch as one statement, and then one by one *)

insertsWhole(c) ==
    LET D == UNION {items(c)[i].ids : i \in DOMAIN items(c)} IN
    /\ Cardinality(D) = Len(items(c))
    /\ \A d \in D : docs[d] = absent
    /\ put(D, item(c).to, FALSE)
    /\ did' = [did EXCEPT ![c] = [i \in Positions |->
                  IF i \in DOMAIN items(c) THEN Append(@[i], "created") ELSE @[i]]]

wholeWritten(c) ==
    /\ pc[c] = "whole"
    /\ insertsWhole(c)
    /\ told' = [told EXCEPT ![c] = [i \in Positions |->
                   IF i \in DOMAIN items(c) THEN "created" ELSE @[i]]]
    /\ issues(c, "done")
    /\ UNCHANGED <<call, at>>

\* Whatever the whole batch failed with, its documents are inserted again, each
\* by a statement of its own; a batch of one keeps its error.
reissues(c, error) ==
    IF Len(items(c)) < 2
    THEN goesOn(c, error)
    ELSE /\ issues(c, IF call[c].ordered THEN "oneByOne" ELSE "independently")
         /\ UNCHANGED <<at, told>>

\* Rolled back: over a document that is there already, a conflict, a timeout.
wholeRefused(c) ==
    /\ pc[c] = "whole"
    /\ reissues(c, "refused")
    /\ unserved
    /\ UNCHANGED <<call, did>>

wholeLost(c) ==
    /\ pc[c] = "whole"
    /\ IF Len(items(c)) < 2 THEN LosesReplies ELSE LosesBatches
    /\ insertsWhole(c) \/ (unserved /\ UNCHANGED did)
    /\ reissues(c, "unknown")
    /\ UNCHANGED call

-----------------------------------------------------------------------------
(* One document inserted by a statement of its own: insertOneByOne,        *)
(* insertIndependently (whose statements go in one dispatch, and run one   *)
(* after another), and insertOne.                                          *)

insertStages == {"oneByOne", "independently", "inserting"}

insertsOne(c) ==
    LET d == theId(item(c)) IN
    /\ docs[d] = absent
    /\ put({d}, item(c).to, FALSE)
    /\ records(c, at[c], "created")

insertWritten(c) ==
    /\ pc[c] \in insertStages
    /\ insertsOne(c)
    /\ goesOn(c, "created")
    /\ UNCHANGED call

insertRefused(c) ==
    /\ pc[c] \in insertStages
    /\ goesOn(c, "refused")
    /\ unserved
    /\ UNCHANGED <<call, did>>

\* The one dispatch of insertIndependently has one answer to lose.
insertLost(c) ==
    /\ pc[c] \in insertStages
    /\ LosesReplies
    /\ insertsOne(c) \/ (unserved /\ UNCHANGED did)
    /\ IF pc[c] = "independently"
       THEN /\ told' = [told EXCEPT ![c] = [i \in Positions |->
                           IF i \in DOMAIN items(c) THEN "unknown" ELSE @[i]]]
            /\ issues(c, "done")
            /\ UNCHANGED at
       ELSE goesOn(c, "unknown")
    /\ UNCHANGED call

-----------------------------------------------------------------------------
(* A model that changes what its filter matches *)

\* Mutant: the record is named in one round trip and written in the next.
modifies_twoTrips(c) ==
    LET m == item(c) IN
    /\ matching(m) # {} \/ m.op = "one"
    /\ \E D \in SUBSET m.ids :
          /\ \A d \in D : docs[d] # absent
          /\ IF m.op = "one" THEN Cardinality(D) = 1 ELSE D = matching(m)
          /\ put(D, m.to, m.op = "one")
    /\ records(c, at[c], "modified")

\* The record is chosen and written in one statement.
modifies(c) ==
    LET m == item(c) IN
    /\ matching(m) # {}
    /\ \E D \in SUBSET matching(m) :
          /\ IF m.op = "one" THEN Cardinality(D) = 1 ELSE D = matching(m)
          /\ put(D, m.to, m.op = "one")
    /\ records(c, at[c], "modified")

modified(c) ==
    /\ pc[c] = "modifying"
    /\ modifies(c)
    /\ goesOn(c, "modified")
    /\ UNCHANGED call

\* No match. An updateMany has asked for one already, and is done.
matchedNone(c) ==
    /\ pc[c] = "modifying"
    /\ matching(item(c)) = {}
    /\ IF item(c).op = "one" /\ item(c).upsert # "no"
       THEN issues(c, "upserting") /\ UNCHANGED <<at, told>>
       ELSE goesOn(c, "nothing")
    /\ unserved
    /\ UNCHANGED <<call, did>>

\* matchesAnyRecord, before an updateMany that upserts.
matchesAnyRecord(c) ==
    /\ pc[c] = "matching"
    /\ issues(c, IF matching(item(c)) # {} THEN "modifying" ELSE "upserting")
    /\ unserved
    /\ UNCHANGED <<call, at, told, did>>

\* Which statements are re-issued over a conflict: those that go through run().
retries(c) == pc[c] = "matching" \/ (pc[c] = "modifying" /\ item(c).op = "one")

\* Mutant: the attempts are counted afresh after the last.
conflict_countsAfresh(c) ==
    /\ pc[c] \in {"matching", "modifying", "upserting"}
    /\ IF retries(c)
       THEN /\ attempt' = [attempt EXCEPT ![c] = IF @ < CONFLICT_ATTEMPTS THEN @ + 1 ELSE 1]
            /\ UNCHANGED <<pc, at, told>>
       ELSE goesOn(c, "refused")
    /\ unserved
    /\ UNCHANGED <<call, did>>

\* A concurrent statement got there first, and this one was rolled back.
conflict(c) ==
    /\ pc[c] \in {"matching", "modifying", "upserting"}
    /\ IF retries(c) /\ attempt[c] < CONFLICT_ATTEMPTS
       THEN attempt' = [attempt EXCEPT ![c] = @ + 1] /\ UNCHANGED <<pc, at, told>>
       ELSE goesOn(c, "refused")
    /\ unserved
    /\ UNCHANGED <<call, did>>

\* Refused for another reason: a timeout, a constraint.
refused(c) ==
    /\ pc[c] \in {"matching", "modifying", "upserting"}
    /\ goesOn(c, "refused")
    /\ unserved
    /\ UNCHANGED <<call, did>>

upsertedId(c) == IF pinned(item(c)) THEN theId(item(c)) ELSE Generated[c][at[c]]

\* insertUpserted sends UPSERT, which changes a record that is there after all;
\* insertUpsertedReplacement sends CREATE, which is refused.
upserts(c) ==
    LET d == upsertedId(c) IN
    /\ item(c).upsert = "replacement" => docs[d] = absent
    /\ put({d}, item(c).to, FALSE)
    /\ records(c, at[c], IF docs[d] = absent THEN "created" ELSE "modified")

upserted(c) ==
    /\ pc[c] = "upserting"
    /\ upserts(c)
    /\ goesOn(c, "created")
    /\ UNCHANGED call

\* Mutant: a statement whose answer is lost is issued again.
modelLost_reissued(c) ==
    /\ pc[c] \in {"matching", "modifying", "upserting"}
    /\ LosesReplies
    /\ \/ pc[c] = "modifying" /\ modifies(c)
       \/ pc[c] = "upserting" /\ upserts(c)
       \/ unserved /\ UNCHANGED did
    /\ IF retries(c) /\ attempt[c] < CONFLICT_ATTEMPTS
       THEN attempt' = [attempt EXCEPT ![c] = @ + 1] /\ UNCHANGED <<pc, at, told>>
       ELSE goesOn(c, "unknown")
    /\ UNCHANGED call

modelLost(c) ==
    /\ pc[c] \in {"matching", "modifying", "upserting"}
    /\ LosesReplies
    /\ \/ pc[c] = "modifying" /\ modifies(c)
       \/ pc[c] = "upserting" /\ upserts(c)
       \/ unserved /\ UNCHANGED did
    /\ goesOn(c, "unknown")
    /\ UNCHANGED call

-----------------------------------------------------------------------------
answered(c) ==
    \/ wholeWritten(c) \/ wholeRefused(c) \/ wholeLost(c)
    \/ insertWritten(c) \/ insertRefused(c) \/ insertLost(c)
    \/ modified(c) \/ matchedNone(c) \/ matchesAnyRecord(c)
    \/ conflict(c) \/ refused(c) \/ upserted(c) \/ modelLost(c)

Next == \E c \in Clients : start(c) \/ answered(c)

\* A statement is answered, or rejected when the connection goes.
Fairness == \A c \in Clients : WF_vars(answered(c))

Spec     == Init /\ [][Next]_vars
FairSpec == Spec /\ Fairness

-----------------------------------------------------------------------------
(* Properties *)

\* What a caller is told of each document or model is what the server did for
\* it, and it was done at most once: retries and re-issues neither double a write
\* nor hide one, and an upsert that says it created a document did. Nothing was
\* done for what is reported refused, or not reported at all.
OutcomeIsTruthful ==
    \A c \in Clients, i \in Positions :
        LET t == told[c][i] IN
        CASE t \in {"created", "modified"}                 -> did[c][i] = <<t>>
          [] t \in {"nothing", "refused"}                  -> did[c][i] = << >>
          [] t = "unsaid" /\ pc[c] = "done"                -> did[c][i] = << >>
          [] OTHER                                         -> Len(did[c][i]) <= 1

\* "Stops at the first document the collection refuses, and keeps the ones before
\* it"; unordered, "attempts all of them": so an ordered batch that is over has
\* been told of a prefix, all but its last well, and any other of every one.
BatchEndsWhereItShould ==
    \A c \in Clients : pc[c] = "done" =>
        \A i \in DOMAIN items(c) :
            told[c][i] = "unsaid" <=>
                /\ call[c].ordered
                /\ \E j \in 1..(i - 1) : told[c][j] \in {"refused", "unknown"}

\* "A single winner ... the losers seeing no match": of the callers that race to
\* change the one document their filters match, one is told that it did.
ClaimedOnce == \A d \in Ids : claims[d] <= 1

\* Every call returns, however many conflicts it meets.
EveryCallReturns == \A c \in Clients : pc[c] # "idle" ~> pc[c] = "done"
=============================================================================
