----------------------------- MODULE WritesProofs -----------------------------
(***************************************************************************)
(* What several clients are told of their writes to one collection, for    *)
(* any number of clients, documents and calls, and batches of any length:  *)
(* that a batch ends where it should, that a document is claimed once, and *)
(* that what is told is what was done.                                     *)
(***************************************************************************)
EXTENDS Writes, FiniteSetTheorems, TLAPS

\* A client that has called something is at one of its documents or models.
CallsOK ==
    \A c \in Clients : pc[c] # "idle" => call[c] \in Calls /\ at[c] \in 1..Len(items(c))

\* The statement a client awaits is one its document or model is written by.
stageOK(c) ==
    /\ pc[c] \in {"idle", "whole"} => at[c] = 1
    /\ pc[c] \in {"whole", "oneByOne", "independently"} => call[c].op = "insertMany"
    /\ pc[c] \in {"inserting", "matching", "modifying", "upserting"} =>
          call[c].op = "bulkWrite"
    /\ pc[c] = "independently" => ~call[c].ordered
    /\ pc[c] \in insertStages \cup {"whole"} => item(c).op = "insert"
    /\ pc[c] \in {"matching", "upserting"} => item(c).upsert # "no"

StagesOK == \A c \in Clients : stageOK(c)

\* A call that is not over has been told of what comes before where it is, and
\* of nothing else; an ordered one, of no failure.
ToldPrefix ==
    \A c \in Clients : pc[c] # "done" =>
        \A i \in Positions :
            /\ told[c][i] = "unsaid" <=> i >= at[c]
            /\ call[c].ordered /\ i < at[c] => told[c][i] \notin {"refused", "unknown"}

IInv ==
    /\ TypeOK
    /\ CallsOK
    /\ StagesOK
    /\ ToldPrefix
    /\ BatchEndsWhereItShould

-----------------------------------------------------------------------------
(* The driver goes from one document or model to the next *)

\* A call is a batch that fits, of documents and models.
LEMMA ItemsOf ==
    ASSUME IInv, NEW c \in Clients, pc[c] # "idle"
    PROVE  /\ call[c] \in Calls
           /\ call[c].op \in {"insertMany", "bulkWrite"} /\ call[c].ordered \in BOOLEAN
           /\ items(c) \in Seq(Items)
           /\ Len(items(c)) \in Nat /\ Len(items(c)) \in Positions
           /\ DOMAIN items(c) = 1..Len(items(c))
           /\ at[c] \in Nat /\ at[c] \in 1..Len(items(c)) /\ at[c] \in Positions
           /\ item(c) \in Items
           /\ \A i \in 1..Len(items(c)) :
                 /\ i \in Positions
                 /\ items(c)[i] \in Items
                 /\ call[c].op = "insertMany" => items(c)[i].op = "insert"
<1>1. call[c] \in Calls /\ at[c] \in 1..Len(items(c))
  BY DEF IInv, CallsOK
<1>2. /\ call[c].op \in {"insertMany", "bulkWrite"} /\ call[c].ordered \in BOOLEAN
      /\ items(c) \in Seq(Items) /\ Len(items(c)) \in Positions
      /\ \A i \in DOMAIN items(c) : call[c].op = "insertMany" => items(c)[i].op = "insert"
  BY <1>1, CallsAreBatches DEF items
<1>3. Len(items(c)) \in Nat /\ DOMAIN items(c) = 1..Len(items(c))
      /\ \A i \in 1..Len(items(c)) : items(c)[i] \in Items
  BY <1>2
<1>4. at[c] \in Nat /\ at[c] \in Positions /\ \A i \in 1..Len(items(c)) : i \in Positions
  BY <1>1, <1>2, <1>3, SomeItems DEF Positions
<1>5. QED
  BY <1>1, <1>2, <1>3, <1>4 DEF item

\* The statement a model opens with is one of its kind.
LEMMA OpensWith ==
    ASSUME NEW m \in Items
    PROVE  /\ opens(m) \in {"inserting", "matching", "modifying"}
           /\ opens(m) = "inserting" => m.op = "insert"
           /\ opens(m) = "matching" => m.upsert # "no"
BY DEF opens, Items

Results == {"created", "modified", "nothing", "refused", "unknown"}

\* The variables of the driver keep their types, and where every call is.
driverOK ==
    /\ call \in [Clients -> Calls \cup {<< >>}]
    /\ pc \in [Clients -> Stages]
    /\ at \in [Clients -> Positions]
    /\ attempt \in [Clients -> 1..CONFLICT_ATTEMPTS]
    /\ told \in [Clients -> [Positions ->
          {"unsaid", "created", "modified", "nothing", "refused", "unknown"}]]
    /\ CallsOK
    /\ StagesOK
    /\ ToldPrefix
    /\ BatchEndsWhereItShould

\* What is told of one document or model is told in its turn: the batch stops
\* there, or goes on to the next.
LEMMA GoesOn ==
    ASSUME IInv, NEW c \in Clients, pc[c] \notin {"idle", "done"},
           pc[c] = "whole" => Len(items(c)) < 2,
           NEW result \in Results, goesOn(c, result), UNCHANGED call
    PROVE  /\ driverOK'
           /\ told'[c][at[c]] = result
           /\ \A i \in Positions : i # at[c] => told'[c][i] = told[c][i]
           /\ pc'[c] = "done" \/ at'[c] = at[c] + 1
           /\ \A e \in Clients : e # c => /\ pc'[e] = pc[e] /\ at'[e] = at[e]
                                          /\ told'[e] = told[e]
<1> USE DEF goesOn, issues
<1>1. /\ call[c] \in Calls /\ call[c].op \in {"insertMany", "bulkWrite"}
      /\ items(c) \in Seq(Items)
      /\ Len(items(c)) \in Nat /\ Len(items(c)) \in Positions
      /\ at[c] \in Nat /\ at[c] \in 1..Len(items(c)) /\ at[c] \in Positions
      /\ \A i \in 1..Len(items(c)) :
            /\ i \in Positions
            /\ items(c)[i] \in Items
            /\ call[c].op = "insertMany" => items(c)[i].op = "insert"
  BY ItemsOf
<1>2. /\ told'[c][at[c]] = result
      /\ \A i \in Positions : i # at[c] => told'[c][i] = told[c][i]
      /\ \A e \in Clients : e # c => told'[e] = told[e]
      /\ told' \in [Clients -> [Positions ->
            {"unsaid", "created", "modified", "nothing", "refused", "unknown"}]]
  BY <1>1 DEF IInv, TypeOK, Results
<1>3. \A i \in Positions :
          /\ i < at[c] => told[c][i] # "unsaid"
          /\ i > at[c] => told[c][i] = "unsaid"
          /\ call[c].ordered /\ i < at[c] => told[c][i] \notin {"refused", "unknown"}
  BY <1>1 DEF IInv, ToldPrefix, Positions
<1>4. attempt' \in [Clients -> 1..CONFLICT_ATTEMPTS]
  <2>1. attempt' = [attempt EXCEPT ![c] = 1]
    OBVIOUS
  <2>2. 1 \in 1..CONFLICT_ATTEMPTS
    BY AttemptsArePositive
  <2>3. QED
    BY <2>1, <2>2 DEF IInv, TypeOK
<1>5. CASE at[c] = Len(items(c)) \/ (call[c].ordered /\ result \in {"refused", "unknown"})
  <2>1. pc' = [pc EXCEPT ![c] = "done"] /\ UNCHANGED at
    BY <1>5
  <2>2. /\ pc'[c] = "done" /\ \A e \in Clients : e # c => pc'[e] = pc[e]
        /\ pc' \in [Clients -> Stages]
    BY <2>1 DEF IInv, TypeOK, Stages
  <2>3. CallsOK' /\ StagesOK'
    BY <1>1, <2>1, <2>2 DEF IInv, CallsOK, StagesOK, stageOK, items, item, insertStages
  <2>4. ToldPrefix'
    BY <1>2, <2>1, <2>2 DEF IInv, ToldPrefix
  <2>5. \A i \in 1..Len(items(c)) :
            told'[c][i] = "unsaid" <=>
                call[c].ordered /\ \E j \in 1..(i - 1) : told'[c][j] \in {"refused", "unknown"}
    <3> TAKE i \in 1..Len(items(c))
    <3>1. \A j \in 1..(i - 1) : j \in Positions /\ j < i
      BY <1>1 DEF Positions
    <3>2. CASE i <= at[c]
      <4>1. told'[c][i] # "unsaid"
        BY <1>1, <1>2, <1>3, <3>2 DEF Results
      <4>2. \A j \in 1..(i - 1) : j < at[c]
        BY <1>1, <3>2
      <4>3. call[c].ordered => \A j \in 1..(i - 1) : told'[c][j] \notin {"refused", "unknown"}
        BY <1>2, <1>3, <3>1, <4>2
      <4>4. QED
        BY <4>1, <4>3
    <3>3. CASE i > at[c]
      <4>1. told'[c][i] = "unsaid"
        BY <1>1, <1>2, <1>3, <3>3
      <4>2. at[c] \in 1..(i - 1)
        BY <1>1, <3>3
      <4>3. call[c].ordered /\ result \in {"refused", "unknown"}
        BY <1>1, <1>5, <3>3
      <4>4. QED
        BY <1>2, <4>1, <4>2, <4>3
    <3>4. QED
      BY <1>1, <3>2, <3>3
  <2>6. BatchEndsWhereItShould'
    <3>1. DOMAIN items(c) = 1..Len(items(c))
      BY <1>1
    <3>2. QED
      BY <1>2, <2>2, <2>5, <3>1 DEF IInv, BatchEndsWhereItShould, items
  <2>7. QED
    BY <1>2, <1>4, <2>1, <2>2, <2>3, <2>4, <2>6 DEF IInv, TypeOK, driverOK
<1>6. CASE ~(at[c] = Len(items(c)) \/ (call[c].ordered /\ result \in {"refused", "unknown"}))
  <2> DEFINE next == at[c] + 1
             stage == IF call[c].op = "bulkWrite" THEN opens(items(c)[next]) ELSE pc[c]
  <2>1. pc' = [pc EXCEPT ![c] = stage] /\ at' = [at EXCEPT ![c] = @ + 1]
    BY <1>6
  <2>2. next \in 1..Len(items(c)) /\ next \in Positions
    BY <1>1, <1>6
  <2>3. /\ at'[c] = next /\ \A e \in Clients : e # c => at'[e] = at[e]
        /\ at' \in [Clients -> Positions]
    BY <2>1, <2>2 DEF IInv, TypeOK
  <2>4. /\ stage \in Stages \ {"idle", "done", "whole"}
        /\ stage \in {"oneByOne", "independently"} =>
              call[c].op = "insertMany" /\ stage = pc[c]
        /\ stage \in {"inserting", "matching", "modifying", "upserting"} =>
              call[c].op = "bulkWrite"
        /\ stage \in insertStages => items(c)[next].op = "insert"
        /\ stage \in {"matching", "upserting"} => items(c)[next].upsert # "no"
    <3>1. items(c)[next] \in Items
      BY <1>1, <2>2
    <3>2. pc[c] # "whole"
      BY <1>1, <1>6 DEF IInv, StagesOK, stageOK
    <3>3. CASE call[c].op = "bulkWrite"
      <4>1. /\ opens(items(c)[next]) \in {"inserting", "matching", "modifying"}
            /\ opens(items(c)[next]) = "inserting" => items(c)[next].op = "insert"
            /\ opens(items(c)[next]) = "matching" => items(c)[next].upsert # "no"
        BY <3>1, OpensWith
      <4>2. QED
        BY <3>3, <4>1 DEF Stages, insertStages
    <3>4. CASE call[c].op = "insertMany"
      BY <1>1, <2>2, <3>2, <3>4
         DEF IInv, TypeOK, StagesOK, stageOK, Stages, insertStages
    <3>5. QED
      BY <1>1, <3>3, <3>4
  <2> HIDE DEF stage
  <2>5. /\ pc'[c] = stage /\ \A e \in Clients : e # c => pc'[e] = pc[e]
        /\ pc' \in [Clients -> Stages]
    BY <2>1, <2>4 DEF IInv, TypeOK
  <2> HIDE DEF next
  <2>6. CallsOK'
    BY <1>1, <2>2, <2>3, <2>5 DEF IInv, CallsOK, items
  <2>7. StagesOK'
    <3>1. stageOK(c)'
      BY <2>3, <2>4, <2>5 DEF IInv, StagesOK, stageOK, items, item
    <3>2. \A e \in Clients : e # c => stageOK(e)'
      BY <2>3, <2>5 DEF IInv, StagesOK, stageOK, items, item
    <3>3. QED
      BY <3>1, <3>2 DEF StagesOK
  <2>8. ToldPrefix'
    <3>1. \A i \in Positions : i < next <=> i < at[c] \/ i = at[c]
      BY <1>1 DEF Positions, next
    <3>2. \A i \in Positions : i >= next <=> ~(i < next)
      BY <1>1 DEF Positions, next
    <3>3. \A i \in Positions : i = at[c] \/ i < at[c] \/ i > at[c]
      BY <1>1 DEF Positions
    <3>4. \A i \in Positions :
              /\ told'[c][i] = "unsaid" <=> i >= next
              /\ call[c].ordered /\ i < next => told'[c][i] \notin {"refused", "unknown"}
      BY <1>1, <1>2, <1>3, <1>6, <3>1, <3>2, <3>3 DEF Results
    <3>5. QED
      BY <1>2, <2>3, <2>5, <3>4 DEF IInv, ToldPrefix
  <2>9. BatchEndsWhereItShould'
    BY <1>2, <2>4, <2>5 DEF IInv, BatchEndsWhereItShould, items
  <2>10. QED
    BY <1>2, <1>4, <2>3, <2>5, <2>6, <2>7, <2>8, <2>9 DEF IInv, TypeOK, driverOK, next
<1>7. QED
  BY <1>5, <1>6

\* The document or model stays the same, and another statement is sent for it.
LEMMA StaysAt ==
    ASSUME IInv, NEW c \in Clients, pc[c] \notin {"idle", "done"},
           NEW stage \in Stages \ {"idle", "done", "whole"},
           stage \in {"oneByOne", "independently"} =>
               call[c].op = "insertMany" /\ (stage = "independently" => ~call[c].ordered),
           stage \in {"inserting", "matching", "modifying", "upserting"} =>
               call[c].op = "bulkWrite",
           stage \in insertStages => item(c).op = "insert",
           stage \in {"matching", "upserting"} => item(c).upsert # "no",
           pc' = [pc EXCEPT ![c] = stage],
           attempt' \in [Clients -> 1..CONFLICT_ATTEMPTS],
           UNCHANGED <<call, at, told>>
    PROVE  driverOK'
<1>1. /\ pc'[c] = stage /\ \A e \in Clients : e # c => pc'[e] = pc[e]
      /\ pc' \in [Clients -> Stages]
  BY DEF IInv, TypeOK
<1>2. CallsOK' /\ ToldPrefix' /\ BatchEndsWhereItShould'
  BY <1>1 DEF IInv, CallsOK, ToldPrefix, BatchEndsWhereItShould, items
<1>3. StagesOK'
  BY <1>1 DEF IInv, StagesOK, stageOK, items, item
<1>4. QED
  BY <1>1, <1>2, <1>3 DEF IInv, TypeOK, driverOK

\* The same statement is sent again, or for the first time.
LEMMA IssuesKeepsAttempts ==
    ASSUME IInv, NEW c \in Clients, NEW stage, issues(c, stage)
    PROVE  pc' = [pc EXCEPT ![c] = stage] /\ attempt' \in [Clients -> 1..CONFLICT_ATTEMPTS]
<1>1. attempt' = [attempt EXCEPT ![c] = 1] /\ 1 \in 1..CONFLICT_ATTEMPTS
  BY AttemptsArePositive DEF issues
<1>2. QED
  BY <1>1 DEF IInv, TypeOK, issues

\* A batch that fails whole goes on as it should, document by document.
LEMMA Reissues ==
    ASSUME IInv, NEW c \in Clients, pc[c] = "whole",
           NEW error \in {"refused", "unknown"}, reissues(c, error), UNCHANGED call
    PROVE  /\ driverOK'
           /\ \A e \in Clients : e # c => /\ pc'[e] = pc[e] /\ at'[e] = at[e]
                                          /\ told'[e] = told[e]
           /\ \/ /\ UNCHANGED <<at, told>>
                 /\ Len(items(c)) >= 2
                 /\ pc'[c] # "done"
              \/ /\ Len(items(c)) < 2
                 /\ told'[c][at[c]] = error
                 /\ \A i \in Positions : i # at[c] => told'[c][i] = told[c][i]
                 /\ pc'[c] = "done" \/ at'[c] = at[c] + 1
<1>1. /\ Len(items(c)) \in Nat
      /\ call[c].op = "insertMany" /\ item(c).op = "insert"
  BY ItemsOf DEF IInv, StagesOK, stageOK
<1>2. CASE Len(items(c)) < 2
  BY <1>2, GoesOn DEF reissues, Results
<1>3. CASE ~(Len(items(c)) < 2)
  <2> DEFINE stage == IF call[c].ordered THEN "oneByOne" ELSE "independently"
  <2>1. issues(c, stage) /\ UNCHANGED <<at, told>>
    BY <1>3 DEF reissues
  <2>2. /\ stage \in Stages \ {"idle", "done", "whole"}
        /\ stage \in {"oneByOne", "independently"}
        /\ stage = "independently" => ~call[c].ordered
    BY DEF Stages
  <2> HIDE DEF stage
  <2>3. pc' = [pc EXCEPT ![c] = stage] /\ attempt' \in [Clients -> 1..CONFLICT_ATTEMPTS]
    BY <2>1, IssuesKeepsAttempts
  <2>4. driverOK'
    BY <1>1, <2>1, <2>2, <2>3, StaysAt
  <2>5. pc'[c] # "done" /\ \A e \in Clients : e # c => pc'[e] = pc[e]
    BY <2>2, <2>3 DEF IInv, TypeOK
  <2>6. QED
    BY <1>1, <1>3, <2>1, <2>4, <2>5
<1>4. QED
  BY <1>2, <1>3

\* Every document of a batch is told at once.
LEMMA AllTold ==
    ASSUME IInv, NEW c \in Clients, pc[c] \notin {"idle", "done"},
           NEW result \in Results,
           pc[c] = "whole" \/ ~call[c].ordered,
           result \notin {"refused", "unknown"} \/ ~call[c].ordered,
           told' = [told EXCEPT ![c] = [i \in Positions |->
                       IF i \in DOMAIN items(c) THEN result ELSE @[i]]],
           issues(c, "done"), UNCHANGED <<call, at>>
    PROVE  /\ driverOK'
           /\ pc'[c] = "done"
           /\ \A i \in Positions :
                 told'[c][i] = IF i \in 1..Len(items(c)) THEN result ELSE told[c][i]
           /\ \A e \in Clients : e # c => pc'[e] = pc[e] /\ told'[e] = told[e]
<1>1. /\ call[c] \in Calls /\ DOMAIN items(c) = 1..Len(items(c))
      /\ at[c] \in 1..Len(items(c))
      /\ Len(items(c)) \in Nat
      /\ \A i \in 1..Len(items(c)) : i \in Positions
  BY ItemsOf
<1>2. pc' = [pc EXCEPT ![c] = "done"] /\ attempt' \in [Clients -> 1..CONFLICT_ATTEMPTS]
  BY IssuesKeepsAttempts
<1>3. /\ pc'[c] = "done" /\ \A e \in Clients : e # c => pc'[e] = pc[e]
      /\ pc' \in [Clients -> Stages]
  BY <1>2 DEF IInv, TypeOK, Stages
<1>4. /\ told' \in [Clients -> [Positions ->
            {"unsaid", "created", "modified", "nothing", "refused", "unknown"}]]
      /\ \A e \in Clients : e # c => told'[e] = told[e]
      /\ \A i \in Positions :
            told'[c][i] = IF i \in 1..Len(items(c)) THEN result ELSE told[c][i]
  BY <1>1 DEF IInv, TypeOK, Results
<1>5. CallsOK' /\ StagesOK' /\ ToldPrefix'
  BY <1>1, <1>3, <1>4
     DEF IInv, CallsOK, StagesOK, stageOK, ToldPrefix, items, item, insertStages
<1>6. \A i \in 1..Len(items(c)) :
          /\ told'[c][i] # "unsaid"
          /\ call[c].ordered => \A j \in 1..(i - 1) : told'[c][j] \notin {"refused", "unknown"}
  <2> TAKE i \in 1..Len(items(c))
  <2>1. \A j \in 1..(i - 1) : j \in 1..Len(items(c))
    BY <1>1
  <2>2. QED
    BY <1>1, <1>4, <2>1 DEF Results
<1>7. BatchEndsWhereItShould'
  <2>1. \A i \in DOMAIN items(c) :
            told'[c][i] = "unsaid" <=>
                call[c].ordered /\ \E j \in 1..(i - 1) : told'[c][j] \in {"refused", "unknown"}
    BY <1>1, <1>6
  <2> DEFINE ends(e) ==
                \A i \in DOMAIN items(e) :
                    told[e][i] = "unsaid" <=>
                        /\ call[e].ordered
                        /\ \E j \in 1..(i - 1) : told[e][j] \in {"refused", "unknown"}
  <2>2. ends(c)'
    BY <2>1 DEF items
  <2>3. ASSUME NEW e \in Clients, e # c, pc'[e] = "done"
        PROVE  ends(e)'
    <3>1. pc[e] = "done" /\ told'[e] = told[e] /\ call'[e] = call[e]
      BY <1>3, <1>4, <2>3
    <3>2. ends(e)
      BY <3>1 DEF IInv, BatchEndsWhereItShould
    <3>3. QED
      BY <3>1, <3>2 DEF items
  <2> HIDE DEF ends
  <2>4. \A e \in Clients : pc'[e] = "done" => ends(e)'
    BY <2>2, <2>3
  <2>5. QED
    BY <2>4 DEF BatchEndsWhereItShould, ends
<1>8. QED
  BY <1>2, <1>3, <1>4, <1>5, <1>7 DEF IInv, TypeOK, driverOK

\* A call is made.
LEMMA Starts ==
    ASSUME IInv, NEW c \in Clients, start(c)
    PROVE  driverOK' /\ pc'[c] # "done" /\ \A e \in Clients : e # c => pc'[e] = pc[e]
<1>1. PICK k \in Calls :
          /\ call' = [call EXCEPT ![c] = k]
          /\ issues(c, IF k.op = "insertMany" THEN "whole" ELSE opens(k.items[1]))
  BY DEF start
<1> DEFINE stage == IF k.op = "insertMany" THEN "whole" ELSE opens(k.items[1])
<1>2. /\ k.op \in {"insertMany", "bulkWrite"}
      /\ Len(k.items) \in Nat /\ 1 \in 1..Len(k.items)
      /\ k.items[1] \in Items
      /\ k.op = "insertMany" => k.items[1].op = "insert"
  <2>1. /\ k.items \in Seq(Items) /\ Len(k.items) \in Positions
        /\ k.op \in {"insertMany", "bulkWrite"}
        /\ \A i \in DOMAIN k.items : k.op = "insertMany" => k.items[i].op = "insert"
    BY CallsAreBatches
  <2>2. 1 \in DOMAIN k.items /\ 1 \in 1..Len(k.items) /\ Len(k.items) \in Nat
    BY <2>1, SomeItems DEF Positions
  <2>3. QED
    BY <2>1, <2>2
<1>3. /\ stage \in Stages \ {"idle", "done", "oneByOne", "independently", "upserting"}
      /\ stage = "whole" => k.op = "insertMany"
      /\ stage \in {"inserting", "matching", "modifying"} => k.op = "bulkWrite"
      /\ stage \in {"whole", "inserting"} => k.items[1].op = "insert"
      /\ stage = "matching" => k.items[1].upsert # "no"
  BY <1>2, OpensWith DEF Stages
<1> HIDE DEF stage
<1>4. pc' = [pc EXCEPT ![c] = stage] /\ attempt' \in [Clients -> 1..CONFLICT_ATTEMPTS]
  BY <1>1, IssuesKeepsAttempts DEF stage
<1>5. /\ pc'[c] = stage /\ \A e \in Clients : e # c => pc'[e] = pc[e] /\ call'[e] = call[e]
      /\ pc' \in [Clients -> Stages]
      /\ call'[c] = k /\ call' \in [Clients -> Calls \cup {<< >>}]
  BY <1>1, <1>3, <1>4 DEF IInv, TypeOK
<1>6. pc[c] = "idle" /\ at[c] = 1 /\ UNCHANGED <<at, told>>
  BY DEF start, IInv, StagesOK, stageOK
<1>7. CallsOK'
  BY <1>2, <1>5, <1>6 DEF IInv, CallsOK, items
<1>8. StagesOK'
  BY <1>2, <1>3, <1>5, <1>6 DEF IInv, StagesOK, stageOK, items, item, insertStages
<1>9. ToldPrefix'
  <2>1. \A i \in Positions : ~(i < 1)
    BY DEF Positions
  <2>2. QED
    BY <1>5, <1>6, <2>1 DEF IInv, ToldPrefix
<1>10. BatchEndsWhereItShould'
  BY <1>3, <1>5, <1>6 DEF IInv, BatchEndsWhereItShould, items
<1>11. QED
  BY <1>3, <1>4, <1>5, <1>6, <1>7, <1>8, <1>9, <1>10 DEF IInv, TypeOK, driverOK

-----------------------------------------------------------------------------
(* What a statement does, and what becomes of the call that sent it *)

\* The collection keeps its type, and so do the histories.
serverOK ==
    /\ docs \in [Ids -> Values \cup {absent}]
    /\ defined \in BOOLEAN
    /\ did \in [Clients -> [Positions -> Seq({"created", "modified"})]]
    /\ claims \in [Ids -> Nat]

LEMMA PutKeepsTypes ==
    ASSUME IInv, NEW D, NEW value \in Values \cup {absent}, NEW isClaim \in BOOLEAN,
           put(D, value, isClaim)
    PROVE  /\ docs' \in [Ids -> Values \cup {absent}]
           /\ defined' \in BOOLEAN
           /\ claims' \in [Ids -> Nat]
BY DEF IInv, TypeOK, put

LEMMA RecordsKeepsTypes ==
    ASSUME IInv, NEW c \in Clients, NEW i \in Positions,
           NEW effect \in {"created", "modified"}, records(c, i, effect)
    PROVE  /\ did' \in [Clients -> [Positions -> Seq({"created", "modified"})]]
           /\ did'[c][i] = Append(did[c][i], effect)
           /\ \A j \in Positions : j # i => did'[c][j] = did[c][j]
           /\ \A e \in Clients : e # c => did'[e] = did[e]
<1>1. did[c][i] \in Seq({"created", "modified"})
  BY DEF IInv, TypeOK
<1>2. Append(did[c][i], effect) \in Seq({"created", "modified"})
  BY <1>1
<1>3. QED
  BY <1>2 DEF IInv, TypeOK, records

\* The one _id that is named is an id.
LEMMA NamedIsId ==
    ASSUME NEW m \in Items, m.ids # {}
    PROVE  theId(m) \in m.ids /\ theId(m) \in Ids
BY DEF theId, Items

LEMMA PinnedIsNamed ==
    ASSUME NEW m \in Items, pinned(m)
    PROVE  m.ids # {}
BY FS_EmptySet DEF pinned

\* An insert that takes effect, whole or alone, puts documents where none were.
LEMMA InsertsWhole ==
    ASSUME IInv, NEW c \in Clients, pc[c] # "idle", insertsWhole(c)
    PROVE  serverOK'
<1>1. item(c) \in Items
  BY ItemsOf
<1>2. /\ docs' \in [Ids -> Values \cup {absent}]
      /\ defined' \in BOOLEAN
      /\ claims' \in [Ids -> Nat]
  BY <1>1, PutKeepsTypes DEF insertsWhole, Items
<1>3. \A i \in Positions : Append(did[c][i], "created") \in Seq({"created", "modified"})
  <2> TAKE i \in Positions
  <2>1. did[c][i] \in Seq({"created", "modified"})
    BY DEF IInv, TypeOK
  <2>2. QED
    BY <2>1
<1>4. did' \in [Clients -> [Positions -> Seq({"created", "modified"})]]
  BY <1>3 DEF insertsWhole, IInv, TypeOK
<1>5. QED
  BY <1>2, <1>4 DEF serverOK

LEMMA InsertsOne ==
    ASSUME IInv, NEW c \in Clients, pc[c] \in insertStages, insertsOne(c)
    PROVE  /\ serverOK'
           /\ theId(item(c)) \in Ids /\ item(c).ids = {theId(item(c))}
           /\ docs[theId(item(c))] = absent
           /\ put({theId(item(c))}, item(c).to, FALSE)
           /\ did'[c][at[c]] = Append(did[c][at[c]], "created")
           /\ \A j \in Positions : j # at[c] => did'[c][j] = did[c][j]
           /\ \A e \in Clients : e # c => did'[e] = did[e]
<1>1. /\ item(c) \in Items /\ at[c] \in Positions /\ call[c] \in Calls
      /\ at[c] \in DOMAIN items(c)
  BY ItemsOf DEF insertStages
<1>2. item(c).op = "insert"
  BY DEF IInv, StagesOK, stageOK
<1>3. PICK d \in Ids : item(c).ids = {d}
  BY <1>1, <1>2, CallsAreBatches DEF item, items
<1>4. theId(item(c)) = d
  BY <1>1, <1>3, NamedIsId
<1>5. put({theId(item(c))}, item(c).to, FALSE) /\ records(c, at[c], "created")
      /\ docs[theId(item(c))] = absent
  BY DEF insertsOne
<1>6. serverOK'
  BY <1>1, <1>5, PutKeepsTypes, RecordsKeepsTypes DEF serverOK, Items
<1>7. QED
  BY <1>1, <1>3, <1>4, <1>5, <1>6, RecordsKeepsTypes

\* A model that matches puts its value over what it matched.
LEMMA Modifies ==
    ASSUME IInv, NEW c \in Clients, pc[c] # "idle", modifies(c)
    PROVE  /\ serverOK'
           /\ \E D \in SUBSET Ids :
                 /\ \A d \in D : docs[d] \in item(c).from
                 /\ put(D, item(c).to, item(c).op = "one")
           /\ did'[c][at[c]] = Append(did[c][at[c]], "modified")
           /\ \A j \in Positions : j # at[c] => did'[c][j] = did[c][j]
           /\ \A e \in Clients : e # c => did'[e] = did[e]
<1>1. item(c) \in Items /\ at[c] \in Positions
  BY ItemsOf
<1>2. records(c, at[c], "modified")
  BY DEF modifies
<1>3. PICK D \in SUBSET matching(item(c)) : put(D, item(c).to, item(c).op = "one")
  BY DEF modifies
<1>4. D \in SUBSET Ids /\ \A d \in D : docs[d] \in item(c).from
  BY <1>1 DEF matching, Items
<1>5. serverOK'
  BY <1>1, <1>2, <1>3, PutKeepsTypes, RecordsKeepsTypes DEF serverOK, Items
<1>6. QED
  BY <1>1, <1>2, <1>3, <1>4, <1>5, RecordsKeepsTypes

\* An upsert puts one document, of the _id that is named or generated.
LEMMA UpsertsOne ==
    ASSUME IInv, NEW c \in Clients, pc[c] # "idle", upserts(c)
    PROVE  /\ serverOK'
           /\ upsertedId(c) \in Ids
           /\ upsertedId(c) \in item(c).ids \/ upsertedId(c) = Generated[c][at[c]]
           /\ put({upsertedId(c)}, item(c).to, FALSE)
           /\ \E effect \in {"created", "modified"} :
                 /\ effect = "created" <=> docs[upsertedId(c)] = absent
                 /\ did'[c][at[c]] = Append(did[c][at[c]], effect)
           /\ \A j \in Positions : j # at[c] => did'[c][j] = did[c][j]
           /\ \A e \in Clients : e # c => did'[e] = did[e]
<1>1. item(c) \in Items /\ at[c] \in Positions
  BY ItemsOf
<1>2. /\ upsertedId(c) \in Ids
      /\ upsertedId(c) \in item(c).ids \/ upsertedId(c) = Generated[c][at[c]]
  BY <1>1, NamedIsId, PinnedIsNamed, GeneratedAreNew DEF upsertedId
<1> DEFINE effect == IF docs[upsertedId(c)] = absent THEN "created" ELSE "modified"
<1>3. put({upsertedId(c)}, item(c).to, FALSE) /\ records(c, at[c], effect)
  BY DEF upserts
<1>4. effect \in {"created", "modified"} /\ (effect = "created" <=> docs[upsertedId(c)] = absent)
  OBVIOUS
<1> HIDE DEF effect
<1>5. serverOK'
  BY <1>1, <1>3, <1>4, PutKeepsTypes, RecordsKeepsTypes DEF serverOK, Items
<1>6. /\ did'[c][at[c]] = Append(did[c][at[c]], effect)
      /\ \A j \in Positions : j # at[c] => did'[c][j] = did[c][j]
      /\ \A e \in Clients : e # c => did'[e] = did[e]
      /\ put({upsertedId(c)}, item(c).to, FALSE)
  BY <1>1, <1>3, <1>4, RecordsKeepsTypes
<1>7. QED
  BY <1>2, <1>4, <1>5, <1>6

LEMMA Unserved ==
    ASSUME IInv, unserved, UNCHANGED did
    PROVE  serverOK'
BY DEF IInv, TypeOK, serverOK, unserved

-----------------------------------------------------------------------------
(* Every action keeps the invariant *)

LEMMA TypesTogether ==
    ASSUME driverOK', serverOK'
    PROVE  IInv'
BY DEF IInv, TypeOK, driverOK, serverOK

LEMMA WholeStep ==
    ASSUME IInv, NEW c \in Clients, wholeWritten(c) \/ wholeRefused(c) \/ wholeLost(c)
    PROVE  IInv'
<1>1. pc[c] = "whole" /\ pc[c] \notin {"idle", "done"} /\ UNCHANGED call
  BY DEF wholeWritten, wholeRefused, wholeLost
<1>2. CASE wholeWritten(c)
  <2>1. driverOK'
    BY <1>1, <1>2, AllTold DEF wholeWritten, Results
  <2>2. serverOK'
    BY <1>1, <1>2, InsertsWhole DEF wholeWritten
  <2>3. QED
    BY <2>1, <2>2, TypesTogether
<1>3. CASE wholeRefused(c)
  <2>1. driverOK'
    BY <1>1, <1>3, Reissues DEF wholeRefused
  <2>2. serverOK'
    BY <1>3, Unserved DEF wholeRefused
  <2>3. QED
    BY <2>1, <2>2, TypesTogether
<1>4. CASE wholeLost(c)
  <2>1. driverOK'
    BY <1>1, <1>4, Reissues DEF wholeLost
  <2>2. serverOK'
    BY <1>1, <1>4, Unserved, InsertsWhole DEF wholeLost
  <2>3. QED
    BY <2>1, <2>2, TypesTogether
<1>5. QED
  BY <1>2, <1>3, <1>4

LEMMA InsertStep ==
    ASSUME IInv, NEW c \in Clients, insertWritten(c) \/ insertRefused(c) \/ insertLost(c)
    PROVE  IInv'
<1>1. /\ pc[c] \in insertStages /\ pc[c] \notin {"idle", "done", "whole"} /\ UNCHANGED call
  BY DEF insertWritten, insertRefused, insertLost, insertStages
<1>2. CASE insertWritten(c)
  <2>1. driverOK'
    BY <1>1, <1>2, GoesOn DEF insertWritten, Results
  <2>2. serverOK'
    BY <1>1, <1>2, InsertsOne DEF insertWritten
  <2>3. QED
    BY <2>1, <2>2, TypesTogether
<1>3. CASE insertRefused(c)
  <2>1. driverOK'
    BY <1>1, <1>3, GoesOn DEF insertRefused, Results
  <2>2. serverOK'
    BY <1>3, Unserved DEF insertRefused
  <2>3. QED
    BY <2>1, <2>2, TypesTogether
<1>4. CASE insertLost(c)
  <2>1. CASE pc[c] = "independently"
    <3>1. ~call[c].ordered
      BY <2>1 DEF IInv, StagesOK, stageOK
    <3>2. QED
      BY <1>1, <1>4, <2>1, <3>1, AllTold, InsertsOne, Unserved, TypesTogether
         DEF insertLost, Results
  <2>2. CASE pc[c] # "independently"
    <3>1. driverOK'
      BY <1>1, <1>4, <2>2, GoesOn DEF insertLost, Results
    <3>2. serverOK'
      BY <1>1, <1>4, InsertsOne, Unserved DEF insertLost
    <3>3. QED
      BY <3>1, <3>2, TypesTogether
  <2>3. QED
    BY <2>1, <2>2
<1>5. QED
  BY <1>2, <1>3, <1>4

modelStages == {"matching", "modifying", "upserting"}

LEMMA ModelStep ==
    ASSUME IInv, NEW c \in Clients,
           \/ modified(c) \/ matchedNone(c) \/ matchesAnyRecord(c)
           \/ conflict(c) \/ refused(c) \/ upserted(c) \/ modelLost(c)
    PROVE  IInv'
<1>1. /\ pc[c] \in modelStages /\ pc[c] \notin {"idle", "done", "whole"}
      /\ UNCHANGED call
  BY DEF modified, matchedNone, matchesAnyRecord, conflict, refused, upserted, modelLost,
         modelStages
<1>2. /\ call[c].op = "bulkWrite"
      /\ pc[c] \in {"matching", "upserting"} => item(c).upsert # "no"
  BY <1>1 DEF IInv, StagesOK, stageOK, modelStages
<1>3. CASE modified(c)
  <2>1. driverOK'
    BY <1>1, <1>3, GoesOn DEF modified, Results
  <2>2. QED
    BY <1>1, <1>3, <2>1, Modifies, TypesTogether DEF modified
<1>4. CASE matchedNone(c)
  <2>1. serverOK'
    BY <1>4, Unserved DEF matchedNone
  <2>2. CASE item(c).op = "one" /\ item(c).upsert # "no"
    <3>1. issues(c, "upserting") /\ UNCHANGED <<at, told>>
      BY <1>4, <2>2 DEF matchedNone
    <3>2. driverOK'
      BY <1>1, <1>2, <2>2, <3>1, IssuesKeepsAttempts, StaysAt DEF Stages, insertStages
    <3>3. QED
      BY <2>1, <3>2, TypesTogether
  <2>3. CASE ~(item(c).op = "one" /\ item(c).upsert # "no")
    <3>1. driverOK'
      BY <1>1, <1>4, <2>3, GoesOn DEF matchedNone, Results
    <3>2. QED
      BY <2>1, <3>1, TypesTogether
  <2>4. QED
    BY <2>2, <2>3
<1>5. CASE matchesAnyRecord(c)
  <2> DEFINE stage == IF matching(item(c)) # {} THEN "modifying" ELSE "upserting"
  <2>1. /\ issues(c, stage) /\ UNCHANGED <<at, told>>
        /\ pc[c] = "matching"
    BY <1>5 DEF matchesAnyRecord
  <2>2. stage \in {"modifying", "upserting"}
    OBVIOUS
  <2> HIDE DEF stage
  <2>3. driverOK'
    BY <1>1, <1>2, <2>1, <2>2, IssuesKeepsAttempts, StaysAt DEF Stages, insertStages
  <2>4. QED
    BY <1>5, <2>3, Unserved, TypesTogether DEF matchesAnyRecord
<1>6. CASE conflict(c)
  <2>1. serverOK'
    BY <1>6, Unserved DEF conflict
  <2>2. CASE retries(c) /\ attempt[c] < CONFLICT_ATTEMPTS
    <3>1. attempt' = [attempt EXCEPT ![c] = @ + 1] /\ UNCHANGED <<pc, at, told>>
      BY <1>6, <2>2 DEF conflict
    <3>2. attempt[c] + 1 \in 1..CONFLICT_ATTEMPTS
      BY <2>2, AttemptsArePositive DEF IInv, TypeOK
    <3>3. attempt' \in [Clients -> 1..CONFLICT_ATTEMPTS]
      BY <3>1, <3>2 DEF IInv, TypeOK
    <3>4. pc' = [pc EXCEPT ![c] = pc[c]]
      BY <3>1 DEF IInv, TypeOK
    <3>5. driverOK'
      BY <1>1, <1>2, <3>1, <3>3, <3>4, StaysAt DEF Stages, insertStages, modelStages
    <3>6. QED
      BY <2>1, <3>5, TypesTogether
  <2>3. CASE ~(retries(c) /\ attempt[c] < CONFLICT_ATTEMPTS)
    <3>1. driverOK'
      BY <1>1, <1>6, <2>3, GoesOn DEF conflict, Results
    <3>2. QED
      BY <2>1, <3>1, TypesTogether
  <2>4. QED
    BY <2>2, <2>3
<1>7. CASE refused(c)
  <2>1. driverOK'
    BY <1>1, <1>7, GoesOn DEF refused, Results
  <2>2. QED
    BY <1>7, <2>1, Unserved, TypesTogether DEF refused
<1>8. CASE upserted(c)
  <2>1. driverOK'
    BY <1>1, <1>8, GoesOn DEF upserted, Results
  <2>2. QED
    BY <1>1, <1>8, <2>1, UpsertsOne, TypesTogether DEF upserted
<1>9. CASE modelLost(c)
  <2>1. driverOK'
    BY <1>1, <1>9, GoesOn DEF modelLost, Results
  <2>2. serverOK'
    BY <1>1, <1>9, Modifies, UpsertsOne, Unserved DEF modelLost
  <2>3. QED
    BY <2>1, <2>2, TypesTogether
<1>10. QED
  BY <1>3, <1>4, <1>5, <1>6, <1>7, <1>8, <1>9

LEMMA InitIInv == Init => IInv
<1> SUFFICES ASSUME Init PROVE IInv
  OBVIOUS
<1>1. TypeOK
  BY SomeItems, AttemptsArePositive DEF Init, TypeOK, Stages, Positions
<1>2. CallsOK /\ StagesOK /\ BatchEndsWhereItShould
  BY DEF Init, CallsOK, StagesOK, stageOK, BatchEndsWhereItShould, insertStages
<1>3. ToldPrefix
  BY DEF Init, ToldPrefix, Positions
<1>4. QED
  BY <1>1, <1>2, <1>3 DEF IInv

LEMMA NextIInv == IInv /\ [Next]_vars => IInv'
<1> SUFFICES ASSUME IInv, [Next]_vars PROVE IInv'
  OBVIOUS
<1>1. ASSUME NEW c \in Clients, start(c)
      PROVE  IInv'
  <2>1. driverOK'
    BY <1>1, Starts
  <2>2. serverOK'
    BY <1>1 DEF start, IInv, TypeOK, serverOK
  <2>3. QED
    BY <2>1, <2>2, TypesTogether
<1>2. ASSUME NEW c \in Clients, answered(c)
      PROVE  IInv'
  BY <1>2, WholeStep, InsertStep, ModelStep DEF answered
<1>3. CASE UNCHANGED vars
  BY <1>3 DEF vars, IInv, TypeOK, CallsOK, StagesOK, stageOK, ToldPrefix,
              BatchEndsWhereItShould, items, item
<1>4. QED
  BY <1>1, <1>2, <1>3 DEF Next

LEMMA AlwaysIInv == Spec => []IInv
<1>1. QED
  BY InitIInv, NextIInv, PTL DEF Spec

\* Every variable stays within what it may hold.
THEOREM TypeCorrect == Spec => []TypeOK
<1>1. IInv => TypeOK
  BY DEF IInv
<1>2. QED
  BY AlwaysIInv, <1>1, PTL

\* An ordered batch ends at its first failure and was told of all before it, an
\* unordered one of everything, whichever answers are lost or refused.
THEOREM EndsWhereItShould == Spec => []BatchEndsWhereItShould
<1>1. IInv => BatchEndsWhereItShould
  BY DEF IInv
<1>2. QED
  BY AlwaysIInv, <1>1, PTL

-----------------------------------------------------------------------------
(* One caller wins each document *)

\* What a model that changes one document makes of it is matched by no such model.
ClaimsAreFinal ==
    \A k, l \in Calls : \A i \in DOMAIN k.items, j \in DOMAIN l.items :
        k.items[i].op = "one" /\ l.items[j].op = "one" =>
            k.items[i].to \notin l.items[j].from

\* A document that was claimed is one that no other model would match.
ClaimIsFinal ==
    \A d \in Ids : claims[d] > 0 =>
        /\ claims[d] = 1
        /\ \A l \in Calls : \A j \in DOMAIN l.items :
              l.items[j].op = "one" => docs[d] \notin l.items[j].from

LEMMA PutKeepsClaims ==
    ASSUME IInv, ClaimIsFinal, NEW D, NEW value \in Values \cup {absent},
           put(D, value, FALSE)
    PROVE  ClaimIsFinal'
BY DEF IInv, TypeOK, ClaimIsFinal, put

LEMMA ModifiesKeepsClaims ==
    ASSUME IInv, ClaimsAreFinal, ClaimIsFinal, NEW c \in Clients, pc[c] # "idle",
           modifies(c)
    PROVE  ClaimIsFinal'
<1>1. /\ item(c) \in Items /\ call[c] \in Calls /\ at[c] \in DOMAIN items(c)
      /\ item(c) = call[c].items[at[c]] /\ at[c] \in DOMAIN call[c].items
  BY ItemsOf DEF item, items
<1>2. PICK D \in SUBSET Ids :
          /\ \A d \in D : docs[d] \in item(c).from
          /\ put(D, item(c).to, item(c).op = "one")
  BY Modifies
<1>3. CASE item(c).op = "one"
  <2>1. \A d \in D : claims[d] = 0
    <3> TAKE d \in D
    <3>1. claims[d] \in Nat
      BY DEF IInv, TypeOK
    <3>2. claims[d] > 0 => docs[d] \notin item(c).from
      BY <1>1, <1>3 DEF ClaimIsFinal
    <3>3. QED
      BY <1>2, <3>1, <3>2
  <2>2. \A d \in Ids : /\ d \in D => claims'[d] = 1 /\ docs'[d] = item(c).to
                       /\ d \notin D => claims'[d] = claims[d] /\ docs'[d] = docs[d]
    BY <1>2, <1>3, <2>1 DEF put
  <2>3. \A l \in Calls : \A j \in DOMAIN l.items :
            l.items[j].op = "one" => item(c).to \notin l.items[j].from
    BY <1>1, <1>3 DEF ClaimsAreFinal
  <2>4. QED
    BY <2>2, <2>3 DEF ClaimIsFinal
<1>4. CASE item(c).op # "one"
  <2>1. put(D, item(c).to, FALSE) /\ item(c).to \in Values \cup {absent}
    BY <1>1, <1>2, <1>4 DEF Items
  <2>2. QED
    BY <2>1, PutKeepsClaims
<1>5. QED
  BY <1>3, <1>4

LEMMA NextClaims ==
    ASSUME ClaimsAreFinal
    PROVE  IInv /\ ClaimIsFinal /\ [Next]_vars => ClaimIsFinal'
<1> SUFFICES ASSUME IInv, ClaimIsFinal, [Next]_vars PROVE ClaimIsFinal'
  OBVIOUS
<1>1. ASSUME UNCHANGED <<docs, claims>>
      PROVE  ClaimIsFinal'
  BY <1>1 DEF ClaimIsFinal
<1>2. ASSUME unserved
      PROVE  ClaimIsFinal'
  BY <1>1, <1>2 DEF unserved
<1>3. ASSUME NEW c \in Clients, pc[c] # "idle", insertsWhole(c)
      PROVE  ClaimIsFinal'
  BY <1>3, ItemsOf, PutKeepsClaims DEF insertsWhole, Items
<1>4. ASSUME NEW c \in Clients, pc[c] \in insertStages, insertsOne(c)
      PROVE  ClaimIsFinal'
  <2>1. pc[c] # "idle"
    BY <1>4 DEF insertStages
  <2>2. QED
    BY <1>4, <2>1, ItemsOf, PutKeepsClaims DEF insertsOne, Items
<1>5. ASSUME NEW c \in Clients, pc[c] # "idle", upserts(c)
      PROVE  ClaimIsFinal'
  BY <1>5, ItemsOf, PutKeepsClaims DEF upserts, Items
<1>6. ASSUME NEW c \in Clients, pc[c] # "idle", modifies(c)
      PROVE  ClaimIsFinal'
  BY <1>6, ModifiesKeepsClaims
<1>7. ASSUME NEW c \in Clients, start(c)
      PROVE  ClaimIsFinal'
  BY <1>1, <1>7 DEF start
<1>8. ASSUME NEW c \in Clients, answered(c)
      PROVE  ClaimIsFinal'
  <2>1. CASE wholeWritten(c) \/ wholeRefused(c) \/ wholeLost(c)
    BY <1>2, <1>3, <2>1 DEF wholeWritten, wholeRefused, wholeLost
  <2>2. CASE insertWritten(c) \/ insertRefused(c) \/ insertLost(c)
    BY <1>2, <1>4, <2>2 DEF insertWritten, insertRefused, insertLost
  <2>3. CASE modified(c) \/ upserted(c) \/ modelLost(c)
    BY <1>2, <1>5, <1>6, <2>3 DEF modified, upserted, modelLost
  <2>4. CASE matchedNone(c) \/ matchesAnyRecord(c) \/ conflict(c) \/ refused(c)
    BY <1>2, <2>4 DEF matchedNone, matchesAnyRecord, conflict, refused
  <2>5. QED
    BY <1>8, <2>1, <2>2, <2>3, <2>4 DEF answered
<1>9. CASE UNCHANGED vars
  BY <1>1, <1>9 DEF vars
<1>10. QED
  BY <1>7, <1>8, <1>9 DEF Next

\* Of the callers that race to change the one document their filters match, one
\* is told that it did, when what one of them makes of a document is matched by
\* none of them: the filter that finds the record and the write that changes it
\* are one statement.
THEOREM Claimed ==
    ASSUME ClaimsAreFinal
    PROVE  Spec => []ClaimedOnce
<1>1. Init => ClaimIsFinal
  BY DEF Init, ClaimIsFinal
<1>2. IInv /\ ClaimIsFinal /\ [Next]_vars => ClaimIsFinal'
  BY NextClaims
<1>3. IInv /\ ClaimIsFinal => ClaimedOnce
  <2> SUFFICES ASSUME IInv, ClaimIsFinal, NEW d \in Ids PROVE claims[d] <= 1
    BY DEF ClaimedOnce
  <2>1. claims[d] \in Nat
    BY DEF IInv, TypeOK
  <2>2. QED
    BY <2>1 DEF ClaimIsFinal
<1>4. QED
  BY AlwaysIInv, <1>1, <1>2, <1>3, PTL DEF Spec

-----------------------------------------------------------------------------
(* What is told is what was done *)

\* An update upserts under an _id of its own making: its filter names none.
UpsertsGenerate ==
    \A k \in Calls : \A i \in DOMAIN k.items :
        k.items[i].upsert = "update" => ~pinned(k.items[i])

toldTruly(c, i) ==
    /\ told[c][i] = "created" => did[c][i] = <<"created">>
    /\ told[c][i] = "modified" => did[c][i] = <<"modified">>
    /\ told[c][i] \in {"nothing", "refused"} => did[c][i] = << >>
    /\ told[c][i] = "unsaid" /\ pc[c] = "done" => did[c][i] = << >>
    /\ Len(did[c][i]) <= 1

ToldTruly == \A c \in Clients, i \in Positions : toldTruly(c, i)

\* Nothing was done yet for what a call has still to come to, and the _id it may
\* generate for it is nobody's.
AheadUndone ==
    \A c \in Clients, i \in Positions : pc[c] # "done" /\ i >= at[c] => did[c][i] = << >>

GeneratedAhead ==
    \A c \in Clients, i \in Positions :
        pc[c] # "done" /\ i >= at[c] => docs[Generated[c][i]] = absent

LEMMA TruthfulIsToldTruly == IInv => (OutcomeIsTruthful <=> ToldTruly)
<1> SUFFICES ASSUME IInv PROVE OutcomeIsTruthful <=> ToldTruly
  OBVIOUS
<1> DEFINE truth(c, i) ==
              CASE told[c][i] \in {"created", "modified"}       -> did[c][i] = <<told[c][i]>>
                [] told[c][i] \in {"nothing", "refused"}        -> did[c][i] = << >>
                [] told[c][i] = "unsaid" /\ pc[c] = "done"      -> did[c][i] = << >>
                [] OTHER                                        -> Len(did[c][i]) <= 1
<1>1. ASSUME NEW c \in Clients, NEW i \in Positions
      PROVE  truth(c, i) <=> toldTruly(c, i)
  <2>1. told[c][i] \in {"unsaid", "created", "modified", "nothing", "refused", "unknown"}
    BY DEF IInv, TypeOK
  <2>2. Len(<<"created">>) = 1 /\ Len(<<"modified">>) = 1 /\ Len(<< >>) = 0
    OBVIOUS
  <2>3. CASE told[c][i] \in {"created", "modified"}
    <3>1. truth(c, i) <=> did[c][i] = <<told[c][i]>>
      BY <2>3
    <3> HIDE DEF truth
    <3>2. CASE told[c][i] = "created"
      <4>1. truth(c, i) <=> did[c][i] = <<"created">>
        BY <3>1, <3>2, Zenon
      <4>2. did[c][i] = <<"created">> => Len(did[c][i]) = 1
        BY <2>2, Zenon
      <4>3. ASSUME did[c][i] = <<"created">> PROVE toldTruly(c, i)
        <5>1. Len(did[c][i]) = 1
          BY <4>2, <4>3
        <5>2. QED
          BY <3>2, <4>3, <5>1 DEF toldTruly
      <4>4. ASSUME toldTruly(c, i) PROVE did[c][i] = <<"created">>
        BY <3>2, <4>4 DEF toldTruly
      <4>5. QED
        BY <4>1, <4>3, <4>4
    <3>3. CASE told[c][i] = "modified"
      <4>1. truth(c, i) <=> did[c][i] = <<"modified">>
        BY <3>1, <3>3, Zenon
      <4>2. did[c][i] = <<"modified">> => Len(did[c][i]) = 1
        BY <2>2, Zenon
      <4>3. ASSUME did[c][i] = <<"modified">> PROVE toldTruly(c, i)
        <5>1. Len(did[c][i]) = 1
          BY <4>2, <4>3
        <5>2. QED
          BY <3>3, <4>3, <5>1 DEF toldTruly
      <4>4. ASSUME toldTruly(c, i) PROVE did[c][i] = <<"modified">>
        BY <3>3, <4>4 DEF toldTruly
      <4>5. QED
        BY <4>1, <4>3, <4>4
    <3>4. QED
      BY <2>3, <3>2, <3>3
  <2>4. CASE told[c][i] \in {"nothing", "refused"}
    BY <2>2, <2>4 DEF toldTruly
  <2>5. CASE told[c][i] = "unsaid"
    BY <2>2, <2>5 DEF toldTruly
  <2>6. CASE told[c][i] = "unknown"
    BY <2>2, <2>6 DEF toldTruly
  <2>7. QED
    BY <2>1, <2>3, <2>4, <2>5, <2>6
<1> HIDE DEF truth
<1>2. OutcomeIsTruthful <=> \A c \in Clients, i \in Positions : truth(c, i)
  BY DEF OutcomeIsTruthful, truth
<1>3. QED
  BY <1>1, <1>2 DEF ToldTruly

\* What a step of c does for the document or model it is at: nothing, or one
\* thing, which is the result the caller is told unless the answer is lost.
doneFor(c, result) ==
    \/ UNCHANGED did /\ result \in {"nothing", "refused", "unknown"}
    \/ /\ \E effect \in {"created", "modified"} :
             /\ did'[c][at[c]] = Append(did[c][at[c]], effect)
             /\ result \in {effect, "unknown"}
       /\ \A j \in Positions : j # at[c] => did'[c][j] = did[c][j]
       /\ \A e \in Clients : e # c => did'[e] = did[e]

LEMMA Tells ==
    ASSUME IInv, ToldTruly, AheadUndone, NEW c \in Clients, pc[c] \notin {"idle", "done"},
           pc[c] = "whole" => Len(items(c)) < 2,
           NEW result \in Results, goesOn(c, result), UNCHANGED call, doneFor(c, result)
    PROVE  ToldTruly' /\ AheadUndone'
<1>1. /\ told'[c][at[c]] = result
      /\ \A i \in Positions : i # at[c] => told'[c][i] = told[c][i]
      /\ pc'[c] = "done" \/ at'[c] = at[c] + 1
      /\ \A e \in Clients : e # c => /\ pc'[e] = pc[e] /\ at'[e] = at[e]
                                     /\ told'[e] = told[e]
  BY GoesOn
<1>2. at[c] \in Nat /\ at[c] \in Positions
  BY ItemsOf
<1>3. /\ did[c][at[c]] = << >>
      /\ \A i \in Positions : told[c][i] = "unsaid" => did[c][i] = << >>
  BY <1>2 DEF AheadUndone, IInv, ToldPrefix
<1>4. /\ \A j \in Positions : j # at[c] => did'[c][j] = did[c][j]
      /\ \A e \in Clients : e # c => did'[e] = did[e]
  BY DEF doneFor
<1>5. ASSUME NEW i \in Positions, i = at[c]
      PROVE  toldTruly(c, i)'
  <2>1. CASE UNCHANGED did /\ result \in {"nothing", "refused", "unknown"}
    <3>1. did'[c][i] = << >> /\ told'[c][i] = result /\ Len(<< >>) = 0
      BY <1>1, <1>3, <1>5, <2>1
    <3>2. QED
      BY <2>1, <3>1 DEF toldTruly
  <2>2. ASSUME NEW effect \in {"created", "modified"},
               did'[c][at[c]] = Append(did[c][at[c]], effect), result \in {effect, "unknown"}
        PROVE  toldTruly(c, i)'
    <3>1. /\ effect = "created" => did'[c][i] = <<"created">>
          /\ effect = "modified" => did'[c][i] = <<"modified">>
      BY <1>3, <1>5, <2>2
    <3>2. Len(<<"created">>) = 1 /\ Len(<<"modified">>) = 1
      OBVIOUS
    <3>3. QED
      BY SMTT(30), <1>1, <1>5, <2>2, <3>1, <3>2 DEF toldTruly
  <2>3. QED
    BY <2>1, <2>2 DEF doneFor
<1>6. ASSUME NEW i \in Positions, i # at[c]
      PROVE  toldTruly(c, i)'
  BY <1>1, <1>3, <1>4, <1>6 DEF ToldTruly, toldTruly
<1>7. ASSUME NEW e \in Clients, NEW i \in Positions, e # c
      PROVE  toldTruly(e, i)'
  BY <1>1, <1>4, <1>7 DEF ToldTruly, toldTruly
<1>8. ToldTruly'
  BY <1>5, <1>6, <1>7 DEF ToldTruly
<1>9. AheadUndone'
  <2>1. ASSUME NEW i \in Positions, at'[c] = at[c] + 1, i >= at'[c]
        PROVE  i # at[c] /\ i >= at[c]
    BY <1>2, <2>1 DEF Positions
  <2>2. QED
    BY <1>1, <1>4, <2>1 DEF AheadUndone
<1>10. QED
  BY <1>8, <1>9

\* Another statement for the same document or model: what was told and done stands.
LEMMA TellsNothing ==
    ASSUME ToldTruly, AheadUndone, pc \in [Clients -> Stages],
           NEW c \in Clients, NEW stage, pc[c] # "done",
           stage # "done", pc' = [pc EXCEPT ![c] = stage], UNCHANGED <<at, told, did>>
    PROVE  ToldTruly' /\ AheadUndone'
BY DEF ToldTruly, toldTruly, AheadUndone

\* A batch that is answered whole.
LEMMA TellsAll ==
    ASSUME IInv, ToldTruly, AheadUndone, NEW c \in Clients, pc[c] \notin {"idle", "done"},
           NEW result \in Results,
           pc'[c] = "done",
           \A i \in Positions :
               told'[c][i] = IF i \in 1..Len(items(c)) THEN result ELSE told[c][i],
           \A e \in Clients : e # c => pc'[e] = pc[e] /\ told'[e] = told[e] /\ did'[e] = did[e],
           UNCHANGED at,
           \A i \in Positions :
               IF i \in 1..Len(items(c))
               THEN \/ result = "unknown" /\ Len(did'[c][i]) <= 1
                    \/ result = "created" /\ did'[c][i] = <<"created">>
               ELSE did'[c][i] = did[c][i]
    PROVE  ToldTruly' /\ AheadUndone'
<1>1. \A i \in Positions : told[c][i] = "unsaid" => did[c][i] = << >>
  BY DEF AheadUndone, IInv, ToldPrefix
<1>2. Len(<<"created">>) = 1
  OBVIOUS
<1>3. ASSUME NEW i \in Positions
      PROVE  toldTruly(c, i)'
  <2>1. CASE i \in 1..Len(items(c))
    <3>1. told'[c][i] = result
      BY <2>1
    <3>2. CASE result = "unknown" /\ Len(did'[c][i]) <= 1
      BY <3>1, <3>2 DEF toldTruly
    <3>3. CASE result = "created" /\ did'[c][i] = <<"created">>
      BY <1>2, <3>1, <3>3 DEF toldTruly
    <3>4. QED
      BY <2>1, <3>2, <3>3
  <2>2. CASE i \notin 1..Len(items(c))
    BY <1>1, <2>2 DEF ToldTruly, toldTruly
  <2>3. QED
    BY <2>1, <2>2
<1>4. ASSUME NEW e \in Clients, NEW i \in Positions, e # c
      PROVE  toldTruly(e, i)'
  BY <1>4 DEF ToldTruly, toldTruly
<1>5. AheadUndone'
  BY DEF AheadUndone
<1>6. QED
  BY <1>3, <1>4, <1>5 DEF ToldTruly

\* A whole batch inserted had nothing of it done before.
LEMMA WholeDone ==
    ASSUME IInv, AheadUndone, NEW c \in Clients, pc[c] = "whole", insertsWhole(c)
    PROVE  /\ \A i \in Positions :
                 IF i \in 1..Len(items(c)) THEN did'[c][i] = <<"created">>
                                           ELSE did'[c][i] = did[c][i]
           /\ \A e \in Clients : e # c => did'[e] = did[e]
<1>1. /\ DOMAIN items(c) = 1..Len(items(c))
      /\ at[c] = 1 /\ \A i \in Positions : i >= at[c]
  BY ItemsOf DEF IInv, StagesOK, stageOK, Positions
<1>2. \A i \in Positions : did[c][i] = << >>
  BY <1>1 DEF AheadUndone
<1>3. did' = [did EXCEPT ![c] = [i \in Positions |->
                  IF i \in DOMAIN items(c) THEN Append(did[c][i], "created") ELSE did[c][i]]]
  BY DEF insertsWhole
<1>4. \A i \in Positions : Append(did[c][i], "created") = <<"created">>
  <2>1. Append(<< >>, "created") = <<"created">>
    OBVIOUS
  <2>2. QED
    BY <1>2, <2>1, Zenon
<1>5. /\ did'[c] = [i \in Positions |->
                  IF i \in DOMAIN items(c) THEN Append(did[c][i], "created") ELSE did[c][i]]
      /\ \A e \in Clients : e # c => did'[e] = did[e]
  BY <1>3 DEF IInv, TypeOK
<1>6. QED
  BY <1>1, <1>4, <1>5

LEMMA WholeIsTrue ==
    ASSUME ~LosesBatches, IInv, ToldTruly, AheadUndone, NEW c \in Clients,
           wholeWritten(c) \/ wholeRefused(c) \/ wholeLost(c)
    PROVE  ToldTruly' /\ AheadUndone'
<1>1. pc[c] = "whole" /\ pc[c] \notin {"idle", "done"} /\ UNCHANGED call
  BY DEF wholeWritten, wholeRefused, wholeLost
<1>2. /\ Len(items(c)) \in Nat /\ Len(items(c)) \in Positions
      /\ DOMAIN items(c) = 1..Len(items(c)) /\ at[c] = 1 /\ at[c] \in Positions
  BY <1>1, ItemsOf DEF IInv, StagesOK, stageOK
<1>3. CASE wholeWritten(c)
  <2>1. /\ pc'[c] = "done"
        /\ \A i \in Positions :
              told'[c][i] = IF i \in 1..Len(items(c)) THEN "created" ELSE told[c][i]
        /\ \A e \in Clients : e # c => pc'[e] = pc[e] /\ told'[e] = told[e]
    BY <1>1, <1>3, AllTold DEF wholeWritten, Results
  <2>2. /\ \A i \in Positions :
                 IF i \in 1..Len(items(c)) THEN did'[c][i] = <<"created">>
                                           ELSE did'[c][i] = did[c][i]
        /\ \A e \in Clients : e # c => did'[e] = did[e]
        /\ UNCHANGED at
    BY <1>1, <1>3, WholeDone DEF wholeWritten
  <2>3. "created" \in Results
    BY DEF Results
  <2>4. \A i \in Positions :
            IF i \in 1..Len(items(c))
            THEN \/ "created" = "unknown" /\ Len(did'[c][i]) <= 1
                 \/ "created" = "created" /\ did'[c][i] = <<"created">>
            ELSE did'[c][i] = did[c][i]
    BY <2>2
  <2>5. QED
    BY <1>1, <2>1, <2>2, <2>3, <2>4, TellsAll
<1>4. ASSUME NEW error \in {"refused", "unknown"}, reissues(c, error), UNCHANGED did
      PROVE  ToldTruly' /\ AheadUndone'
  <2>1. CASE Len(items(c)) < 2
    BY <1>1, <1>4, <2>1, Tells DEF reissues, Results, doneFor
  <2>2. CASE ~(Len(items(c)) < 2)
    <3>1. PICK stage \in {"oneByOne", "independently"} :
              issues(c, stage) /\ UNCHANGED <<at, told>>
      BY <1>4, <2>2 DEF reissues
    <3>2. stage # "done" /\ pc' = [pc EXCEPT ![c] = stage]
      BY <3>1 DEF issues
    <3>3. pc \in [Clients -> Stages]
      BY DEF IInv, TypeOK
    <3>4. QED
      BY <1>1, <1>4, <3>1, <3>2, <3>3, TellsNothing
  <2>3. QED
    BY <2>1, <2>2
<1>5. CASE wholeRefused(c)
  BY <1>4, <1>5 DEF wholeRefused
<1>6. CASE wholeLost(c)
  <2>1. Len(items(c)) < 2 /\ reissues(c, "unknown")
    BY <1>6 DEF wholeLost
  <2>2. CASE UNCHANGED did
    BY <1>4, <2>1, <2>2
  <2>3. CASE insertsWhole(c)
    <3>1. Len(items(c)) = 1
      BY <1>2, <2>1 DEF Positions
    <3>2. /\ at[c] \in 1..Len(items(c))
          /\ \A j \in Positions : j # at[c] => j \notin 1..Len(items(c))
      BY <1>2, <3>1 DEF Positions
    <3>3. /\ did'[c][at[c]] = <<"created">>
          /\ \A j \in Positions : j # at[c] => did'[c][j] = did[c][j]
          /\ \A e \in Clients : e # c => did'[e] = did[e]
      BY <1>1, <1>2, <2>3, <3>2, WholeDone
    <3>4. did[c][at[c]] = << >>
      BY <1>1, <1>2 DEF AheadUndone
    <3>5. did'[c][at[c]] = Append(did[c][at[c]], "created")
      BY <3>3, <3>4
    <3>6. doneFor(c, "unknown")
      BY <3>3, <3>5 DEF doneFor
    <3>7. goesOn(c, "unknown")
      BY <2>1 DEF reissues
    <3>8. QED
      BY <1>1, <2>1, <3>6, <3>7, Tells DEF Results
  <2>4. QED
    BY <1>6, <2>2, <2>3 DEF wholeLost
<1>7. QED
  BY <1>3, <1>5, <1>6

LEMMA InsertIsTrue ==
    ASSUME IInv, ToldTruly, AheadUndone, NEW c \in Clients,
           insertWritten(c) \/ insertRefused(c) \/ insertLost(c)
    PROVE  ToldTruly' /\ AheadUndone'
<1>1. /\ pc[c] \in insertStages /\ pc[c] \notin {"idle", "done", "whole"}
      /\ UNCHANGED call
  BY DEF insertWritten, insertRefused, insertLost, insertStages
<1>2. ASSUME insertsOne(c)
      PROVE  doneFor(c, "created") /\ doneFor(c, "unknown")
  BY <1>1, <1>2, InsertsOne DEF doneFor
<1>3. ASSUME UNCHANGED did
      PROVE  doneFor(c, "refused") /\ doneFor(c, "unknown")
  BY <1>3 DEF doneFor
<1>4. CASE insertWritten(c)
  BY <1>1, <1>2, <1>4, Tells DEF insertWritten, Results
<1>5. CASE insertRefused(c)
  BY <1>1, <1>3, <1>5, Tells DEF insertRefused, Results
<1>6. CASE insertLost(c) /\ pc[c] # "independently"
  <2>1. goesOn(c, "unknown") /\ doneFor(c, "unknown")
    BY <1>2, <1>3, <1>6 DEF insertLost
  <2>2. QED
    BY <1>1, <2>1, Tells DEF Results
<1>7. CASE insertLost(c) /\ pc[c] = "independently"
  <2>1. ~call[c].ordered
    BY <1>7 DEF IInv, StagesOK, stageOK
  <2>2. /\ pc'[c] = "done" /\ UNCHANGED at
        /\ \A i \in Positions :
              told'[c][i] = IF i \in 1..Len(items(c)) THEN "unknown" ELSE told[c][i]
        /\ \A e \in Clients : e # c => pc'[e] = pc[e] /\ told'[e] = told[e]
    BY <1>1, <1>7, <2>1, AllTold DEF insertLost, Results
  <2>3. at[c] \in 1..Len(items(c)) /\ at[c] \in Positions /\ at[c] \in Nat
    BY <1>1, ItemsOf
  <2>4. did[c][at[c]] = << >> /\ \A i \in Positions : Len(did[c][i]) <= 1
    BY <1>1, <2>3 DEF AheadUndone, ToldTruly, toldTruly
  <2>5. /\ \A j \in Positions : j # at[c] => did'[c][j] = did[c][j]
        /\ \A e \in Clients : e # c => did'[e] = did[e]
        /\ Len(did'[c][at[c]]) <= 1
    <3>1. CASE UNCHANGED did
      BY <2>3, <2>4, <3>1
    <3>2. CASE insertsOne(c)
      <4>1. /\ did'[c][at[c]] = Append(<< >>, "created")
            /\ \A j \in Positions : j # at[c] => did'[c][j] = did[c][j]
            /\ \A e \in Clients : e # c => did'[e] = did[e]
        BY <1>1, <2>4, <3>2, InsertsOne
      <4>2. did'[c][at[c]] = <<"created">> /\ Len(<<"created">>) = 1
        BY <4>1
      <4>3. QED
        BY <4>1, <4>2
    <3>3. QED
      BY <1>7, <3>1, <3>2 DEF insertLost
  <2>6. \A i \in Positions :
            IF i \in 1..Len(items(c))
            THEN \/ "unknown" = "unknown" /\ Len(did'[c][i]) <= 1
                 \/ "unknown" = "created" /\ did'[c][i] = <<"created">>
            ELSE did'[c][i] = did[c][i]
    BY <2>3, <2>4, <2>5
  <2>7. "unknown" \in Results
    BY DEF Results
  <2>8. QED
    BY <1>1, <2>2, <2>5, <2>6, <2>7, TellsAll
<1>8. QED
  BY <1>4, <1>5, <1>6, <1>7

LEMMA ModelIsTrue ==
    ASSUME UpsertsGenerate, IInv, ToldTruly, AheadUndone, GeneratedAhead,
           NEW c \in Clients,
           \/ modified(c) \/ matchedNone(c) \/ matchesAnyRecord(c)
           \/ conflict(c) \/ refused(c) \/ upserted(c) \/ modelLost(c)
    PROVE  ToldTruly' /\ AheadUndone'
<1>1. /\ pc[c] \in modelStages /\ pc[c] \notin {"idle", "done", "whole"}
      /\ pc[c] \in Stages /\ pc \in [Clients -> Stages] /\ UNCHANGED call
  BY DEF modified, matchedNone, matchesAnyRecord, conflict, refused, upserted, modelLost,
         modelStages, IInv, TypeOK
<1>2. ASSUME UNCHANGED did
      PROVE  doneFor(c, "refused") /\ doneFor(c, "nothing") /\ doneFor(c, "unknown")
  BY <1>2 DEF doneFor
<1>3. ASSUME modifies(c)
      PROVE  doneFor(c, "modified") /\ doneFor(c, "unknown")
  BY <1>1, <1>3, Modifies DEF doneFor
<1>4. ASSUME upserts(c)
      PROVE  doneFor(c, "unknown") /\ (pc[c] = "upserting" => doneFor(c, "created"))
  <2>1. PICK effect \in {"created", "modified"} :
            /\ effect = "created" <=> docs[upsertedId(c)] = absent
            /\ did'[c][at[c]] = Append(did[c][at[c]], effect)
    BY <1>1, <1>4, UpsertsOne
  <2>2. /\ \A j \in Positions : j # at[c] => did'[c][j] = did[c][j]
        /\ \A e \in Clients : e # c => did'[e] = did[e]
    BY <1>1, <1>4, UpsertsOne
  <2>3. doneFor(c, "unknown")
    BY <2>1, <2>2 DEF doneFor
  <2>4. ASSUME pc[c] = "upserting"
        PROVE  docs[upsertedId(c)] = absent
    <3>1. /\ item(c) \in Items /\ item(c).upsert # "no" /\ call[c] \in Calls
          /\ at[c] \in DOMAIN call[c].items /\ item(c) = call[c].items[at[c]]
          /\ at[c] \in Positions /\ at[c] >= at[c]
      BY <1>1, <2>4, ItemsOf DEF IInv, StagesOK, stageOK, item, items
    <3>2. CASE item(c).upsert = "replacement"
      BY <1>4, <3>2 DEF upserts
    <3>3. CASE item(c).upsert = "update"
      <4>1. upsertedId(c) = Generated[c][at[c]]
        BY <3>1, <3>3 DEF UpsertsGenerate, upsertedId
      <4>2. QED
        BY <1>1, <3>1, <4>1 DEF GeneratedAhead
    <3>4. QED
      BY <3>1, <3>2, <3>3 DEF Items, Upserts
  <2>5. QED
    BY <2>1, <2>2, <2>3, <2>4 DEF doneFor
<1>5. ASSUME NEW stage \in Stages \ {"done"}, pc' = [pc EXCEPT ![c] = stage],
             UNCHANGED <<at, told, did>>
      PROVE  ToldTruly' /\ AheadUndone'
  BY <1>1, <1>5, TellsNothing
<1>6. CASE modified(c)
  BY <1>1, <1>3, <1>6, Tells DEF modified, Results
<1>7. CASE matchedNone(c)
  <2>1. CASE item(c).op = "one" /\ item(c).upsert # "no"
    BY <1>5, <1>7, <2>1 DEF matchedNone, issues, Stages
  <2>2. CASE ~(item(c).op = "one" /\ item(c).upsert # "no")
    BY <1>1, <1>2, <1>7, <2>2, Tells DEF matchedNone, Results
  <2>3. QED
    BY <2>1, <2>2
<1>8. CASE matchesAnyRecord(c)
  <2>1. PICK stage \in {"modifying", "upserting"} : issues(c, stage)
    BY <1>8 DEF matchesAnyRecord
  <2>2. stage \in Stages \ {"done"} /\ pc' = [pc EXCEPT ![c] = stage]
    BY <2>1 DEF issues, Stages
  <2>3. QED
    BY <1>5, <1>8, <2>2 DEF matchesAnyRecord
<1>9. CASE conflict(c)
  <2>1. CASE retries(c) /\ attempt[c] < CONFLICT_ATTEMPTS
    <3>1. UNCHANGED <<pc, at, told, did>>
      BY <1>9, <2>1 DEF conflict
    <3>2. QED
      BY <3>1 DEF ToldTruly, toldTruly, AheadUndone
  <2>2. CASE ~(retries(c) /\ attempt[c] < CONFLICT_ATTEMPTS)
    BY <1>1, <1>2, <1>9, <2>2, Tells DEF conflict, Results
  <2>3. QED
    BY <2>1, <2>2
<1>10. CASE refused(c)
  BY <1>1, <1>2, <1>10, Tells DEF refused, Results
<1>11. CASE upserted(c)
  BY <1>1, <1>4, <1>11, Tells DEF upserted, Results
<1>12. CASE modelLost(c)
  <2>1. goesOn(c, "unknown") /\ doneFor(c, "unknown")
    BY <1>2, <1>3, <1>4, <1>12 DEF modelLost
  <2>2. QED
    BY <1>1, <2>1, Tells DEF Results
<1>13. QED
  BY <1>6, <1>7, <1>8, <1>9, <1>10, <1>11, <1>12

-----------------------------------------------------------------------------
(* A generated _id is nobody's until it is used *)

ahead(c, i) == pc[c] # "done" /\ i >= at[c]

\* A step of c takes it on to the next document or model, or to the end.
movesOn(c)  == pc'[c] = "done" \/ (pc[c] # "done" /\ at'[c] = at[c] + 1)
staysThere(c) == UNCHANGED at /\ pc[c] # "done"
isOf(c)     == \A e \in Clients : e # c => pc'[e] = pc[e] /\ at'[e] = at[e]

LEMMA WhatIsAhead ==
    ASSUME NEW c \in Clients, at[c] \in Positions, isOf(c), movesOn(c) \/ staysThere(c),
           NEW e \in Clients, NEW i \in Positions, ahead(e, i)'
    PROVE  /\ ahead(e, i)
           /\ movesOn(c) /\ e = c => i # at[c]
<1>1. CASE e # c
  BY <1>1 DEF isOf, ahead
<1>2. CASE e = c
  <2>1. pc'[c] # "done" /\ i >= at'[c]
    BY <1>2 DEF ahead
  <2>2. CASE movesOn(c)
    BY <1>2, <2>1, <2>2 DEF movesOn, ahead, Positions
  <2>3. CASE staysThere(c) /\ ~movesOn(c)
    BY <1>2, <2>1, <2>3 DEF staysThere, ahead
  <2>4. QED
    BY <2>2, <2>3
<1>3. QED
  BY <1>1, <1>2

\* Nothing is put under an _id that is still to be generated.
LEMMA Spares ==
    ASSUME IInv, GeneratedAhead, NEW c \in Clients, at[c] \in Positions, isOf(c),
           movesOn(c) \/ staysThere(c), NEW D, NEW value, NEW isClaim,
           put(D, value, isClaim),
           \A e \in Clients, i \in Positions :
               ahead(e, i) /\ (movesOn(c) /\ e = c => i # at[c]) => Generated[e][i] \notin D
    PROVE  GeneratedAhead'
<1>1. \A e \in Clients, i \in Positions : Generated[e][i] \in Ids
  BY GeneratedAreNew
<1>2. \A d \in Ids : d \notin D => docs'[d] = docs[d]
  BY DEF put
<1>3. ASSUME NEW e \in Clients, NEW i \in Positions, ahead(e, i)'
      PROVE  docs'[Generated[e][i]] = absent
  <2>1. ahead(e, i) /\ (movesOn(c) /\ e = c => i # at[c])
    BY <1>3, WhatIsAhead
  <2>2. Generated[e][i] \notin D
    BY <2>1
  <2>3. docs[Generated[e][i]] = absent
    BY <2>1 DEF GeneratedAhead, ahead
  <2>4. QED
    BY <1>1, <1>2, <2>2, <2>3
<1>4. QED
  BY <1>3 DEF GeneratedAhead, ahead

\* Nor is anything changed by a step that puts nothing.
LEMMA SparesAll ==
    ASSUME GeneratedAhead, NEW c \in Clients, at[c] \in Positions, isOf(c),
           movesOn(c) \/ staysThere(c), UNCHANGED docs
    PROVE  GeneratedAhead'
<1>1. ASSUME NEW e \in Clients, NEW i \in Positions, ahead(e, i)'
      PROVE  docs[Generated[e][i]] = absent
  BY <1>1, WhatIsAhead DEF GeneratedAhead, ahead
<1>2. QED
  BY <1>1 DEF GeneratedAhead, ahead

\* What is inserted has an _id of its own.
LEMMA InsertsSpare ==
    ASSUME IInv, GeneratedAhead, NEW c \in Clients, pc[c] # "idle", isOf(c),
           movesOn(c) \/ staysThere(c),
           \/ pc[c] = "whole" /\ insertsWhole(c)
           \/ pc[c] \in insertStages /\ insertsOne(c)
    PROVE  GeneratedAhead'
<1>1. /\ at[c] \in Positions /\ call[c] \in Calls
      /\ at[c] \in DOMAIN call[c].items /\ item(c) = call[c].items[at[c]]
  BY ItemsOf DEF item, items
<1>2. CASE pc[c] = "whole" /\ insertsWhole(c)
  <2> DEFINE D == UNION {items(c)[i].ids : i \in DOMAIN items(c)}
  <2>1. put(D, item(c).to, FALSE)
    BY <1>2 DEF insertsWhole
  <2>2. \A i \in DOMAIN call[c].items : call[c].items[i].op = "insert"
    BY <1>1, <1>2, CallsAreBatches DEF IInv, StagesOK, stageOK
  <2>3. \A i \in DOMAIN call[c].items : \A e \in Clients, j \in Positions :
            Generated[e][j] \notin call[c].items[i].ids
    BY <1>1, <2>2, GeneratedAreNew
  <2>4. \A e \in Clients, j \in Positions : Generated[e][j] \notin D
    BY <2>3 DEF items
  <2> HIDE DEF D
  <2>5. QED
    BY <1>1, <2>1, <2>4, Spares
<1>3. CASE pc[c] \in insertStages /\ insertsOne(c)
  <2>1. put({theId(item(c))}, item(c).to, FALSE) /\ item(c).ids = {theId(item(c))}
    BY <1>3, InsertsOne
  <2>2. item(c).op = "insert"
    BY <1>3 DEF IInv, StagesOK, stageOK
  <2>3. \A e \in Clients, j \in Positions : Generated[e][j] \notin item(c).ids
    BY <1>1, <2>2, GeneratedAreNew
  <2>4. \A e \in Clients, j \in Positions : Generated[e][j] \notin {theId(item(c))}
    BY <2>1, <2>3
  <2>5. QED
    BY <1>1, <2>1, <2>4, Spares
<1>4. QED
  BY <1>2, <1>3

\* A document that is not there yet is not matched.
LEMMA ModifiesSpares ==
    ASSUME IInv, GeneratedAhead, NEW c \in Clients, pc[c] # "idle", isOf(c),
           movesOn(c) \/ staysThere(c), modifies(c)
    PROVE  GeneratedAhead'
<1>1. at[c] \in Positions /\ item(c) \in Items
  BY ItemsOf
<1>2. PICK D \in SUBSET Ids :
          /\ \A d \in D : docs[d] \in item(c).from
          /\ put(D, item(c).to, item(c).op = "one")
  BY Modifies
<1>3. \A d \in D : docs[d] # absent
  BY <1>1, <1>2, AbsentIsNoValue DEF Items
<1>4. \A e \in Clients, i \in Positions : ahead(e, i) => Generated[e][i] \notin D
  BY <1>3 DEF GeneratedAhead, ahead
<1>5. QED
  BY <1>1, <1>2, <1>4, Spares

\* An _id is generated once, and then it is used.
LEMMA UpsertsSpares ==
    ASSUME IInv, GeneratedAhead, NEW c \in Clients, pc[c] # "idle", isOf(c),
           movesOn(c), upserts(c)
    PROVE  GeneratedAhead'
<1>1. /\ at[c] \in Positions /\ item(c) \in Items /\ call[c] \in Calls
      /\ at[c] \in DOMAIN call[c].items /\ item(c) = call[c].items[at[c]]
  BY ItemsOf DEF item, items
<1>2. put({upsertedId(c)}, item(c).to, FALSE)
  BY DEF upserts
<1>3. ASSUME NEW e \in Clients, NEW i \in Positions, e = c => i # at[c]
      PROVE  Generated[e][i] # upsertedId(c)
  <2>1. CASE pinned(item(c))
    <3>1. upsertedId(c) \in item(c).ids
      BY <1>1, <2>1, NamedIsId, PinnedIsNamed DEF upsertedId
    <3>2. Generated[e][i] \notin item(c).ids
      BY <1>1, <2>1, GeneratedAreNew
    <3>3. QED
      BY <3>1, <3>2
  <2>2. CASE ~pinned(item(c))
    BY <1>1, <1>3, <2>2, GeneratedAreNew DEF upsertedId
  <2>3. QED
    BY <2>1, <2>2
<1>4. \A e \in Clients, i \in Positions :
          ahead(e, i) /\ (movesOn(c) /\ e = c => i # at[c]) =>
              Generated[e][i] \notin {upsertedId(c)}
  BY <1>3
<1>5. QED
  BY <1>1, <1>2, <1>4, Spares

LEMMA NextGenerated ==
    ASSUME IInv, GeneratedAhead, [Next]_vars
    PROVE  GeneratedAhead'
<1>1. ASSUME NEW c \in Clients, pc[c] # "idle"
      PROVE  at[c] \in Positions
  BY <1>1, ItemsOf
<1>2. ASSUME NEW c \in Clients, pc[c] \notin {"idle", "done", "whole"}, UNCHANGED call,
             NEW result \in Results, goesOn(c, result)
      PROVE  movesOn(c) /\ isOf(c)
  BY <1>2, GoesOn DEF movesOn, isOf
<1>3. ASSUME NEW c \in Clients, start(c)
      PROVE  GeneratedAhead'
  <2>1. pc[c] = "idle" /\ UNCHANGED <<docs, at>>
    BY <1>3 DEF start
  <2>2. \A e \in Clients : e # c => pc'[e] = pc[e]
    BY <1>3, Starts
  <2>3. QED
    BY <2>1, <2>2 DEF GeneratedAhead
<1>4. ASSUME NEW c \in Clients, wholeWritten(c) \/ wholeRefused(c) \/ wholeLost(c)
      PROVE  GeneratedAhead'
  <2>1. pc[c] = "whole" /\ pc[c] \notin {"idle", "done"} /\ UNCHANGED call
    BY <1>4 DEF wholeWritten, wholeRefused, wholeLost
  <2>2. isOf(c) /\ (movesOn(c) \/ staysThere(c))
    <3>1. CASE wholeWritten(c)
      BY <2>1, <3>1 DEF wholeWritten, issues, IInv, TypeOK, isOf, movesOn
    <3>2. CASE wholeRefused(c) \/ wholeLost(c)
      <4>1. PICK error \in {"refused", "unknown"} : reissues(c, error)
        BY <3>2 DEF wholeRefused, wholeLost
      <4>2. QED
        BY <2>1, <4>1, Reissues DEF isOf, movesOn, staysThere
    <3>3. QED
      BY <1>4, <3>1, <3>2
  <2>3. insertsWhole(c) \/ UNCHANGED docs
    BY <1>4 DEF wholeWritten, wholeRefused, wholeLost, unserved
  <2>4. QED
    BY <1>1, <2>1, <2>2, <2>3, InsertsSpare, SparesAll
<1>5. ASSUME NEW c \in Clients, insertWritten(c) \/ insertRefused(c) \/ insertLost(c)
      PROVE  GeneratedAhead'
  <2>1. /\ pc[c] \in insertStages /\ pc[c] \notin {"idle", "done", "whole"}
        /\ UNCHANGED call
    BY <1>5 DEF insertWritten, insertRefused, insertLost, insertStages
  <2>2. isOf(c) /\ movesOn(c)
    <3>1. CASE \E result \in Results : goesOn(c, result)
      BY <1>2, <2>1, <3>1
    <3>2. CASE issues(c, "done") /\ UNCHANGED at
      BY <3>2 DEF issues, IInv, TypeOK, isOf, movesOn
    <3>3. QED
      BY <1>5, <3>1, <3>2 DEF insertWritten, insertRefused, insertLost, Results
  <2>3. insertsOne(c) \/ UNCHANGED docs
    BY <1>5 DEF insertWritten, insertRefused, insertLost, unserved
  <2>4. QED
    BY <1>1, <2>1, <2>2, <2>3, InsertsSpare, SparesAll
<1>6. ASSUME NEW c \in Clients, modified(c) \/ upserted(c) \/ modelLost(c)
      PROVE  GeneratedAhead'
  <2>1. pc[c] \notin {"idle", "done", "whole"} /\ UNCHANGED call
    BY <1>6 DEF modified, upserted, modelLost
  <2>2. isOf(c) /\ movesOn(c)
    BY <1>2, <1>6, <2>1 DEF modified, upserted, modelLost, Results
  <2>3. modifies(c) \/ upserts(c) \/ UNCHANGED docs
    BY <1>6 DEF modified, upserted, modelLost, unserved
  <2>4. QED
    BY <1>1, <2>1, <2>2, <2>3, ModifiesSpares, UpsertsSpares, SparesAll
<1>7. ASSUME NEW c \in Clients,
             matchedNone(c) \/ matchesAnyRecord(c) \/ conflict(c) \/ refused(c)
      PROVE  GeneratedAhead'
  <2>1. pc[c] \notin {"idle", "done", "whole"} /\ UNCHANGED <<call, docs>>
    BY <1>7 DEF matchedNone, matchesAnyRecord, conflict, refused, unserved
  <2>2. CASE \E result \in Results : goesOn(c, result)
    BY <1>1, <1>2, <2>1, <2>2, SparesAll
  <2>3. CASE UNCHANGED at /\ isOf(c)
    BY <1>1, <2>1, <2>3, SparesAll DEF staysThere
  <2>4. QED
    BY <1>7, <2>2, <2>3
       DEF matchedNone, matchesAnyRecord, conflict, refused, issues, Results,
           isOf, IInv, TypeOK
<1>8. CASE UNCHANGED vars
  BY <1>8 DEF vars, GeneratedAhead
<1>9. QED
  BY <1>3, <1>4, <1>5, <1>6, <1>7, <1>8 DEF Next, answered

\* What a caller is told of each document or model is what the server did for
\* it, and that was done once at most, however answers are lost and statements
\* refused or sent again: when the answer to a batch of several is not lost, and
\* no update upserts under an _id its filter names. The runs WritesBatch and
\* WritesUpsert show what happens otherwise.
THEOREM Truthful ==
    ASSUME ~LosesBatches, UpsertsGenerate
    PROVE  Spec => []OutcomeIsTruthful
<1> DEFINE TInv == ToldTruly /\ AheadUndone /\ GeneratedAhead
<1>1. Init => TInv
  <2> SUFFICES ASSUME Init PROVE TInv
    OBVIOUS
  <2>1. Len(<< >>) <= 1
    OBVIOUS
  <2>2. \A c \in Clients, i \in Positions :
            told[c][i] = "unsaid" /\ did[c][i] = << >> /\ docs[Generated[c][i]] = absent
    BY DEF Init
  <2>3. QED
    BY <2>1, <2>2 DEF ToldTruly, toldTruly, AheadUndone, GeneratedAhead
<1>2. IInv /\ TInv /\ [Next]_vars => TInv'
  <2> SUFFICES ASSUME IInv, TInv, [Next]_vars PROVE ToldTruly' /\ AheadUndone'
    BY NextGenerated
  <2>1. ASSUME NEW c \in Clients, start(c)
        PROVE  ToldTruly' /\ AheadUndone'
    <3>1. /\ pc[c] = "idle" /\ UNCHANGED <<at, told, did>>
          /\ pc'[c] # "done" /\ \A e \in Clients : e # c => pc'[e] = pc[e]
      BY <2>1, Starts DEF start
    <3>2. QED
      BY <3>1 DEF ToldTruly, toldTruly, AheadUndone
  <2>2. ASSUME NEW c \in Clients, answered(c)
        PROVE  ToldTruly' /\ AheadUndone'
    BY <2>2, WholeIsTrue, InsertIsTrue, ModelIsTrue DEF answered
  <2>3. CASE UNCHANGED vars
    BY <2>3 DEF vars, ToldTruly, toldTruly, AheadUndone
  <2>4. QED
    BY <2>1, <2>2, <2>3 DEF Next
<1>3. IInv /\ TInv => OutcomeIsTruthful
  BY TruthfulIsToldTruly
<1> HIDE DEF TInv
<1>4. QED
  BY AlwaysIInv, <1>1, <1>2, <1>3, PTL DEF Spec
=============================================================================
