---------------------------- MODULE CursorsProofs ----------------------------
(***************************************************************************)
(* What a cursor hands out and leaves behind, for any number of rows,      *)
(* streams and collections, when its reads are awaited one after another:  *)
(* every row once and in order, and no query left streaming.               *)
(***************************************************************************)
EXTENDS MCCursors, TLAPS

-----------------------------------------------------------------------------
(* The listing cursors: a listing is fetched once and walked *)

\* The same for the listings: one flow, and a listing asked for when there is none.
ListOneFlow == \A f, g \in Flows : listFlow[f] # L!Idle /\ listFlow[g] # L!Idle => f = g

ListReads ==
    \A f \in Flows :
        /\ listFlow[f] # L!Idle => listFlow[f].at # "idle"
        /\ listFlow[f].at = "running" =>
              listing = L!null /\ listIndex = 0 /\ since <= listFlow[f].asked
        /\ listFlow[f].at = "executed" => listing # L!null \/ listClosed
        /\ listFlow[f].at = "body" => listFlow[f].rows # L!null /\ listFlow[f].row \in 1..listFlow[f].rows[1]

ListAtRow ==
    /\ Len(listGot) = listIndex
    /\ \A i \in 1..Len(listGot) : listGot[i] = i
    /\ listing # L!null => since <= listing[1] /\ listIndex <= listing[1]
    /\ listing = L!null /\ ~listClosed => listIndex = 0
    /\ since <= catalogue

ListEnds ==
    \A f \in Flows : listTold[f] \in {"end", "no"} =>
        /\ listing = L!null => listClosed
        /\ listing # L!null => listIndex = listing[1]
        /\ \A g \in Flows : listFlow[g].at # "running"

ListInv ==
    /\ L!TypeOK
    /\ ListOneFlow
    /\ ListReads
    /\ ListAtRow
    /\ ListEnds

ListKinds == {"idle", "running", "executed", "body"}
ListAnswers == {"nothing", "row", "end", "yes", "no", "left", "whole",
                "reason", "exhausted", "error", "TypeError"}

\* While a flow is inside a call no other is.
ListAlone(f) == \A g \in Flows : g # f => listFlow[g] = L!Idle

LEMMA ListInside ==
    ASSUME ListInv, NEW f \in Flows, listFlow[f] # L!Idle
    PROVE  ListAlone(f)
BY DEF ListInv, ListOneFlow, ListAlone

LEMMA ListCalls ==
    ASSUME ~SharesCursor, NEW f \in Flows, L!mayCall(f)
    PROVE  ListAlone(f) /\ listFlow[f] = L!Idle
BY DEF L!mayCall, ListAlone

LEMMA ListIdle ==
    /\ L!Idle.at = "idle"
    /\ L!Idle \in [at: {"idle", "running", "executed", "body"}, op: L!Reads \cup {"none"},
                   asked: L!Listings, rows: {L!null} \cup {<<n>> : n \in L!Listings},
                   row: L!Listings]
BY CatalogueIsNat DEF L!Idle, L!Listings

\* There is a listing or there is none.
LEMMA ListingIs ==
    ASSUME NEW x \in {L!null} \cup {<<n>> : n \in L!Listings}, x # L!null
    PROVE  \E n \in L!Listings : x = <<n>> /\ x[1] = n
OBVIOUS

\* A call settles, and says it is at an end only where it is.
LEMMA ListReturns ==
    ASSUME ListInv, NEW f \in Flows, NEW answer \in ListAnswers, ListAlone(f),
           L!returns(f, answer),
           UNCHANGED <<catalogue, listAborted, listClosed, listing, since>>,
           \/ UNCHANGED <<listIndex, listGot>>
           \/ /\ listing # L!null /\ listIndex < listing[1] /\ answer = "row"
              /\ listIndex' = listIndex + 1
              /\ listGot' = Append(listGot, listIndex + 1),
           answer \in {"end", "no"} =>
               /\ listing = L!null => listClosed
               /\ listing # L!null => listIndex = listing[1]
    PROVE  ListInv'
<1>1. /\ listFlow'[f] = L!Idle /\ listTold'[f] = answer
      /\ \A g \in Flows : g # f => listFlow'[g] = L!Idle /\ listTold'[g] = listTold[g]
      /\ \A g \in Flows : listFlow'[g] = L!Idle
      /\ listFlow' \in [Flows ->
            [at: {"idle", "running", "executed", "body"}, op: L!Reads \cup {"none"},
             asked: L!Listings, rows: {L!null} \cup {<<n>> : n \in L!Listings},
             row: L!Listings]]
      /\ listTold' \in [Flows -> ListAnswers]
  BY ListIdle DEF ListInv, L!TypeOK, L!returns, ListAlone, ListAnswers
<1>2. /\ listIndex \in Nat /\ catalogue \in Nat /\ since \in Nat /\ MaxCatalogue \in Nat
      /\ listIndex \in 0..MaxCatalogue /\ listGot \in Seq(0..MaxCatalogue)
      /\ listing # L!null => listing[1] \in 0..MaxCatalogue
  BY CatalogueIsNat, ListingIs DEF ListInv, L!TypeOK, L!Listings
<1>3. /\ listIndex' \in 0..MaxCatalogue /\ listGot' \in Seq(0..MaxCatalogue)
      /\ Len(listGot') = listIndex'
      /\ \A i \in 1..Len(listGot') : listGot'[i] = i
      /\ listing # L!null => listIndex' <= listing[1]
      /\ listing = L!null => listIndex' = listIndex
  <2>1. CASE UNCHANGED <<listIndex, listGot>>
    BY <1>2, <2>1 DEF ListInv, ListAtRow
  <2>2. CASE /\ listing # L!null /\ listIndex < listing[1] /\ answer = "row"
             /\ listIndex' = listIndex + 1
             /\ listGot' = Append(listGot, listIndex + 1)
    <3>1. listIndex + 1 \in 0..MaxCatalogue /\ listIndex + 1 <= listing[1]
      BY <1>2, <2>2
    <3>2. Len(listGot) = listIndex /\ \A i \in 1..Len(listGot) : listGot[i] = i
      BY DEF ListInv, ListAtRow
    <3>3. QED
      BY <1>2, <2>2, <3>1, <3>2
  <2>3. QED
    BY <2>1, <2>2
<1>4. L!TypeOK'
  BY <1>1, <1>3 DEF ListInv, L!TypeOK, L!Listings, ListAnswers
<1>5. ListOneFlow' /\ ListReads'
  BY <1>1, ListIdle DEF ListOneFlow, ListReads
<1>6. ListAtRow'
  BY <1>3 DEF ListInv, ListAtRow
<1>7. ListEnds'
  <2>1. ASSUME NEW g \in Flows, listTold'[g] \in {"end", "no"}
        PROVE  /\ listing = L!null => listClosed
               /\ listing # L!null => listIndex' = listing[1]
    <3>1. CASE UNCHANGED listIndex
      BY <1>1, <2>1, <3>1 DEF ListInv, ListEnds
    <3>2. CASE listing # L!null /\ listIndex < listing[1] /\ answer = "row"
      BY <1>1, <1>2, <2>1, <3>2 DEF ListInv, ListEnds
    <3>3. QED
      BY <3>1, <3>2
  <2>2. \A g \in Flows : listFlow'[g].at # "running"
    BY <1>1, ListIdle
  <2>3. QED
    BY <2>1, <2>2 DEF ListEnds
<1>8. QED
  BY <1>4, <1>5, <1>6, <1>7 DEF ListInv

\* The types in numbers.
LEMMA ListNumbers ==
    ASSUME ListInv
    PROVE  /\ listIndex \in Nat /\ catalogue \in Nat /\ since \in Nat /\ MaxCatalogue \in Nat
           /\ catalogue \in 0..MaxCatalogue
           /\ listing \in {L!null} \cup {<<n>> : n \in 0..MaxCatalogue}
           /\ listing # L!null => listing[1] \in Nat /\ listing[1] \in 0..MaxCatalogue
           /\ \A n \in 0..MaxCatalogue : <<n>> # L!null /\ <<n>>[1] = n
<1>1. MaxCatalogue \in Nat /\ L!Listings = 0..MaxCatalogue
  BY CatalogueIsNat DEF L!Listings
<1>2. \A n \in 0..MaxCatalogue : <<n>> # L!null /\ <<n>>[1] = n
  BY DEF L!null
<1>3. QED
  BY <1>1, <1>2, ListingIs DEF ListInv, L!TypeOK

\* What happens around the cursor.
LEMMA ListCreated ==
    ASSUME ListInv, L!created
    PROVE  ListInv'
<1>1. catalogue' \in L!Listings /\ catalogue' >= catalogue
  BY ListNumbers DEF L!created, L!Listings
<1>2. L!TypeOK' /\ ListOneFlow' /\ ListReads' /\ ListEnds'
  BY <1>1 DEF L!created, ListInv, L!TypeOK, ListOneFlow, ListReads, ListEnds
<1>3. ListAtRow'
  BY <1>1, ListNumbers DEF L!created, ListInv, ListAtRow
<1>4. QED
  BY <1>2, <1>3 DEF ListInv

LEMMA ListAbort ==
    ASSUME ListInv, L!abort
    PROVE  ListInv'
<1>1. /\ listClosed' = TRUE
      /\ listing' = listing \/ (listing' = L!null /\ ~listClosed)
      /\ UNCHANGED <<catalogue, listIndex, listFlow, listGot, since, listTold>>
      /\ listAborted' = TRUE
  BY DEF L!abort
<1>2. L!TypeOK'
  BY <1>1 DEF ListInv, L!TypeOK
<1>3. ListReads'
  BY <1>1 DEF ListInv, ListReads
<1>4. QED
  BY <1>1, <1>2, <1>3 DEF ListInv, ListOneFlow, ListAtRow, ListEnds

LEMMA ListClose ==
    ASSUME ListInv, ~SharesCursor, NEW f \in Flows, L!close(f)
    PROVE  ListInv'
<1>1. /\ listClosed' = TRUE /\ listing' = L!null
      /\ UNCHANGED <<catalogue, listAborted, listIndex, listFlow, listGot, since, listTold>>
      /\ \A g \in Flows : listFlow[g] = L!Idle
  BY ListCalls DEF L!close, ListAlone
<1>2. QED
  BY <1>1, ListIdle
     DEF ListInv, L!TypeOK, ListOneFlow, ListReads, ListAtRow, ListEnds

LEMMA ListRewind ==
    ASSUME ListInv, ~SharesCursor, NEW f \in Flows, L!rewind(f)
    PROVE  ListInv'
<1>1. /\ listClosed' = FALSE /\ listing' = L!null /\ listIndex' = 0 /\ listGot' = << >>
      /\ since' = catalogue /\ listTold' = [g \in Flows |-> "nothing"]
      /\ UNCHANGED <<catalogue, listAborted, listFlow>>
      /\ \A g \in Flows : listFlow[g] = L!Idle
  BY ListCalls DEF L!rewind, ListAlone
<1>2. L!TypeOK'
  <2>1. 0 \in L!Listings /\ << >> \in Seq(L!Listings)
    BY CatalogueIsNat DEF L!Listings
  <2>2. listTold' \in [Flows -> ListAnswers]
    BY <1>1 DEF ListAnswers
  <2>3. QED
    BY <1>1, <2>1, <2>2 DEF ListInv, L!TypeOK, ListAnswers
<1>3. ListAtRow'
  BY <1>1, ListNumbers DEF ListAtRow
<1>4. QED
  BY <1>1, <1>2, <1>3, ListIdle DEF ListInv, ListOneFlow, ListReads, ListEnds

\* A read is called.
LEMMA ListRefused ==
    ASSUME ListInv, ~SharesCursor, NEW f \in Flows, L!refused(f)
    PROVE  ListInv'
<1>1. ListAlone(f)
  BY ListCalls DEF L!refused
<1>2. PICK answer \in {"reason", "exhausted"} : L!returns(f, answer)
  BY DEF L!refused
<1>3. QED
  BY <1>1, <1>2, ListReturns DEF L!refused, ListAnswers

LEMMA ListReadsBegin ==
    ASSUME ListInv, ~SharesCursor, NEW f \in Flows, NEW op \in L!Reads, L!reads(f, op)
    PROVE  ListInv'
<1> DEFINE at == IF listing = L!null THEN "running" ELSE "executed"
<1>1. /\ ListAlone(f) /\ listFlow[f] = L!Idle /\ ~listClosed
      /\ listFlow' = [listFlow EXCEPT ![f] =
            [L!Idle EXCEPT !.at = at, !.op = op, !.asked = catalogue]]
      /\ UNCHANGED <<catalogue, listAborted, listClosed, listing, listIndex, listGot,
                     since, listTold>>
  BY ListCalls DEF L!reads
<1>2. /\ at \in {"running", "executed"}
      /\ at = "running" => listing = L!null
      /\ at = "executed" => listing # L!null
  OBVIOUS
<1> HIDE DEF at
<1>3. /\ listFlow'[f].at = at /\ listFlow'[f].asked = catalogue
      /\ \A g \in Flows : g # f => listFlow'[g] = L!Idle
      /\ L!TypeOK'
  <2>1. /\ listFlow \in [Flows ->
              [at: {"idle", "running", "executed", "body"}, op: L!Reads \cup {"none"},
               asked: L!Listings, rows: {L!null} \cup {<<n>> : n \in L!Listings},
               row: L!Listings]]
        /\ catalogue \in L!Listings
    BY DEF ListInv, L!TypeOK
  <2>2. /\ listFlow'[f].at = at /\ listFlow'[f].asked = catalogue
        /\ \A g \in Flows : g # f => listFlow'[g] = L!Idle
    BY <1>1, <2>1 DEF ListAlone
  <2>3. listFlow' \in [Flows ->
              [at: {"idle", "running", "executed", "body"}, op: L!Reads \cup {"none"},
               asked: L!Listings, rows: {L!null} \cup {<<n>> : n \in L!Listings},
               row: L!Listings]]
    <3>1. [L!Idle EXCEPT !.at = at, !.op = op, !.asked = catalogue] \in
              [at: {"idle", "running", "executed", "body"}, op: L!Reads \cup {"none"},
               asked: L!Listings, rows: {L!null} \cup {<<n>> : n \in L!Listings},
               row: L!Listings]
      BY <1>2, <2>1, ListIdle
    <3>2. QED
      BY <1>1, <2>1, <3>1
  <2>4. QED
    BY <1>1, <2>2, <2>3 DEF ListInv, L!TypeOK
<1>4. ListOneFlow'
  BY <1>3 DEF ListOneFlow
<1>5. ListReads'
  BY <1>1, <1>2, <1>3, ListIdle DEF ListInv, ListReads, ListAtRow
<1>6. ListAtRow' /\ ListEnds'
  BY <1>1, <1>2, <1>3, ListIdle DEF ListInv, ListAtRow, ListEnds
<1>7. QED
  BY <1>3, <1>4, <1>5, <1>6 DEF ListInv

\* The listing arrives.
LEMMA ListListed ==
    ASSUME ListInv, NEW f \in Flows, L!listed(f)
    PROVE  ListInv'
<1>1. PICK n \in listFlow[f].asked..catalogue : listing' = <<n>>
  BY DEF L!listed
<1>2. /\ listFlow[f].at = "running"
      /\ listFlow' = [listFlow EXCEPT ![f].at = "executed"]
      /\ UNCHANGED <<catalogue, listAborted, listClosed, listIndex, listGot, since, listTold>>
  BY DEF L!listed, L!goes
<1>3. listing = L!null /\ listIndex = 0 /\ since <= listFlow[f].asked /\ ListAlone(f)
  BY <1>2, ListInside, ListIdle DEF ListInv, ListReads
<1>4. listFlow[f].asked \in 0..MaxCatalogue
  BY DEF ListInv, L!TypeOK, L!Listings
<1>5. n \in 0..MaxCatalogue /\ since <= n /\ listing' # L!null /\ listing'[1] = n
  BY <1>1, <1>3, <1>4, ListNumbers
<1>6. /\ listFlow'[f].at = "executed"
      /\ \A g \in Flows : g # f => listFlow'[g] = L!Idle
      /\ L!TypeOK'
  BY ZenonT(60), <1>1, <1>2, <1>3, <1>5 DEF ListInv, L!TypeOK, L!Listings, ListAlone
<1>7. ListOneFlow' /\ ListReads'
  BY <1>5, <1>6, ListIdle DEF ListOneFlow, ListReads
<1>8. ListAtRow'
  BY <1>2, <1>3, <1>5 DEF ListInv, ListAtRow
<1>9. ListEnds'
  BY <1>2 DEF ListInv, ListEnds
<1>10. QED
  BY <1>6, <1>7, <1>8, <1>9 DEF ListInv

LEMMA ListAnswered ==
    ASSUME ListInv, NEW f \in Flows,
           \/ L!runnerFails(f) \/ L!nothingThere(f) \/ L!next(f) \/ L!hasNext(f)
           \/ L!toArray(f) \/ L!forEach(f)
    PROVE  ListInv'
<1>1. /\ listFlow[f].at \in {"running", "executed"} /\ ListAlone(f)
      /\ UNCHANGED <<catalogue, listAborted, listClosed, listing, since>>
  <2>1. /\ listFlow[f].at \in {"running", "executed"}
        /\ UNCHANGED <<catalogue, listAborted, listClosed, listing, since>>
    BY DEF L!runnerFails, L!nothingThere, L!next, L!hasNext, L!toArray, L!forEach, L!executed
  <2>2. QED
    BY <2>1, ListInside, ListIdle
<1>2. CASE L!runnerFails(f) \/ L!nothingThere(f) \/ L!toArray(f)
  <2>1. PICK answer \in {"error", "TypeError", "whole"} :
            L!returns(f, answer) /\ UNCHANGED <<listIndex, listGot>>
    BY <1>2 DEF L!runnerFails, L!nothingThere, L!toArray
  <2>2. QED
    BY <1>1, <2>1, ListReturns DEF ListAnswers
<1>3. CASE L!next(f)
  <2>1. listing # L!null /\ listing[1] \in Nat /\ listIndex \in Nat /\ listIndex <= listing[1]
    BY <1>3, ListNumbers DEF L!next, ListInv, ListAtRow
  <2>2. CASE listIndex >= listing[1]
    <3>1. L!returns(f, "end") /\ UNCHANGED <<listIndex, listGot>>
      BY <1>3, <2>2 DEF L!next
    <3>2. listIndex = listing[1]
      BY <2>1, <2>2
    <3>3. QED
      BY <1>1, <2>1, <3>1, <3>2, ListReturns DEF ListAnswers
  <2>3. CASE ~(listIndex >= listing[1])
    <3>1. L!returns(f, "row") /\ listIndex' = listIndex + 1
          /\ listGot' = Append(listGot, listIndex + 1)
      BY <1>3, <2>3 DEF L!next
    <3>2. listIndex < listing[1]
      BY <2>1, <2>3
    <3>3. QED
      BY <1>1, <2>1, <3>1, <3>2, ListReturns DEF ListAnswers
  <2>4. QED
    BY <2>2, <2>3
<1>4. CASE L!hasNext(f)
  <2>1. listing # L!null /\ listing[1] \in Nat /\ listIndex \in Nat /\ listIndex <= listing[1]
    BY <1>4, ListNumbers DEF L!hasNext, ListInv, ListAtRow
  <2>2. CASE listIndex < listing[1]
    BY <1>1, <1>4, <2>1, <2>2, ListReturns DEF L!hasNext, ListAnswers
  <2>3. CASE ~(listIndex < listing[1])
    <3>1. L!returns(f, "no") /\ UNCHANGED <<listIndex, listGot>>
      BY <1>4, <2>3 DEF L!hasNext
    <3>2. listIndex = listing[1]
      BY <2>1, <2>3
    <3>3. QED
      BY <1>1, <2>1, <3>1, <3>2, ListReturns DEF ListAnswers
  <2>4. QED
    BY <2>2, <2>3
<1>5. CASE L!forEach(f)
  <2>1. PICK answer \in {"end", "reason", "whole", "left"} :
            /\ L!returns(f, answer)
            /\ answer = "end" => listing \in {L!null, <<0>>}
    BY <1>5 DEF L!forEach
  <2>2. UNCHANGED <<listIndex, listGot>> /\ listFlow[f].at = "executed"
    BY <1>5 DEF L!forEach, L!executed
  <2>3. listing = L!null => listClosed
    BY <2>2 DEF ListInv, ListReads
  <2>4. listing = <<0>> /\ listing # L!null => listIndex = listing[1]
    BY ListNumbers DEF ListInv, ListAtRow
  <2>5. QED
    BY <1>1, <2>1, <2>2, <2>3, <2>4, ListReturns DEF ListAnswers
<1>6. QED
  BY <1>2, <1>3, <1>4, <1>5

\* `for await`, which walks the listing it found.
LEMMA ListWalks ==
    ASSUME ListInv, NEW f \in Flows, L!forAwait(f) \/ L!bodyReturns(f)
    PROVE  ListInv'
<1>1. /\ listFlow[f].at \in {"executed", "body"} /\ ListAlone(f)
      /\ UNCHANGED <<catalogue, listAborted, listClosed, listing, listIndex, listGot, since>>
  <2>1. /\ listFlow[f].at \in {"executed", "body"}
        /\ UNCHANGED <<catalogue, listAborted, listClosed, listing, listIndex, listGot, since>>
    BY DEF L!forAwait, L!bodyReturns, L!executed
  <2>2. QED
    BY <2>1, ListInside, ListIdle
<1>2. ASSUME UNCHANGED listTold, L!TypeOK',
             listFlow'[f].at = "body", listFlow'[f].rows # L!null,
             listFlow'[f].row \in 1..listFlow'[f].rows[1],
             \A g \in Flows : g # f => listFlow'[g] = listFlow[g]
      PROVE  ListInv'
  <2>1. \A g \in Flows : g # f => listFlow'[g] = L!Idle
    BY <1>1, <1>2 DEF ListAlone
  <2>2. ListOneFlow' /\ ListReads' /\ ListAtRow' /\ ListEnds'
    BY <1>1, <1>2, <2>1, ListIdle
       DEF ListInv, ListOneFlow, ListReads, ListAtRow, ListEnds
  <2>3. QED
    BY <1>2, <2>2 DEF ListInv
<1>3. CASE L!forAwait(f)
  <2>1. CASE listing \in {L!null, <<0>>}
    <3>1. L!returns(f, "end") /\ listFlow[f].at = "executed"
      BY <1>3, <2>1 DEF L!forAwait, L!executed
    <3>2. listing = L!null => listClosed
      BY <3>1 DEF ListInv, ListReads
    <3>3. listing = <<0>> /\ listing # L!null => listIndex = listing[1]
      BY ListNumbers DEF ListInv, ListAtRow
    <3>4. QED
      BY <1>1, <2>1, <3>1, <3>2, <3>3, ListReturns DEF ListAnswers
  <2>2. CASE listing \notin {L!null, <<0>>}
    <3>1. /\ listFlow' = [listFlow EXCEPT ![f].at = "body", ![f].rows = listing, ![f].row = 1]
          /\ UNCHANGED listTold
      BY <1>3, <2>2 DEF L!forAwait
    <3>2. listing # L!null /\ listing[1] \in 1..MaxCatalogue /\ 1 \in 0..MaxCatalogue
          /\ 1 \in 1..listing[1]
      BY <2>2, ListNumbers
    <3>3. /\ listFlow'[f].at = "body" /\ listFlow'[f].rows = listing /\ listFlow'[f].row = 1
          /\ \A g \in Flows : g # f => listFlow'[g] = listFlow[g]
          /\ L!TypeOK'
      BY ZenonT(60), <1>1, <3>1, <3>2 DEF ListInv, L!TypeOK, L!Listings
    <3>4. QED
      BY <1>2, <3>1, <3>2, <3>3
  <2>3. QED
    BY <2>1, <2>2
<1>4. CASE L!bodyReturns(f)
  <2>1. CASE \E answer \in {"reason", "whole", "left"} : L!returns(f, answer)
    BY <1>1, <2>1, ListReturns DEF ListAnswers
  <2>2. CASE /\ listFlow[f].at = "body" /\ listFlow[f].row < listFlow[f].rows[1]
             /\ listFlow' = [listFlow EXCEPT ![f].row = @ + 1]
             /\ UNCHANGED listTold
    <3>1. /\ listFlow[f].rows # L!null /\ listFlow[f].row \in Nat
          /\ listFlow[f].rows[1] \in 0..MaxCatalogue
          /\ listFlow[f].row \in 1..listFlow[f].rows[1]
      BY <2>2, ListingIs, CatalogueIsNat DEF ListInv, L!TypeOK, ListReads, L!Listings
    <3>2. listFlow[f].row + 1 \in 1..listFlow[f].rows[1] /\ listFlow[f].row + 1 \in 0..MaxCatalogue
      BY <2>2, <3>1, CatalogueIsNat
    <3>3. /\ listFlow'[f].at = "body" /\ listFlow'[f].rows = listFlow[f].rows
          /\ listFlow'[f].row = listFlow[f].row + 1
          /\ \A g \in Flows : g # f => listFlow'[g] = listFlow[g]
          /\ L!TypeOK'
      BY <1>1, <2>2, <3>2 DEF ListInv, L!TypeOK, L!Listings
    <3>4. QED
      BY <1>2, <2>2, <3>1, <3>2, <3>3
  <2>3. QED
    BY <1>4, <2>1, <2>2 DEF L!bodyReturns
<1>5. QED
  BY <1>3, <1>4

LEMMA ListInitInv == L!Init => ListInv
<1> SUFFICES ASSUME L!Init PROVE ListInv
  OBVIOUS
<1>1. L!TypeOK
  <2>1. 0 \in L!Listings /\ << >> \in Seq(L!Listings)
    BY CatalogueIsNat DEF L!Listings
  <2>2. listTold \in [Flows -> ListAnswers]
    BY DEF L!Init, ListAnswers
  <2>3. QED
    BY <2>1, <2>2, ListIdle DEF L!Init, L!TypeOK, ListAnswers
<1>2. ListAtRow
  BY CatalogueIsNat DEF L!Init, L!Listings, ListAtRow
<1>3. QED
  BY <1>1, <1>2, ListIdle DEF L!Init, ListInv, ListOneFlow, ListReads, ListEnds

LEMMA ListNextInv ==
    ASSUME ~SharesCursor
    PROVE  ListInv /\ (L!Next \/ UNCHANGED list) => ListInv'
<1> SUFFICES ASSUME ListInv, L!Next \/ UNCHANGED list PROVE ListInv'
  OBVIOUS
<1>1. CASE UNCHANGED list
  BY <1>1 DEF list, ListInv, L!TypeOK, ListOneFlow, ListReads, ListAtRow, ListEnds
<1>2. CASE L!created \/ L!abort
  BY <1>2, ListCreated, ListAbort
<1>3. ASSUME NEW f \in Flows,
             L!close(f) \/ L!rewind(f) \/ L!refused(f) \/ \E op \in L!Reads : L!reads(f, op)
      PROVE  ListInv'
  BY <1>3, ListClose, ListRewind, ListRefused, ListReadsBegin
<1>4. ASSUME NEW f \in Flows, L!resumes(f) \/ L!bodyReturns(f)
      PROVE  ListInv'
  BY <1>4, ListListed, ListAnswered, ListWalks DEF L!resumes
<1>5. QED
  BY <1>1, <1>2, <1>3, <1>4 DEF L!Next

\* next() hands out one listing's rows in order, none missing and none twice, and
\* reports the end of that listing, while collections are created, the signal
\* aborts and reads fail; and what is read after a rewind was listed since.
THEOREM WalksOne ==
    ASSUME ~SharesCursor
    PROVE  MCSpec => []WalksOneListing
<1>1. MCInit => ListInv
  BY ListInitInv DEF MCInit
<1>2. ListInv /\ [MCNext]_<<kind, vars, list>> => ListInv'
  BY ListNextInv DEF MCNext
<1>3. ListInv => WalksOneListing
  BY ListNumbers DEF ListInv, ListAtRow, ListEnds, WalksOneListing, L!WalksOneListing
<1>4. QED
  BY <1>1, <1>2, <1>3, PTL DEF MCSpec

-----------------------------------------------------------------------------
(* The find cursor: the rows of a stream, or of a whole result *)

\* At most one flow is inside a call: the reads are awaited one after another.
OneFlow == \A f, g \in Flows : flow[f] # Idle /\ flow[g] # Idle => f = g

\* A read under way finds the cursor open, unless the signal has closed it under
\* the read.
ReadsOfAnOpenCursor ==
    /\ closed => stream = undefined
    /\ results => stream = undefined
    /\ closed /\ ~aborted => ~results /\ peeked = undefined
    /\ \A f \in Flows : flow[f] # Idle =>
          /\ flow[f].at # "idle"
          /\ ~aborted => ~closed
          /\ aborted => closed /\ ~results /\ peeked = undefined
          /\ flow[f].at = "loading" => flow[f].op \in {"toArray", "count"} /\ ~results
          /\ flow[f].at = "loading" /\ flow[f].op = "toArray" => stream = undefined
          /\ flow[f].at \in {"begun", "looping", "body"} /\ ~aborted => started

\* A stream that is not open yet has no query, one that is has a query of its own,
\* and a query that is not sent has delivered nothing.
StreamsInOrder ==
    /\ stream \in 0..opened
    /\ \A s \in Opens : s > opened => ~finished[s] /\ source[s] = undefined
    /\ \A q \in Opens : query[q] = "unused" => sent[q] = 0
    /\ stream # undefined /\ source[stream] # undefined =>
          query[source[stream]] \notin {"unused", "cancelled"}

\* A row asked of a stream is asked of the one the cursor reads, or of one the
\* signal took from it; and the cursor is at the row the stream is at.
AsksItsStream ==
    \A f \in Flows : flow[f].at \in {"opening", "reading"} =>
        /\ flow[f].on \in 1..opened
        /\ flow[f].query = source[flow[f].on]
        /\ \/ stream = flow[f].on /\ ~finished[stream]
           \/ aborted /\ stream = undefined /\ finished[flow[f].on]
        /\ peeked = undefined /\ ~results
        /\ flow[f].at = "opening" => flow[f].query = undefined
        /\ flow[f].at = "reading" =>
              flow[f].query # undefined /\ sent[flow[f].query] = Len(got)

\* Where the cursor is, by how it reads: at its start, in a whole result, behind a
\* stream that is not open yet, or in one.
CursorAtRow ==
    /\ \A i \in 1..Len(got) : got[i] = i
    /\ ~closed /\ stream = undefined =>
          index = Len(got) /\ peeked = undefined /\ (~results => index = 0)
    /\ stream # undefined /\ source[stream] = undefined =>
          got = << >> /\ peeked \in {undefined, DONE}
    /\ stream # undefined /\ source[stream] # undefined =>
          IF peeked \in {undefined, DONE}
          THEN sent[source[stream]] = Len(got)
          ELSE peeked = Len(got) + 1 /\ sent[source[stream]] = Len(got) + 1

\* The end is where every row was handed out, unless a read failed before.
EndIsTheEnd ==
    ~failed =>
        /\ stream # undefined /\ finished[stream] =>
              source[stream] # undefined /\ sent[source[stream]] = Rows
        /\ stream # undefined /\ peeked = DONE => Len(got) = Rows
        /\ ~aborted => \A f \in Flows : told[f] \in {"end", "no"} => Len(got) = Rows

IInv ==
    /\ TypeOK
    /\ OneFlow
    /\ ReadsOfAnOpenCursor
    /\ StreamsInOrder
    /\ AsksItsStream
    /\ CursorAtRow
    /\ EndIsTheEnd
    /\ NoStreamLeftRunning

FlowRecords ==
    [at: {"idle", "begun", "opening", "reading", "looping", "body", "loading"},
     op: Reads \cup {"none"},
     on: Opens \cup {undefined}, query: Opens \cup {undefined}]

Answers == {"nothing", "row", "end", "yes", "no", "left", "whole",
            "count", "reason", "exhausted", "error"}

\* While a flow is inside a call no other is.
Alone(f) == \A g \in Flows : g # f => flow[g] = Idle

\* A read goes on with its own code, or is over.
Went(f) ==
    /\ flow' \in [Flows -> FlowRecords]
    /\ \A g \in Flows : g # f => flow'[g] = Idle
    /\ flow'[f] = Idle \/ flow'[f].at \in {"looping", "body"}

LEMMA IdleIs == Idle.at = "idle" /\ Idle \in FlowRecords
BY RowsAreNat DEF Idle, FlowRecords, undefined

LEMMA Inside ==
    ASSUME IInv, NEW f \in Flows, flow[f] # Idle
    PROVE  Alone(f)
BY DEF IInv, OneFlow, Alone

LEMMA CallsAlone ==
    ASSUME ~SharesCursor, NEW f \in Flows, mayCall(f)
    PROVE  Alone(f) /\ flow[f] = Idle
BY DEF mayCall, Alone

\* The types in numbers.
LEMMA Numbers ==
    ASSUME IInv
    PROVE  /\ Rows \in Nat /\ MaxOpens \in Nat /\ DONE = Rows + 1 /\ undefined = 0
           /\ Opens = 1..MaxOpens /\ Steps = 1..(Rows + 1)
           /\ index \in 0..Rows /\ opened \in 0..MaxOpens /\ stream \in 0..MaxOpens
           /\ peeked \in 0..(Rows + 1)
           /\ Len(got) \in 0..Rows
<1>1. Len(got) \in Nat /\ \A i \in 1..Len(got) : got[i] \in 1..Rows
  <2>1. got \in Seq(1..Rows)
    BY DEF IInv, TypeOK
  <2>2. Len(got) \in Nat
    BY <2>1
  <2>3. ASSUME NEW i \in 1..Len(got)
        PROVE  got[i] \in 1..Rows
    BY <2>1, <2>3, RowsAreNat
  <2>4. QED
    BY <2>2, <2>3
<1>2. Len(got) <= Rows
  <2>1. Len(got) > 0 => got[Len(got)] = Len(got) /\ got[Len(got)] \in 1..Rows
    BY <1>1 DEF IInv, CursorAtRow
  <2>2. QED
    BY <1>1, <2>1, RowsAreNat
<1>3. QED
  BY <1>1, <1>2, RowsAreNat DEF IInv, TypeOK, DONE, undefined, Opens, Steps

\* A call settles.
LEMMA Returns ==
    ASSUME IInv, NEW f \in Flows, Alone(f), NEW answer \in Answers, returns(f, answer)
    PROVE  /\ Went(f) /\ flow'[f] = Idle
           /\ told' \in [Flows -> Answers]
           /\ told'[f] = answer
           /\ \A g \in Flows : g # f => told'[g] = told[g]
BY IdleIs DEF IInv, TypeOK, returns, Went, Alone, FlowRecords, Answers

LEMMA Goes ==
    ASSUME IInv, NEW f \in Flows, Alone(f), NEW at \in {"looping", "body"}, goes(f, at)
    PROVE  Went(f) /\ flow'[f].at = at
BY ZenonT(60) DEF IInv, TypeOK, goes, Went, Alone, FlowRecords

\* A row that is handed out is the next one, and the end is one only if it is.
rightStep(step) ==
    /\ step \in Steps
    /\ step # DONE => step = Len(got) + 1
    /\ step = DONE /\ ~failed /\ ~aborted => Len(got) = Rows

\* No flow is told that the rows are over before they are.
EndsRightly ==
    ~failed /\ ~aborted => \A f \in Flows : told[f] \in {"end", "no"} => Len(got) = Rows

LEMMA Hands ==
    ASSUME IInv, NEW f \in Flows, Alone(f), NEW step, rightStep(step), hands(f, step),
           UNCHANGED aborted
    PROVE  /\ Went(f)
           /\ told' \in [Flows -> Answers] /\ got' \in Seq(1..Rows) /\ UNCHANGED failed
           /\ \A i \in 1..Len(got') : got'[i] = i
           /\ step = DONE => got' = got /\ flow'[f] = Idle
           /\ step # DONE => Len(got') = Len(got) + 1
           /\ EndsRightly'
<1>1. failed' = failed
  BY DEF hands
<1>2. CASE step = DONE
  <2>1. returns(f, "end") /\ got' = got
    BY <1>2 DEF hands
  <2>2. /\ Went(f) /\ flow'[f] = Idle /\ told' \in [Flows -> Answers] /\ told'[f] = "end"
        /\ \A g \in Flows : g # f => told'[g] = told[g]
    BY <2>1, Returns DEF Answers
  <2>3. EndsRightly'
    BY <1>1, <1>2, <2>1, <2>2 DEF rightStep, EndsRightly, IInv, EndIsTheEnd
  <2>4. QED
    BY <1>1, <1>2, <2>1, <2>2, <2>3 DEF IInv, TypeOK, CursorAtRow
<1>3. CASE step # DONE
  <2>1. /\ got' = Append(got, step) /\ step = Len(got) + 1 /\ step \in 1..Rows
        /\ got \in Seq(1..Rows)
    <3>1. got' = Append(got, step)
      BY <1>3 DEF hands
    <3>2. step \in Steps /\ step = Len(got) + 1
      BY <1>3 DEF rightStep
    <3>3. step \in 1..Rows
      BY <1>3, <3>2, Numbers
    <3>4. got \in Seq(1..Rows)
      BY DEF IInv, TypeOK
    <3>5. QED
      BY <3>1, <3>2, <3>3, <3>4
  <2>2. /\ got' \in Seq(1..Rows) /\ Len(got') = Len(got) + 1
        /\ \A i \in 1..Len(got') : got'[i] = i
    <3>1. \A i \in 1..Len(got) : got[i] = i
      BY DEF IInv, CursorAtRow
    <3>2. QED
      BY <2>1, <3>1
  <2>3. \/ returns(f, "row")
        \/ goes(f, "looping") /\ UNCHANGED told
        \/ goes(f, "body") /\ UNCHANGED told
    BY <1>3 DEF hands
  <2>4. /\ Went(f) /\ told' \in [Flows -> Answers]
        /\ \A g \in Flows : told'[g] = told[g] \/ told'[g] = "row"
    <3>1. CASE returns(f, "row")
      BY <3>1, Returns DEF Answers
    <3>2. CASE UNCHANGED told /\ (goes(f, "looping") \/ goes(f, "body"))
      BY <3>2, Goes DEF IInv, TypeOK, Answers
    <3>3. QED
      BY <2>3, <3>1, <3>2
  <2>5. EndsRightly'
    <3>1. Len(got) # Rows
      BY <2>1, Numbers
    <3>2. QED
      BY <1>1, <2>4, <3>1 DEF EndsRightly, IInv, EndIsTheEnd
  <2>6. QED
    BY <1>1, <1>3, <2>2, <2>4, <2>5
<1>4. QED
  BY <1>2, <1>3

\* A step that is read, or read ahead.
LEMMA Answered ==
    ASSUME IInv, NEW f \in Flows, Alone(f), NEW step, rightStep(step), answers(f, step),
           UNCHANGED aborted
    PROVE  /\ Went(f) /\ flow'[f] = Idle
           /\ told' \in [Flows -> Answers] /\ UNCHANGED <<got, failed>>
           /\ EndsRightly'
<1>1. PICK answer \in {"yes", "no"} :
          returns(f, answer) /\ (answer = "no" => step = DONE)
  BY DEF answers
<1>2. /\ Went(f) /\ flow'[f] = Idle /\ told' \in [Flows -> Answers] /\ told'[f] = answer
      /\ \A g \in Flows : g # f => told'[g] = told[g]
  BY <1>1, Returns DEF Answers
<1>3. UNCHANGED <<got, failed>>
  BY DEF answers
<1>4. EndsRightly'
  BY <1>1, <1>2, <1>3 DEF rightStep, EndsRightly, IInv, EndIsTheEnd
<1>5. QED
  BY <1>2, <1>3, <1>4

\* What a read leaves of the streams.
LEMMA StreamsKept ==
    ASSUME IInv, UNCHANGED <<stream, opened, source, query, sent>>,
           UNCHANGED finished
    PROVE  StreamsInOrder' /\ NoStreamLeftRunning'
BY DEF IInv, StreamsInOrder, NoStreamLeftRunning

\* What a read that goes on, or is over, leaves of its place.
LEMMA PlaceKept ==
    ASSUME IInv, NEW f \in Flows, Went(f),
           aborted' = aborted, closed' = closed, results' = results, stream' = stream,
           \/ flow'[f] = Idle
           \/ /\ flow[f] # Idle /\ (~aborted => started)
              /\ peeked' \in {undefined, peeked},
           peeked' = peeked \/ ~closed \/ aborted
    PROVE  OneFlow' /\ AsksItsStream' /\ ReadsOfAnOpenCursor'
<1>1. OneFlow' /\ AsksItsStream'
  BY IdleIs DEF Went, OneFlow, AsksItsStream
<1>2. ReadsOfAnOpenCursor'
  BY IdleIs DEF Went, IInv, ReadsOfAnOpenCursor, started
<1>3. QED
  BY <1>1, <1>2

LEMMA NextOfResults ==
    ASSUME IInv, NEW f \in Flows, flow[f].at \in {"begun", "looping", "body"},
           results, index' = (IF index < Rows THEN index + 1 ELSE index),
           hands(f, index + 1),
           UNCHANGED <<aborted, closed, results, stream, peeked, opened, source, finished,
                       query, sent>>
    PROVE  IInv'
<1>1. flow[f] # Idle /\ Alone(f) /\ ~aborted /\ ~closed /\ stream = undefined
  BY Inside, IdleIs DEF IInv, ReadsOfAnOpenCursor
<1>2. index = Len(got) /\ peeked = undefined
  BY <1>1 DEF IInv, CursorAtRow
<1>3. rightStep(index + 1)
  BY <1>2, Numbers DEF rightStep
<1>4. /\ Went(f)
      /\ told' \in [Flows -> Answers] /\ got' \in Seq(1..Rows) /\ UNCHANGED failed
      /\ \A i \in 1..Len(got') : got'[i] = i
      /\ index + 1 = DONE => got' = got
      /\ index + 1 # DONE => Len(got') = Len(got) + 1
      /\ EndsRightly'
  BY <1>1, <1>3, Hands
<1>5. index' = Len(got') /\ index' \in 0..Rows
  BY <1>2, <1>4, Numbers
<1>6. OneFlow' /\ AsksItsStream' /\ ReadsOfAnOpenCursor'
  BY <1>1, <1>4, PlaceKept DEF started
<1>7. StreamsInOrder' /\ NoStreamLeftRunning'
  BY StreamsKept
<1>8. CursorAtRow'
  BY <1>1, <1>2, <1>4, <1>5 DEF CursorAtRow
<1>9. EndIsTheEnd'
  BY <1>1, <1>4 DEF EndIsTheEnd, EndsRightly
<1>10. TypeOK'
  BY <1>4, <1>5 DEF IInv, TypeOK, Went, FlowRecords, Answers
<1>11. QED
  BY <1>6, <1>7, <1>8, <1>9, <1>10 DEF IInv

LEMMA NextOfPeeked ==
    ASSUME IInv, NEW f \in Flows, flow[f].at \in {"begun", "looping", "body"},
           ~results, peeked # undefined, peeked' = undefined, hands(f, peeked),
           UNCHANGED <<aborted, closed, results, index, stream, opened, source, finished,
                       query, sent>>
    PROVE  IInv'
<1>1. flow[f] # Idle /\ Alone(f) /\ ~aborted /\ ~closed /\ stream # undefined
  BY Inside, IdleIs DEF IInv, ReadsOfAnOpenCursor, CursorAtRow
<1>2. rightStep(peeked)
  <2>1. peeked \in Steps
    BY DEF IInv, TypeOK
  <2>2. peeked # DONE => peeked = Len(got) + 1
    BY <1>1 DEF IInv, CursorAtRow
  <2>3. peeked = DONE /\ ~failed => Len(got) = Rows
    BY <1>1 DEF IInv, EndIsTheEnd
  <2>4. QED
    BY <2>1, <2>2, <2>3 DEF rightStep
<1>3. /\ Went(f)
      /\ told' \in [Flows -> Answers] /\ got' \in Seq(1..Rows) /\ UNCHANGED failed
      /\ \A i \in 1..Len(got') : got'[i] = i
      /\ peeked = DONE => got' = got
      /\ peeked # DONE => Len(got') = Len(got) + 1
      /\ EndsRightly'
  BY <1>1, <1>2, Hands
<1>4. OneFlow' /\ AsksItsStream' /\ ReadsOfAnOpenCursor'
  BY <1>1, <1>3, PlaceKept DEF started
<1>5. StreamsInOrder' /\ NoStreamLeftRunning'
  BY StreamsKept
<1>6. CursorAtRow'
  <2>1. CASE source[stream] = undefined
    <3>1. got = << >> /\ peeked = DONE
      BY <1>1, <2>1 DEF IInv, CursorAtRow
    <3>2. QED
      BY <1>1, <1>3, <2>1, <3>1 DEF CursorAtRow
  <2>2. CASE source[stream] # undefined
    <3>1. sent[source[stream]] = Len(got')
      BY <1>1, <1>3, <2>2 DEF IInv, CursorAtRow
    <3>2. QED
      BY <1>1, <1>3, <2>2, <3>1 DEF CursorAtRow
  <2>3. QED
    BY <2>1, <2>2
<1>7. EndIsTheEnd'
  BY <1>1, <1>3, Numbers DEF IInv, EndIsTheEnd, EndsRightly
<1>8. TypeOK'
  BY <1>3 DEF IInv, TypeOK, Went, FlowRecords, Answers
<1>9. QED
  BY <1>4, <1>5, <1>6, <1>7, <1>8 DEF IInv

\* A stream that is over says so again.
LEMMA NextOfFinished ==
    ASSUME IInv, NEW f \in Flows, flow[f].at \in {"begun", "looping", "body"},
           ~results, peeked = undefined, stream # undefined, finished[stream],
           arrives(f, DONE),
           UNCHANGED <<aborted, closed, results, index, stream, opened, source, finished,
                       query, sent>>
    PROVE  IInv'
<1>1. flow[f] # Idle /\ Alone(f) /\ ~aborted /\ ~closed
  BY Inside, IdleIs DEF IInv, ReadsOfAnOpenCursor
<1>2. ~failed => Len(got) = Rows
  BY DEF IInv, CursorAtRow, EndIsTheEnd
<1>3. rightStep(DONE)
  BY <1>2, Numbers DEF rightStep
<1>4. /\ Went(f) /\ flow'[f] = Idle
      /\ told' \in [Flows -> Answers] /\ UNCHANGED <<got, failed>>
      /\ EndsRightly' /\ peeked' \in {undefined, DONE}
  BY <1>1, <1>3, Hands, Answered DEF arrives
<1>5. OneFlow' /\ AsksItsStream' /\ ReadsOfAnOpenCursor'
  BY <1>1, <1>4, PlaceKept
<1>6. StreamsInOrder' /\ NoStreamLeftRunning'
  BY StreamsKept
<1>7. CursorAtRow'
  BY <1>4 DEF IInv, CursorAtRow
<1>8. EndIsTheEnd'
  BY <1>1, <1>2, <1>4 DEF IInv, EndIsTheEnd, EndsRightly
<1>9. TypeOK'
  BY <1>4, Numbers DEF IInv, TypeOK, Went, FlowRecords, Answers
<1>10. QED
  BY <1>5, <1>6, <1>7, <1>8, <1>9 DEF IInv

\* A row is asked of the stream.
LEMMA AsksRecord ==
    ASSUME IInv, NEW f \in Flows, stream # undefined,
           flow' = [flow EXCEPT ![f].at = IF source[stream] = undefined
                                          THEN "opening" ELSE "reading",
                                ![f].on = stream,
                                ![f].query = source[stream]]
    PROVE  \E r \in FlowRecords :
               /\ r.at \in {"opening", "reading"}
               /\ r.at = "opening" <=> source[stream] = undefined
               /\ r.on = stream /\ r.query = source[stream]
               /\ flow' = [flow EXCEPT ![f] = r]
<1> DEFINE at == IF source[stream] = undefined THEN "opening" ELSE "reading"
           asked == [flow[f] EXCEPT !.at = at, !.on = stream, !.query = source[stream]]
<1>1. /\ at \in {"opening", "reading"}
      /\ at = "opening" <=> source[stream] = undefined
  OBVIOUS
<1> HIDE DEF at
<1>2. /\ stream \in Opens /\ source[stream] \in Opens \cup {undefined}
      /\ flow[f] \in FlowRecords
  BY DEF IInv, TypeOK, FlowRecords
<1>3. asked \in FlowRecords /\ asked.at = at /\ asked.on = stream /\ asked.query = source[stream]
  BY <1>1, <1>2 DEF FlowRecords
<1>4. flow' = [flow EXCEPT ![f] = asked]
  BY <1>2 DEF at, IInv, TypeOK, FlowRecords
<1> HIDE DEF asked
<1>5. QED
  BY <1>1, <1>3, <1>4

LEMMA NextOfStream ==
    ASSUME IInv, NEW f \in Flows, flow[f].at \in {"begun", "looping", "body"},
           ~results, peeked = undefined, stream # undefined, ~finished[stream],
           NEW r \in FlowRecords, r.at \in {"opening", "reading"},
           r.at = "opening" <=> source[stream] = undefined,
           r.on = stream, r.query = source[stream],
           flow' = [flow EXCEPT ![f] = r],
           UNCHANGED <<aborted, closed, results, index, stream, opened, source, finished,
                       query, sent, peeked, history>>
    PROVE  IInv'
<1>1. flow[f] # Idle /\ Alone(f) /\ ~aborted /\ ~closed
  BY Inside, IdleIs DEF IInv, ReadsOfAnOpenCursor
<1>2. stream \in Opens /\ flow \in [Flows -> FlowRecords]
  BY DEF IInv, TypeOK, FlowRecords
<1>3. /\ flow'[f] = r /\ \A g \in Flows : g # f => flow'[g] = Idle
      /\ flow' \in [Flows -> FlowRecords]
  BY <1>1, <1>2 DEF Alone
<1>4. TypeOK'
  BY <1>3 DEF IInv, TypeOK, history, FlowRecords
<1>5. OneFlow'
  BY <1>3 DEF OneFlow
<1>6. ReadsOfAnOpenCursor'
  BY <1>1, <1>3, IdleIs DEF IInv, ReadsOfAnOpenCursor, history
<1>7. StreamsInOrder' /\ NoStreamLeftRunning'
  BY StreamsKept
<1>8. AsksItsStream'
  BY <1>1, <1>2, <1>3, IdleIs, Numbers
     DEF IInv, AsksItsStream, StreamsInOrder, CursorAtRow, history
<1>9. CursorAtRow' /\ EndIsTheEnd'
  BY DEF IInv, CursorAtRow, EndIsTheEnd, history
<1>10. QED
  BY <1>4, <1>5, <1>6, <1>7, <1>8, <1>9 DEF IInv

\* A call is over, and has changed nothing.
LEMMA Over ==
    ASSUME IInv, NEW f \in Flows, Went(f), flow'[f] = Idle, told' \in [Flows -> Answers],
           EndsRightly', UNCHANGED <<cursor, streams, got, failed>>
    PROVE  IInv'
<1>1. OneFlow' /\ AsksItsStream' /\ ReadsOfAnOpenCursor'
  BY PlaceKept DEF cursor
<1>2. StreamsInOrder' /\ NoStreamLeftRunning'
  BY StreamsKept DEF cursor, streams
<1>3. CursorAtRow' /\ EndIsTheEnd'
  BY DEF cursor, streams, IInv, CursorAtRow, EndIsTheEnd, EndsRightly
<1>4. TypeOK'
  BY DEF cursor, streams, IInv, TypeOK, Went, FlowRecords, Answers
<1>5. QED
  BY <1>1, <1>2, <1>3, <1>4 DEF IInv

LEMMA OverQuietly ==
    ASSUME IInv, NEW f \in Flows, Alone(f), NEW answer \in Answers \ {"end", "no"},
           returns(f, answer), UNCHANGED <<cursor, streams, got, failed>>
    PROVE  IInv'
<1>1. /\ Went(f) /\ flow'[f] = Idle
      /\ told' \in [Flows -> Answers] /\ told'[f] = answer
      /\ \A g \in Flows : g # f => told'[g] = told[g]
  BY Returns
<1>2. EndsRightly'
  BY <1>1 DEF EndsRightly, IInv, EndIsTheEnd, cursor
<1>3. QED
  BY <1>1, <1>2, Over

\* Only the signal takes the stream from under a read.
LEMMA TakenBySignal ==
    ASSUME IInv, NEW f \in Flows, flow[f].at \in {"begun", "looping", "body"},
           ~results, stream = undefined
    PROVE  aborted
BY IdleIs DEF IInv, ReadsOfAnOpenCursor, started

LEMMA AsksStreamStep ==
    ASSUME IInv, NEW f \in Flows, flow[f].at \in {"begun", "looping", "body"},
           ~results, peeked = undefined, asksStream(f),
           UNCHANGED <<aborted, closed, results, index, stream, streams>>
    PROVE  IInv'
<1>1. stream # undefined
  BY DEF asksStream
<1>2. CASE finished[stream] /\ arrives(f, DONE)
  BY <1>1, <1>2, NextOfFinished DEF streams
<1>3. CASE /\ ~finished[stream]
           /\ flow' = [flow EXCEPT ![f].at = IF source[stream] = undefined
                                             THEN "opening" ELSE "reading",
                                   ![f].on = stream,
                                   ![f].query = source[stream]]
           /\ UNCHANGED <<peeked, history>>
  <2>1. PICK r \in FlowRecords :
            /\ r.at \in {"opening", "reading"}
            /\ r.at = "opening" <=> source[stream] = undefined
            /\ r.on = stream /\ r.query = source[stream]
            /\ flow' = [flow EXCEPT ![f] = r]
    BY <1>1, <1>3, AsksRecord
  <2>2. QED
    BY <1>1, <1>3, <2>1, NextOfStream DEF streams
<1>4. QED
  BY <1>2, <1>3 DEF asksStream

LEMMA NextStep ==
    ASSUME IInv, NEW f \in Flows, flow[f].at \in {"begun", "looping", "body"}, next(f)
    PROVE  IInv'
<1>1. UNCHANGED <<aborted, closed, results, stream, streams>>
  BY DEF next
<1>2. Alone(f)
  BY Inside, IdleIs
<1>3. CASE /\ results
           /\ index' = (IF index < Rows THEN index + 1 ELSE index)
           /\ hands(f, index + 1)
           /\ UNCHANGED peeked
  BY <1>1, <1>3, NextOfResults DEF streams
<1>4. CASE /\ ~results /\ peeked # undefined
           /\ peeked' = undefined
           /\ hands(f, peeked)
           /\ UNCHANGED index
  BY <1>1, <1>4, NextOfPeeked DEF streams
<1>5. CASE ~results /\ peeked = undefined /\ asksStream(f) /\ UNCHANGED index
  BY <1>1, <1>5, AsksStreamStep
<1>6. CASE /\ ~results /\ peeked = undefined /\ stream = undefined
           /\ hands(f, DONE) /\ UNCHANGED <<peeked, index>>
  <2>1. rightStep(DONE)
    BY <1>6, TakenBySignal, Numbers DEF rightStep
  <2>2. /\ Went(f) /\ flow'[f] = Idle /\ told' \in [Flows -> Answers]
        /\ UNCHANGED <<got, failed>> /\ EndsRightly'
    BY <1>1, <1>2, <1>6, <2>1, Hands
  <2>3. QED
    BY <1>1, <1>6, <2>2, Over DEF cursor
<1>7. QED
  BY <1>3, <1>4, <1>5, <1>6 DEF next

LEMMA AnswersHere ==
    ASSUME IInv, NEW f \in Flows, Alone(f), NEW step, rightStep(step), answers(f, step),
           UNCHANGED <<cursor, streams>>
    PROVE  IInv'
<1>1. /\ Went(f) /\ flow'[f] = Idle /\ told' \in [Flows -> Answers]
      /\ UNCHANGED <<got, failed>> /\ EndsRightly'
  BY Answered DEF cursor
<1>2. QED
  BY <1>1, Over

LEMMA HasNextStep ==
    ASSUME IInv, NEW f \in Flows, flow[f].at \in {"begun", "looping", "body"}, hasNext(f)
    PROVE  IInv'
<1>1. UNCHANGED <<aborted, closed, results, index, stream, streams>>
  BY DEF hasNext
<1>2. Alone(f) /\ flow[f] # Idle
  BY Inside, IdleIs
<1>3. CASE results /\ answers(f, index + 1) /\ UNCHANGED peeked
  <2>1. index = Len(got)
    BY <1>2, <1>3 DEF IInv, ReadsOfAnOpenCursor, CursorAtRow
  <2>2. rightStep(index + 1)
    BY <2>1, Numbers DEF rightStep
  <2>3. QED
    BY <1>1, <1>2, <1>3, <2>2, AnswersHere DEF cursor
<1>4. CASE ~results /\ stream = undefined /\ answers(f, DONE) /\ UNCHANGED peeked
  <2>1. rightStep(DONE)
    BY <1>4, TakenBySignal, Numbers DEF rightStep
  <2>2. QED
    BY <1>1, <1>2, <1>4, <2>1, AnswersHere DEF cursor
<1>5. CASE ~results /\ stream # undefined /\ peeked # undefined
               /\ answers(f, peeked) /\ UNCHANGED peeked
  <2>1. rightStep(peeked)
    <3>1. peeked \in Steps
      BY <1>5 DEF IInv, TypeOK
    <3>2. peeked # DONE => peeked = Len(got) + 1
      BY <1>5 DEF IInv, CursorAtRow
    <3>3. peeked = DONE /\ ~failed => Len(got) = Rows
      BY <1>5 DEF IInv, EndIsTheEnd
    <3>4. QED
      BY <3>1, <3>2, <3>3 DEF rightStep
  <2>2. QED
    BY <1>1, <1>2, <1>5, <2>1, AnswersHere DEF cursor
<1>6. CASE ~results /\ peeked = undefined /\ asksStream(f)
  BY <1>1, <1>6, AsksStreamStep
<1>7. QED
  BY <1>3, <1>4, <1>5, <1>6 DEF hasNext

LEMMA StopsStep ==
    ASSUME IInv, NEW f \in Flows, flow[f] # Idle, stopsForSignal(f)
    PROVE  IInv'
BY Inside, OverQuietly DEF stopsForSignal, Answers

LEMMA GoesOnStep ==
    ASSUME IInv, NEW f \in Flows, goesOn(f) \/ bodyReturns(f)
    PROVE  IInv'
<1>1. flow[f].at \in {"begun", "looping", "body"} /\ flow[f] # Idle
  BY IdleIs DEF goesOn, bodyReturns
<1>2. next(f) \/ hasNext(f) \/ stopsForSignal(f)
  BY DEF goesOn, bodyReturns
<1>3. QED
  BY <1>1, <1>2, NextStep, HasNextStep, StopsStep

-----------------------------------------------------------------------------
(* What ends a reading of the cursor *)

LEMMA Releases ==
    ASSUME IInv, release, UNCHANGED <<opened, source, sent>>
    PROVE  /\ stream' = undefined /\ results' = FALSE /\ peeked' = undefined
           /\ StreamsInOrder' /\ NoStreamLeftRunning'
           /\ finished' \in [Opens -> BOOLEAN]
           /\ query' \in [Opens -> {"unused", "running", "buffered", "cancelled", "over"}]
           /\ stream # undefined => finished'[stream]
<1>1. stream' = undefined /\ results' = FALSE /\ peeked' = undefined
  BY DEF release
<1>2. CASE stream = undefined
  BY <1>1, <1>2, Numbers
     DEF release, returnStream, IInv, TypeOK, StreamsInOrder, NoStreamLeftRunning
<1>3. CASE stream # undefined
  <2>1. /\ finished' = [finished EXCEPT ![stream] = TRUE]
        /\ query' = [q \in Opens |->
              IF q = source[stream] /\ query[q] = "running" THEN "cancelled" ELSE query[q]]
    BY <1>3 DEF release, returnStream
  <2>2. stream \in Opens /\ stream \in 1..opened
    BY <1>3, Numbers DEF IInv, TypeOK, StreamsInOrder
  <2>3. /\ finished' \in [Opens -> BOOLEAN] /\ finished'[stream]
        /\ query' \in [Opens -> {"unused", "running", "buffered", "cancelled", "over"}]
    BY <2>1, <2>2 DEF IInv, TypeOK
  <2>4. NoStreamLeftRunning'
    BY <2>1 DEF IInv, NoStreamLeftRunning
  <2>5. StreamsInOrder'
    <3>1. \A s \in Opens : s > opened => ~finished'[s] /\ source[s] = undefined
      BY <2>1, <2>2, Numbers DEF IInv, StreamsInOrder
    <3>2. \A q \in Opens : query'[q] = "unused" => sent[q] = 0
      BY <2>1 DEF IInv, StreamsInOrder
    <3>3. stream' \in 0..opened
      BY <1>1, Numbers
    <3>4. QED
      BY <1>1, <3>1, <3>2, <3>3 DEF StreamsInOrder
  <2>6. QED
    BY <1>1, <2>3, <2>4, <2>5
<1>4. QED
  BY <1>2, <1>3

LEMMA AbortStep ==
    ASSUME IInv, abort
    PROVE  IInv'
<1>1. /\ ~aborted /\ aborted' = TRUE
      /\ UNCHANGED <<index, opened, source, sent, flow, got, failed, told>>
  BY DEF abort, history
<1>2. CASE closed
  <2>1. UNCHANGED <<closed, stream, results, peeked, finished, query>>
    BY <1>2 DEF abort
  <2>2. TypeOK' /\ OneFlow' /\ StreamsInOrder' /\ NoStreamLeftRunning'
    BY <1>1, <2>1 DEF IInv, TypeOK, OneFlow, StreamsInOrder, NoStreamLeftRunning
  <2>3. \A f \in Flows : flow[f] = Idle
    BY <1>1, <1>2 DEF IInv, ReadsOfAnOpenCursor
  <2>4. ReadsOfAnOpenCursor' /\ AsksItsStream'
    BY <1>1, <2>1, <2>3, IdleIs DEF IInv, ReadsOfAnOpenCursor, AsksItsStream
  <2>5. CursorAtRow' /\ EndIsTheEnd'
    BY <1>1, <2>1 DEF IInv, CursorAtRow, EndIsTheEnd
  <2>6. QED
    BY <2>2, <2>4, <2>5 DEF IInv
<1>3. CASE ~closed
  <2>1. closed' = TRUE /\ release
    BY <1>3 DEF abort, close
  <2>2. /\ stream' = undefined /\ results' = FALSE /\ peeked' = undefined
        /\ StreamsInOrder' /\ NoStreamLeftRunning'
        /\ finished' \in [Opens -> BOOLEAN]
        /\ query' \in [Opens -> {"unused", "running", "buffered", "cancelled", "over"}]
        /\ stream # undefined => finished'[stream]
    BY <1>1, <2>1, Releases
  <2>3. TypeOK' /\ OneFlow'
    BY <1>1, <2>1, <2>2 DEF IInv, TypeOK, OneFlow
  <2>4. ReadsOfAnOpenCursor'
    BY <1>1, <2>1, <2>2 DEF IInv, ReadsOfAnOpenCursor
  <2>5. AsksItsStream'
    BY <1>1, <2>2, Numbers DEF IInv, AsksItsStream
  <2>6. CursorAtRow' /\ EndIsTheEnd'
    BY <1>1, <2>1, <2>2 DEF IInv, CursorAtRow, EndIsTheEnd
  <2>7. QED
    BY <2>2, <2>3, <2>4, <2>5, <2>6 DEF IInv
<1>4. QED
  BY <1>2, <1>3

LEMMA CloseStep ==
    ASSUME IInv, NEW f \in Flows, Alone(f), close, flow'[f] = Idle,
           Went(f), told' \in [Flows -> Answers], EndsRightly',
           UNCHANGED <<aborted, index, opened, source, sent, got, failed>>
    PROVE  IInv'
<1>1. closed' = TRUE /\ release
  BY DEF close
<1>2. /\ stream' = undefined /\ results' = FALSE /\ peeked' = undefined
      /\ StreamsInOrder' /\ NoStreamLeftRunning'
      /\ finished' \in [Opens -> BOOLEAN]
      /\ query' \in [Opens -> {"unused", "running", "buffered", "cancelled", "over"}]
  BY <1>1, Releases
<1>3. TypeOK'
  BY <1>1, <1>2 DEF IInv, TypeOK, Went, FlowRecords, Answers
<1>4. OneFlow' /\ AsksItsStream' /\ ReadsOfAnOpenCursor'
  BY <1>1, <1>2, IdleIs DEF Went, OneFlow, AsksItsStream, ReadsOfAnOpenCursor
<1>5. CursorAtRow' /\ EndIsTheEnd'
  BY <1>1, <1>2 DEF IInv, CursorAtRow, EndIsTheEnd, EndsRightly
<1>6. QED
  BY <1>2, <1>3, <1>4, <1>5 DEF IInv

LEMMA CallCloseStep ==
    ASSUME IInv, ~SharesCursor, NEW f \in Flows, callClose(f)
    PROVE  IInv'
<1>1. /\ close /\ Alone(f) /\ flow[f] = Idle
      /\ UNCHANGED <<aborted, index, opened, source, sent, flow, got, failed, told>>
  BY CallsAlone DEF callClose, history
<1>2. Went(f) /\ told' \in [Flows -> Answers] /\ EndsRightly'
  BY <1>1 DEF Went, Alone, IInv, TypeOK, FlowRecords, Answers, EndsRightly, EndIsTheEnd
<1>3. QED
  BY <1>1, <1>2, CloseStep

LEMMA BodyLeavesStep ==
    ASSUME IInv, NEW f \in Flows, bodyLeaves(f)
    PROVE  IInv'
<1>1. /\ Alone(f) /\ returns(f, "left")
      /\ UNCHANGED <<aborted, index, opened, source, sent, got, failed>>
  BY Inside, IdleIs DEF bodyLeaves
<1>2. CASE stream = undefined
  BY <1>1, <1>2, OverQuietly DEF bodyLeaves, cursor, streams, Answers
<1>3. CASE stream # undefined
  <2>1. close
    BY <1>3 DEF bodyLeaves
  <2>2. /\ Went(f) /\ flow'[f] = Idle
        /\ told' \in [Flows -> Answers] /\ told'[f] = "left"
        /\ \A g \in Flows : g # f => told'[g] = told[g]
    BY <1>1, Returns DEF Answers
  <2>3. EndsRightly'
    BY <1>1, <2>2 DEF EndsRightly, IInv, EndIsTheEnd
  <2>4. QED
    BY <1>1, <2>1, <2>2, <2>3, CloseStep
<1>4. QED
  BY <1>2, <1>3

LEMMA RewindStep ==
    ASSUME IInv, ~SharesCursor, NEW f \in Flows, rewind(f)
    PROVE  IInv'
<1>1. /\ release /\ Alone(f) /\ flow[f] = Idle
      /\ index' = 0 /\ closed' = FALSE /\ got' = << >> /\ failed' = FALSE
      /\ told' = [g \in Flows |-> "nothing"]
      /\ UNCHANGED <<aborted, opened, source, sent, flow>>
  BY CallsAlone DEF rewind
<1>2. /\ stream' = undefined /\ results' = FALSE /\ peeked' = undefined
      /\ StreamsInOrder' /\ NoStreamLeftRunning'
      /\ finished' \in [Opens -> BOOLEAN]
      /\ query' \in [Opens -> {"unused", "running", "buffered", "cancelled", "over"}]
  BY <1>1, Releases
<1>3. \A g \in Flows : flow'[g] = Idle
  BY <1>1 DEF Alone
<1>4. TypeOK'
  <2>1. 0 \in 0..Rows /\ << >> \in Seq(1..Rows)
    BY RowsAreNat
  <2>2. told' \in [Flows -> Answers]
    BY <1>1 DEF Answers
  <2>3. QED
    BY <1>1, <1>2, <2>1, <2>2 DEF IInv, TypeOK, Answers
<1>5. OneFlow' /\ AsksItsStream' /\ ReadsOfAnOpenCursor'
  BY <1>1, <1>2, <1>3, IdleIs DEF OneFlow, AsksItsStream, ReadsOfAnOpenCursor
<1>6. CursorAtRow' /\ EndIsTheEnd'
  BY <1>1, <1>2 DEF CursorAtRow, EndIsTheEnd
<1>7. QED
  BY <1>2, <1>4, <1>5, <1>6 DEF IInv

-----------------------------------------------------------------------------
(* What a call begins *)

LEMMA RefusedStep ==
    ASSUME IInv, ~SharesCursor, NEW f \in Flows, refused(f)
    PROVE  IInv'
<1>1. PICK answer \in {"reason", "exhausted"} : returns(f, answer)
  BY DEF refused
<1>2. QED
  BY <1>1, CallsAlone, OverQuietly DEF refused, Answers

LEMMA FromResultsStep ==
    ASSUME IInv, ~SharesCursor, NEW f \in Flows, fromResults(f)
    PROVE  IInv'
<1>1. PICK answer \in {"whole", "count"} : returns(f, answer)
  BY DEF fromResults
<1>2. QED
  BY <1>1, CallsAlone, OverQuietly DEF fromResults, Answers

LEMMA Calls ==
    ASSUME IInv, ~SharesCursor, NEW f \in Flows, NEW op \in Reads,
           NEW at \in {"begun", "looping", "loading"}, calls(f, op, at)
    PROVE  /\ flow'[f].at = at /\ flow'[f].op = op /\ flow[f] = Idle
           /\ \A g \in Flows : g # f => flow'[g] = Idle
           /\ flow' \in [Flows -> FlowRecords]
           /\ ~aborted /\ ~closed
<1>1. Alone(f) /\ flow[f] = Idle /\ ~aborted /\ ~closed
  BY CallsAlone DEF calls
<1>2. flow' = [flow EXCEPT ![f] = [Idle EXCEPT !.at = at, !.op = op]]
  BY DEF calls
<1>3. /\ [Idle EXCEPT !.at = at, !.op = op] \in FlowRecords
      /\ [Idle EXCEPT !.at = at, !.op = op].at = at
      /\ [Idle EXCEPT !.at = at, !.op = op].op = op
  BY IdleIs DEF FlowRecords
<1>4. flow \in [Flows -> FlowRecords]
  BY DEF IInv, TypeOK, FlowRecords
<1>5. QED
  BY <1>1, <1>2, <1>3, <1>4 DEF Alone

LEMMA ToArrayStep ==
    ASSUME IInv, ~SharesCursor, NEW f \in Flows, toArray(f) \/ count(f)
    PROVE  IInv'
<1>1. PICK op \in Reads, at \in {"looping", "loading"} :
          /\ calls(f, op, at)
          /\ at = "looping" => stream # undefined
          /\ at = "loading" => op \in {"toArray", "count"} /\ ~results
          /\ at = "loading" /\ op = "toArray" => stream = undefined
  BY DEF toArray, count, Reads
<1>2. UNCHANGED <<aborted, closed, results, index, stream, peeked, opened, source,
                  finished, query, sent, got, failed, told>>
  BY DEF toArray, count, cursor, streams, history
<1>3. /\ flow'[f].at = at /\ flow'[f].op = op /\ flow[f] = Idle
      /\ \A g \in Flows : g # f => flow'[g] = Idle
      /\ flow' \in [Flows -> FlowRecords]
      /\ ~aborted /\ ~closed
  BY <1>1, Calls
<1>4. TypeOK' /\ OneFlow' /\ AsksItsStream'
  BY <1>2, <1>3, IdleIs DEF IInv, TypeOK, FlowRecords, OneFlow, AsksItsStream
<1>5. ReadsOfAnOpenCursor'
  BY <1>1, <1>2, <1>3, IdleIs DEF IInv, ReadsOfAnOpenCursor, started
<1>6. StreamsInOrder' /\ NoStreamLeftRunning'
  BY <1>2, StreamsKept
<1>7. CursorAtRow' /\ EndIsTheEnd'
  BY <1>2 DEF IInv, CursorAtRow, EndIsTheEnd
<1>8. QED
  BY <1>4, <1>5, <1>6, <1>7 DEF IInv

LEMMA BeginStep ==
    ASSUME IInv, ~SharesCursor, NEW f \in Flows, NEW op \in Reads, begin(f, op)
    PROVE  IInv'
<1>1. /\ flow'[f].at = "begun" /\ flow'[f].op = op /\ flow[f] = Idle
      /\ \A g \in Flows : g # f => flow'[g] = Idle
      /\ flow' \in [Flows -> FlowRecords]
      /\ ~aborted /\ ~closed
  BY Calls DEF begin
<1>2. UNCHANGED <<aborted, closed, results, index, peeked, source, finished, query, sent,
                  got, failed, told>>
  BY DEF begin, history
<1>3. CASE started /\ UNCHANGED <<stream, opened>>
  <2>0. UNCHANGED <<stream, opened>>
    BY <1>3
  <2>1. TypeOK' /\ OneFlow' /\ AsksItsStream'
    <3>1. TypeOK'
      BY <1>1, <1>2, <2>0 DEF IInv, TypeOK, FlowRecords
    <3>2. OneFlow' /\ AsksItsStream'
      BY <1>1, IdleIs DEF OneFlow, AsksItsStream
    <3>3. QED
      BY <3>1, <3>2
  <2>2. ReadsOfAnOpenCursor'
    BY <1>1, <1>2, <1>3, IdleIs DEF IInv, ReadsOfAnOpenCursor, started
  <2>3. StreamsInOrder' /\ NoStreamLeftRunning'
    BY <1>2, <2>0, StreamsKept
  <2>4. CursorAtRow' /\ EndIsTheEnd'
    BY <1>2, <1>3 DEF IInv, CursorAtRow, EndIsTheEnd
  <2>5. QED
    BY <2>1, <2>2, <2>3, <2>4 DEF IInv
<1>4. CASE ~started /\ opened < MaxOpens /\ opened' = opened + 1 /\ stream' = opened + 1
  <2>1. /\ stream' \in Opens /\ opened' \in 0..MaxOpens /\ stream' # undefined
        /\ stream' \in 0..opened' /\ stream' > opened
    BY <1>4, Numbers
  <2>2. /\ ~results /\ stream = undefined /\ got = << >> /\ peeked = undefined
        /\ peeked # DONE
    <3>1. ~results /\ stream = undefined
      BY <1>4 DEF started
    <3>2. index = 0 /\ index = Len(got) /\ peeked = undefined
      BY <1>1, <3>1 DEF IInv, CursorAtRow
    <3>3. got \in Seq(1..Rows)
      BY DEF IInv, TypeOK
    <3>4. got = << >>
      BY <3>2, <3>3
    <3>5. QED
      BY <3>1, <3>2, <3>4, Numbers
  <2>3. ~finished[stream'] /\ source[stream'] = undefined
    BY <2>1 DEF IInv, StreamsInOrder
  <2>4. TypeOK' /\ OneFlow' /\ AsksItsStream'
    BY <1>1, <1>2, <2>1, IdleIs DEF IInv, TypeOK, FlowRecords, OneFlow, AsksItsStream
  <2>5. ReadsOfAnOpenCursor'
    BY <1>1, <1>2, <2>1, <2>2, IdleIs DEF IInv, ReadsOfAnOpenCursor, started
  <2>6. StreamsInOrder'
    BY <1>2, <1>4, <2>1, <2>3, Numbers DEF IInv, StreamsInOrder
  <2>7. NoStreamLeftRunning'
    BY <1>2, <2>2 DEF IInv, NoStreamLeftRunning
  <2>8. CursorAtRow'
    <3>1. \A i \in 1..Len(got') : got'[i] = i
      BY <1>2 DEF IInv, CursorAtRow
    <3>2. QED
      BY <1>2, <2>1, <2>2, <2>3, <3>1 DEF CursorAtRow
  <2>9. EndIsTheEnd'
    BY <1>2, <2>2, <2>3 DEF IInv, EndIsTheEnd
  <2>10. QED
    BY <2>4, <2>5, <2>6, <2>7, <2>8, <2>9 DEF IInv
<1>5. QED
  BY <1>3, <1>4 DEF begin

-----------------------------------------------------------------------------
(* What is read whole *)

LEMMA LoadedStep ==
    ASSUME IInv, NEW f \in Flows, loaded(f)
    PROVE  IInv'
<1>1. /\ flow[f].at = "loading" /\ flow[f] # Idle /\ Alone(f) /\ ~results
      /\ UNCHANGED <<aborted, closed, index, stream, peeked, opened, source, finished,
                     query, sent, got, failed>>
  BY Inside, IdleIs DEF loaded, streams, IInv, ReadsOfAnOpenCursor
<1>2. results' = TRUE => stream = undefined
  BY <1>1 DEF loaded, IInv, ReadsOfAnOpenCursor
<1>3. results' \in BOOLEAN /\ (stream = undefined => results' = TRUE)
  BY <1>1 DEF loaded, IInv, TypeOK
<1>4. PICK answer \in {"whole", "count"} : returns(f, answer)
  BY DEF loaded
<1>5. /\ Went(f) /\ flow'[f] = Idle
      /\ told' \in [Flows -> Answers] /\ told'[f] = answer
      /\ \A g \in Flows : g # f => told'[g] = told[g]
  BY <1>1, <1>4, Returns DEF Answers
<1>6. TypeOK'
  BY <1>1, <1>3, <1>5 DEF IInv, TypeOK, Went, FlowRecords, Answers
<1>7. OneFlow' /\ AsksItsStream'
  BY <1>5, IdleIs DEF Went, OneFlow, AsksItsStream
<1>8. ReadsOfAnOpenCursor'
  BY <1>1, <1>2, <1>3, <1>5 DEF Went, IInv, ReadsOfAnOpenCursor
<1>9. StreamsInOrder' /\ NoStreamLeftRunning'
  BY <1>1, StreamsKept
<1>10. CursorAtRow' /\ EndIsTheEnd'
  BY <1>1, <1>3, <1>5 DEF IInv, CursorAtRow, EndIsTheEnd
<1>11. QED
  BY <1>6, <1>7, <1>8, <1>9, <1>10 DEF IInv

LEMMA LoadFailsStep ==
    ASSUME IInv, NEW f \in Flows, loadFails(f)
    PROVE  IInv'
<1>1. PICK answer \in {"reason", "error"} : returns(f, answer)
  BY DEF loadFails
<1>2. QED
  BY <1>1, Inside, IdleIs, OverQuietly DEF loadFails, Answers

-----------------------------------------------------------------------------
(* What becomes of a row that was asked for *)

\* What a flow that awaits a row of the stream knows of the cursor.
LEMMA Awaits ==
    ASSUME IInv, NEW f \in Flows, flow[f].at \in {"opening", "reading"}
    PROVE  /\ Alone(f) /\ flow[f] # Idle /\ flow[f] \in FlowRecords
           /\ ~results /\ peeked = undefined
           /\ flow[f].on \in 1..opened /\ flow[f].on \in Opens
           /\ flow[f].query = source[flow[f].on]
           /\ \/ stream = flow[f].on /\ ~finished[stream]
              \/ aborted /\ stream = undefined /\ finished[flow[f].on]
           /\ ~aborted => ~closed
           /\ aborted => closed
<1>1. flow[f] # Idle
  BY IdleIs
<1>2. Alone(f)
  BY <1>1, Inside
<1>3. /\ flow[f].on \in 1..opened /\ flow[f].query = source[flow[f].on]
      /\ \/ stream = flow[f].on /\ ~finished[stream]
         \/ aborted /\ stream = undefined /\ finished[flow[f].on]
      /\ peeked = undefined /\ ~results
  BY DEF IInv, AsksItsStream
<1>4. flow[f].on \in Opens /\ flow[f] \in FlowRecords
  BY <1>3, Numbers DEF IInv, TypeOK, FlowRecords
<1>5. (~aborted => ~closed) /\ (aborted => closed)
  BY <1>1 DEF IInv, ReadsOfAnOpenCursor
<1>6. QED
  BY <1>1, <1>2, <1>3, <1>4, <1>5

\* A step that arrives is read ahead by hasNext, and handed out by any other read.
LEMMA Arrives ==
    ASSUME IInv, NEW f \in Flows, flow[f].at \in {"opening", "reading"},
           NEW step, rightStep(step), arrives(f, step),
           UNCHANGED <<aborted, closed, results, index, stream>>
    PROVE  /\ flow' \in [Flows -> FlowRecords] /\ told' \in [Flows -> Answers]
           /\ got' \in Seq(1..Rows) /\ failed' = failed
           /\ \A i \in 1..Len(got') : got'[i] = i
           /\ OneFlow' /\ AsksItsStream' /\ ReadsOfAnOpenCursor' /\ EndsRightly'
           /\ step = DONE => got' = got /\ peeked' \in {undefined, DONE}
           /\ step # DONE =>
                 \/ got' = got /\ peeked' = step
                 \/ Len(got') = Len(got) + 1 /\ peeked' = undefined
<1>1. /\ Alone(f) /\ flow[f] # Idle /\ peeked = undefined
      /\ ~aborted => ~closed /\ stream # undefined
  BY Awaits, Numbers
<1>2. CASE flow[f].op = "hasNext"
  <2>1. peeked' = step /\ answers(f, step)
    BY <1>2 DEF arrives
  <2>2. /\ Went(f) /\ flow'[f] = Idle /\ told' \in [Flows -> Answers]
        /\ UNCHANGED <<got, failed>> /\ EndsRightly'
    BY <1>1, <2>1, Answered
  <2>3. OneFlow' /\ AsksItsStream' /\ ReadsOfAnOpenCursor'
    BY <1>1, <2>2, PlaceKept
  <2>4. QED
    BY <2>1, <2>2, <2>3 DEF Went, IInv, TypeOK, CursorAtRow
<1>3. CASE flow[f].op # "hasNext"
  <2>1. hands(f, step) /\ peeked' = peeked
    BY <1>3 DEF arrives
  <2>2. /\ Went(f)
        /\ told' \in [Flows -> Answers] /\ got' \in Seq(1..Rows) /\ UNCHANGED failed
        /\ \A i \in 1..Len(got') : got'[i] = i
        /\ step = DONE => got' = got /\ flow'[f] = Idle
        /\ step # DONE => Len(got') = Len(got) + 1
        /\ EndsRightly'
    BY <1>1, <2>1, Hands
  <2>3. OneFlow' /\ AsksItsStream' /\ ReadsOfAnOpenCursor'
    BY <1>1, <2>1, <2>2, PlaceKept DEF started
  <2>4. QED
    BY <1>1, <2>1, <2>2, <2>3 DEF Went
<1>4. QED
  BY <1>2, <1>3

\* The open is done after the signal took the stream: nothing is sent.
LEMMA OpenedTooLate ==
    ASSUME IInv, NEW f \in Flows, flow[f].at = "opening", finished[flow[f].on],
           arrives(f, DONE),
           UNCHANGED <<aborted, closed, results, index, stream, streams>>
    PROVE  IInv'
<1>1. aborted /\ stream = undefined /\ closed
  BY Awaits
<1>2. rightStep(DONE)
  BY <1>1, Numbers DEF rightStep
<1>3. /\ flow' \in [Flows -> FlowRecords] /\ told' \in [Flows -> Answers]
      /\ got' = got /\ failed' = failed /\ peeked' \in {undefined, DONE}
      /\ OneFlow' /\ AsksItsStream' /\ ReadsOfAnOpenCursor' /\ EndsRightly'
  BY <1>2, Arrives
<1>4. StreamsInOrder' /\ NoStreamLeftRunning'
  BY StreamsKept DEF streams
<1>5. CursorAtRow' /\ EndIsTheEnd'
  BY <1>1, <1>3 DEF IInv, CursorAtRow, EndIsTheEnd
<1>6. TypeOK'
  <2>1. peeked' \in Steps \cup {undefined}
    BY <1>3, Numbers
  <2>2. got' \in Seq(1..Rows)
    BY <1>3 DEF IInv, TypeOK
  <2>3. QED
    BY <1>3, <2>1, <2>2 DEF streams, IInv, TypeOK, FlowRecords, Answers
<1>7. QED
  BY <1>3, <1>4, <1>5, <1>6 DEF IInv

\* The open is done, and the query it sends is the stream's.
LEMMA OpenedInTime ==
    ASSUME IInv, NEW f \in Flows, flow[f].at = "opening", ~finished[flow[f].on],
           NEW q \in Opens, query[q] = "unused",
           query' = [query EXCEPT ![q] = "running"],
           source' = [source EXCEPT ![flow[f].on] = q],
           flow' = [flow EXCEPT ![f].at = "reading", ![f].query = q],
           UNCHANGED <<aborted, closed, results, index, stream, opened, finished, sent,
                       peeked, got, failed, told>>
    PROVE  IInv'
<1>1. /\ Alone(f) /\ flow[f] # Idle /\ flow[f] \in FlowRecords
      /\ ~results /\ peeked = undefined
      /\ flow[f].on \in 1..opened /\ flow[f].on \in Opens
      /\ stream = flow[f].on /\ ~finished[stream]
      /\ ~aborted => ~closed
      /\ aborted => closed
  BY Awaits
<1>2. source[stream] = undefined /\ stream # undefined /\ q # undefined
  BY <1>1, Numbers DEF IInv, AsksItsStream
<1>3. got = << >> /\ sent[q] = 0
  BY <1>2 DEF IInv, CursorAtRow, StreamsInOrder
<1> DEFINE r == [flow[f] EXCEPT !.at = "reading", !.query = q]
<1>4. /\ r \in FlowRecords /\ r.at = "reading" /\ r.query = q /\ r.on = stream
      /\ r.op = flow[f].op
  BY <1>1 DEF FlowRecords
<1>5. flow \in [Flows -> FlowRecords]
  BY DEF IInv, TypeOK, FlowRecords
<1>6. flow' = [flow EXCEPT ![f] = r]
  BY <1>5 DEF FlowRecords
<1> HIDE DEF r
<1>7. /\ flow'[f] = r /\ \A g \in Flows : g # f => flow'[g] = Idle
      /\ flow' \in [Flows -> FlowRecords]
  BY <1>1, <1>4, <1>5, <1>6 DEF Alone
<1>8. /\ source'[stream] = q /\ source' \in [Opens -> Opens \cup {undefined}]
      /\ \A s \in Opens : s # stream => source'[s] = source[s]
  BY <1>1 DEF IInv, TypeOK
<1>9. /\ query'[q] = "running"
      /\ query' \in [Opens -> {"unused", "running", "buffered", "cancelled", "over"}]
      /\ \A p \in Opens : p # q => query'[p] = query[p]
  BY DEF IInv, TypeOK
<1>10. TypeOK'
  BY <1>7, <1>8, <1>9 DEF IInv, TypeOK, FlowRecords
<1>11. OneFlow'
  BY <1>7 DEF OneFlow
<1>12. ReadsOfAnOpenCursor'
  BY <1>1, <1>4, <1>7 DEF IInv, ReadsOfAnOpenCursor
<1>13. StreamsInOrder'
  <2>1. \A s \in Opens : s > opened => ~finished[s] /\ source'[s] = undefined
    BY <1>1, <1>8, Numbers DEF IInv, StreamsInOrder
  <2>2. \A p \in Opens : query'[p] = "unused" => sent[p] = 0
    BY <1>9 DEF IInv, StreamsInOrder
  <2>3. QED
    BY <1>8, <1>9, <2>1, <2>2 DEF IInv, StreamsInOrder
<1>14. AsksItsStream'
  BY <1>1, <1>2, <1>3, <1>4, <1>7, <1>8, IdleIs DEF AsksItsStream
<1>15. CursorAtRow'
  BY <1>1, <1>2, <1>3, <1>8 DEF IInv, CursorAtRow
<1>16. EndIsTheEnd'
  BY <1>1, <1>2 DEF IInv, EndIsTheEnd
<1>17. NoStreamLeftRunning'
  <2>1. ASSUME NEW p \in Opens, query'[p] = "running"
        PROVE  p = q
    BY <1>2, <1>9, <2>1, Numbers DEF IInv, NoStreamLeftRunning
  <2>2. QED
    BY <1>2, <1>8, <2>1 DEF NoStreamLeftRunning
<1>18. QED
  BY <1>10, <1>11, <1>12, <1>13, <1>14, <1>15, <1>16, <1>17 DEF IInv

LEMMA OpenedSourceStep ==
    ASSUME IInv, NEW f \in Flows, openedSource(f)
    PROVE  IInv'
<1>1. CASE finished[flow[f].on]
  BY <1>1, OpenedTooLate DEF openedSource, streams
<1>2. CASE ~finished[flow[f].on]
  <2>1. PICK q \in Opens :
            /\ query[q] = "unused"
            /\ query' = [query EXCEPT ![q] = "running"]
            /\ source' = [source EXCEPT ![flow[f].on] = q]
            /\ flow' = [flow EXCEPT ![f].at = "reading", ![f].query = q]
            /\ UNCHANGED <<peeked, got, failed, told>>
    BY <1>2 DEF openedSource, history
  <2>2. QED
    BY <1>2, <2>1, OpenedInTime DEF openedSource
<1>3. QED
  BY <1>1, <1>2

\* A frame finds the query the stream was opened to as far as the rows are.
LEMMA FrameFinds ==
    ASSUME IInv, NEW f \in Flows, flow[f].at = "reading"
    PROVE  /\ flow[f].query \in Opens /\ flow[f].query # undefined
           /\ sent[flow[f].query] = Len(got) /\ sent[flow[f].query] \in 0..Rows
           /\ rightStep(sent[flow[f].query] + 1)
           /\ sent[flow[f].query] + 1 = DONE <=> sent[flow[f].query] = Rows
<1>1. flow[f].query # undefined /\ sent[flow[f].query] = Len(got)
  BY DEF IInv, AsksItsStream
<1>2. flow[f].query \in Opens
  BY <1>1, Awaits DEF FlowRecords
<1>3. QED
  BY <1>1, <1>2, Numbers DEF rightStep

\* A row's frame.
LEMMA FrameOfRow ==
    ASSUME IInv, NEW f \in Flows, flow[f].at = "reading",
           NEW q, q = flow[f].query, query[q] \in {"running", "buffered"},
           arrives(f, sent[q] + 1), sent[q] < Rows,
           sent' = [sent EXCEPT ![q] = @ + 1],
           UNCHANGED <<aborted, closed, results, index, stream, opened, source, finished, query>>
    PROVE  IInv'
<1>1. /\ q \in Opens /\ q # undefined /\ sent[q] = Len(got) /\ sent[q] \in 0..Rows
      /\ rightStep(sent[q] + 1) /\ sent[q] + 1 # DONE
  BY FrameFinds, Numbers
<1>2. /\ flow' \in [Flows -> FlowRecords] /\ told' \in [Flows -> Answers]
      /\ got' \in Seq(1..Rows) /\ failed' = failed
      /\ \A i \in 1..Len(got') : got'[i] = i
      /\ OneFlow' /\ AsksItsStream' /\ ReadsOfAnOpenCursor' /\ EndsRightly'
      /\ \/ got' = got /\ peeked' = Len(got) + 1
         \/ Len(got') = Len(got) + 1 /\ peeked' = undefined
  BY <1>1, Arrives
<1>3. /\ q = source[flow[f].on]
      /\ \/ stream = flow[f].on /\ ~finished[stream]
         \/ aborted /\ closed /\ stream = undefined
  BY Awaits
<1>4. /\ sent' \in [Opens -> 0..Rows] /\ sent'[q] = Len(got) + 1
      /\ \A p \in Opens : p # q => sent'[p] = sent[p]
  <2>1. sent[q] + 1 \in 0..Rows /\ sent[q] + 1 = Len(got) + 1
    BY <1>1, Numbers
  <2>2. sent \in [Opens -> 0..Rows]
    BY DEF IInv, TypeOK
  <2>3. QED
    BY <1>1, <2>1, <2>2
<1>5. peeked' \in Steps \cup {undefined} /\ peeked' # DONE
  BY <1>1, <1>2, Numbers
<1>6. TypeOK'
  BY <1>2, <1>4, <1>5 DEF IInv, TypeOK, FlowRecords, Answers
<1>7. StreamsInOrder' /\ NoStreamLeftRunning'
  BY <1>4 DEF IInv, StreamsInOrder, NoStreamLeftRunning
<1>8. CursorAtRow'
  <2>1. CASE stream = flow[f].on /\ ~finished[stream]
    <3>1. stream # undefined /\ source[stream] = q /\ q # undefined
      BY <1>1, <1>3, <2>1, Awaits, Numbers
    <3>2. IF peeked' \in {undefined, DONE}
          THEN Len(got) + 1 = Len(got')
          ELSE peeked' = Len(got') + 1 /\ Len(got) + 1 = Len(got') + 1
      BY <1>1, <1>2, Numbers
    <3>3. QED
      BY <1>2, <1>4, <3>1, <3>2 DEF CursorAtRow
  <2>2. CASE aborted /\ closed /\ stream = undefined
    BY <1>2, <2>2 DEF CursorAtRow
  <2>3. QED
    BY <1>3, <2>1, <2>2
<1>9. EndIsTheEnd'
  BY <1>2, <1>3, <1>5 DEF EndIsTheEnd, EndsRightly
<1>10. QED
  BY <1>2, <1>6, <1>7, <1>8, <1>9 DEF IInv

\* The end of the statement.
LEMMA FrameOfEnd ==
    ASSUME IInv, NEW f \in Flows, flow[f].at = "reading",
           NEW q, q = flow[f].query, query[q] \in {"running", "buffered"},
           arrives(f, sent[q] + 1), sent[q] = Rows,
           finished' = [finished EXCEPT ![flow[f].on] = TRUE],
           query' = [query EXCEPT ![q] = "over"],
           UNCHANGED <<aborted, closed, results, index, stream, opened, source, sent>>
    PROVE  IInv'
<1>1. /\ q \in Opens /\ q # undefined /\ sent[q] = Len(got)
      /\ rightStep(sent[q] + 1) /\ sent[q] + 1 = DONE
  BY FrameFinds
<1>2. /\ flow' \in [Flows -> FlowRecords] /\ told' \in [Flows -> Answers]
      /\ got' = got /\ failed' = failed /\ peeked' \in {undefined, DONE}
      /\ OneFlow' /\ AsksItsStream' /\ ReadsOfAnOpenCursor' /\ EndsRightly'
  BY <1>1, Arrives DEF IInv, TypeOK
<1>3. /\ q = source[flow[f].on] /\ flow[f].on \in 1..opened /\ flow[f].on \in Opens
      /\ \/ stream = flow[f].on /\ ~finished[stream]
         \/ aborted /\ closed /\ stream = undefined
  BY Awaits
<1>4. /\ finished' \in [Opens -> BOOLEAN]
      /\ \A s \in Opens : s # flow[f].on => finished'[s] = finished[s]
      /\ query' \in [Opens -> {"unused", "running", "buffered", "cancelled", "over"}]
      /\ query'[q] = "over" /\ \A p \in Opens : p # q => query'[p] = query[p]
  BY <1>1 DEF IInv, TypeOK
<1>5. TypeOK'
  <2>1. peeked' \in Steps \cup {undefined}
    BY <1>2, Numbers
  <2>2. got' \in Seq(1..Rows)
    BY <1>2 DEF IInv, TypeOK
  <2>3. QED
    BY <1>2, <1>4, <2>1, <2>2 DEF IInv, TypeOK, FlowRecords, Answers
<1>6. StreamsInOrder' /\ NoStreamLeftRunning'
  <2>1. \A s \in Opens : s > opened => ~finished'[s] /\ source[s] = undefined
    BY <1>3, <1>4, Numbers DEF IInv, StreamsInOrder
  <2>2. \A p \in Opens : query'[p] \in {"unused", "cancelled", "running"} => query[p] = query'[p]
    BY <1>4
  <2>3. QED
    BY <1>4, <2>1, <2>2 DEF IInv, TypeOK, StreamsInOrder, NoStreamLeftRunning
<1>7. CursorAtRow' /\ EndIsTheEnd'
  <2>1. CASE stream = flow[f].on /\ ~finished[stream]
    <3>1. stream # undefined /\ source[stream] = q
      BY <1>3, <2>1, Numbers
    <3>2. \A i \in 1..Len(got') : got'[i] = i
      BY <1>2 DEF IInv, CursorAtRow
    <3>3. CursorAtRow'
      BY <1>1, <1>2, <3>1, <3>2 DEF CursorAtRow
    <3>4. Len(got) = Rows
      BY <1>1
    <3>5. EndIsTheEnd'
      BY <1>1, <1>2, <3>1, <3>4 DEF EndIsTheEnd
    <3>6. QED
      BY <3>3, <3>5
  <2>2. CASE aborted /\ closed /\ stream = undefined
    BY <1>2, <2>2 DEF IInv, CursorAtRow, EndIsTheEnd
  <2>3. QED
    BY <1>3, <2>1, <2>2
<1>8. QED
  BY <1>2, <1>5, <1>6, <1>7 DEF IInv

LEMMA FrameArrivesStep ==
    ASSUME IInv, NEW f \in Flows, frameArrives(f)
    PROVE  IInv'
<1> DEFINE q == flow[f].query
<1>1. /\ flow[f].at = "reading" /\ query[q] \in {"running", "buffered"}
      /\ arrives(f, sent[q] + 1)
      /\ UNCHANGED <<aborted, closed, results, index, stream, opened, source>>
  BY DEF frameArrives
<1>2. sent[q] \in 0..Rows
  BY <1>1, FrameFinds
<1>3. CASE sent[q] < Rows
  <2>1. sent' = [sent EXCEPT ![q] = @ + 1] /\ UNCHANGED <<finished, query>>
    BY <1>3 DEF frameArrives
  <2>2. QED
    BY <1>1, <1>3, <2>1, FrameOfRow
<1>4. CASE sent[q] = Rows
  <2>1. /\ finished' = [finished EXCEPT ![flow[f].on] = TRUE]
        /\ query' = [query EXCEPT ![q] = "over"]
        /\ UNCHANGED sent
    BY <1>4, RowsAreNat DEF frameArrives
  <2>2. QED
    BY <1>1, <1>4, <2>1, FrameOfEnd
<1>5. QED
  BY <1>2, <1>3, <1>4, RowsAreNat

LEMMA FallsBackStep ==
    ASSUME IInv, NEW f \in Flows, fallsBack(f)
    PROVE  IInv'
<1> DEFINE q == flow[f].query
<1>1. /\ query[q] = "running" /\ query' = [query EXCEPT ![q] = "buffered"]
      /\ UNCHANGED <<aborted, closed, results, index, stream, peeked, opened, source,
                     finished, sent, flow, got, failed, told>>
  BY DEF fallsBack, cursor, history
<1>2. q \in Opens
  BY FrameFinds DEF fallsBack
<1>3. /\ query' \in [Opens -> {"unused", "running", "buffered", "cancelled", "over"}]
      /\ query'[q] = "buffered" /\ \A p \in Opens : p # q => query'[p] = query[p]
  BY <1>1, <1>2 DEF IInv, TypeOK
<1> HIDE DEF q
<1>4. TypeOK'
  BY <1>1, <1>3 DEF IInv, TypeOK
<1>5. OneFlow' /\ ReadsOfAnOpenCursor' /\ AsksItsStream'
  BY <1>1 DEF IInv, OneFlow, ReadsOfAnOpenCursor, AsksItsStream, started
<1>6. StreamsInOrder' /\ NoStreamLeftRunning'
  <2>1. \A p \in Opens : query'[p] \in {"unused", "cancelled", "running"} => query[p] = query'[p]
    BY <1>3
  <2>2. QED
    BY <1>1, <2>1, <1>3 DEF IInv, TypeOK, StreamsInOrder, NoStreamLeftRunning
<1>7. CursorAtRow' /\ EndIsTheEnd'
  BY <1>1 DEF IInv, CursorAtRow, EndIsTheEnd
<1>8. QED
  BY <1>4, <1>5, <1>6, <1>7 DEF IInv

LEMMA ReadFailsStep ==
    ASSUME IInv, NEW f \in Flows, readFails(f)
    PROVE  IInv'
<1> DEFINE q == flow[f].query
           leaves == flow[f].op = "forAwait" /\ stream # undefined
<1>1. /\ flow[f].at \in {"opening", "reading"}
      /\ failed' = TRUE
      /\ finished' = [s \in Opens |->
            finished[s] \/ s = flow[f].on \/ (leaves /\ s = stream)]
      /\ query' = [r \in Opens |->
            CASE r = q -> "over"
              [] r # q /\ leaves /\ r = source[stream] /\ query[r] = "running" -> "cancelled"
              [] OTHER -> query[r]]
      /\ \/ /\ leaves
            /\ closed' = TRUE /\ stream' = undefined /\ results' = FALSE
            /\ peeked' = undefined
         \/ ~leaves /\ UNCHANGED <<closed, stream, results, peeked>>
      /\ UNCHANGED <<aborted, index, opened, source, sent, got>>
  BY DEF readFails
<1>2. /\ flow[f].on \in 1..opened /\ flow[f].on \in Opens /\ Alone(f) /\ ~results
      /\ peeked = undefined
  BY <1>1, Awaits
<1>3. PICK answer \in {"reason", "error"} : returns(f, answer)
  BY DEF readFails
<1>4. Went(f) /\ flow'[f] = Idle /\ told' \in [Flows -> Answers]
  BY <1>2, <1>3, Returns DEF Answers
<1>5. /\ query' \in [Opens -> {"unused", "running", "buffered", "cancelled", "over"}]
      /\ \A r \in Opens : query'[r] \in {query[r], "over", "cancelled"}
      /\ \A r \in Opens : query'[r] = "cancelled" /\ query[r] # "cancelled" =>
            leaves
      /\ \A r \in Opens : query'[r] = "running" =>
            query[r] = "running" /\ ~(leaves /\ r = source[stream])
  BY <1>1 DEF IInv, TypeOK
<1>6. /\ finished' \in [Opens -> BOOLEAN]
      /\ \A s \in Opens : s > opened => ~finished'[s]
  <2> HIDE DEF q, leaves
  <2>1. /\ finished \in [Opens -> BOOLEAN] /\ stream \in 0..opened
        /\ \A s \in Opens : s > opened => ~finished[s]
    BY DEF IInv, TypeOK, StreamsInOrder
  <2>2. opened \in Nat /\ \A s \in Opens : s \in Nat
    BY Numbers
  <2>3. \A s \in Opens : s > opened => s # flow[f].on /\ s # stream
    BY <1>2, <2>1, <2>2
  <2>4. \A s \in Opens :
            finished'[s] = (finished[s] \/ s = flow[f].on \/ (leaves /\ s = stream))
    BY <1>1
  <2>5. \A s \in Opens : s > opened => ~finished'[s]
    BY <2>1, <2>3, <2>4
  <2>6. finished' \in [Opens -> BOOLEAN]
    BY <1>1
  <2>7. QED
    BY <2>5, <2>6
<1> HIDE DEF q, leaves
<1>7. TypeOK'
  <2>1. closed' \in BOOLEAN /\ results' \in BOOLEAN
    BY <1>1 DEF IInv, TypeOK
  <2>2. stream' \in Opens \cup {undefined} /\ peeked' \in Steps \cup {undefined}
    BY <1>1 DEF IInv, TypeOK
  <2>3. QED
    BY <1>1, <1>4, <1>5, <1>6, <2>1, <2>2 DEF IInv, TypeOK, Went, FlowRecords, Answers
<1>8. OneFlow' /\ AsksItsStream'
  BY <1>4, IdleIs DEF Went, OneFlow, AsksItsStream
<1>9. ReadsOfAnOpenCursor'
  BY <1>1, <1>4 DEF Went, IInv, ReadsOfAnOpenCursor
<1>10. StreamsInOrder'
  <2>1. \A r \in Opens : query'[r] = "unused" => sent[r] = 0
    BY <1>5 DEF IInv, StreamsInOrder
  <2>2. stream' \in 0..opened
    BY <1>1, Numbers DEF IInv, StreamsInOrder
  <2>3. stream' # undefined /\ source[stream'] # undefined =>
            query'[source[stream']] \notin {"unused", "cancelled"}
    <3>1. SUFFICES ASSUME stream' # undefined, source[stream'] # undefined
                   PROVE  query'[source[stream']] \notin {"unused", "cancelled"}
      OBVIOUS
    <3>2. ~leaves /\ stream' = stream
      BY <1>1, <3>1
    <3>3. source[stream] \in Opens /\ query[source[stream]] \notin {"unused", "cancelled"}
      BY <3>1, <3>2 DEF IInv, TypeOK, StreamsInOrder
    <3>4. QED
      BY <1>5, <3>2, <3>3
  <2>4. QED
    BY <1>1, <1>6, <2>1, <2>2, <2>3 DEF IInv, StreamsInOrder
<1>11. NoStreamLeftRunning'
  BY <1>1, <1>5 DEF IInv, NoStreamLeftRunning
<1>12. CursorAtRow'
  BY <1>1 DEF IInv, CursorAtRow
<1>13. EndIsTheEnd'
  BY <1>1 DEF EndIsTheEnd
<1>14. QED
  BY <1>7, <1>8, <1>9, <1>10, <1>11, <1>12, <1>13 DEF IInv

\* Only the signal's close cancels the query of a read that is parked in it.
LEMMA InterruptedStep ==
    ASSUME IInv, NEW f \in Flows, interrupted(f)
    PROVE  IInv'
<1>1. /\ flow[f].at = "reading" /\ query[flow[f].query] = "cancelled"
      /\ UNCHANGED <<aborted, closed, results, index, stream, streams>>
  BY DEF interrupted
<1>2. aborted
  <2>1. flow[f].query # undefined /\ flow[f].query = source[flow[f].on]
        /\ (stream = flow[f].on \/ aborted) /\ flow[f].on \in 1..opened
    BY <1>1, Awaits, FrameFinds
  <2>2. QED
    BY <1>1, <2>1, Numbers DEF IInv, StreamsInOrder
<1>3. returns(f, "reason") /\ UNCHANGED <<peeked, got, failed>>
  BY <1>2 DEF interrupted
<1>4. Alone(f)
  BY <1>1, Awaits
<1>5. QED
  BY <1>1, <1>3, <1>4, OverQuietly DEF Answers, cursor

-----------------------------------------------------------------------------
(* The invariant, and what it shows *)

LEMMA InitInv == Init => IInv
<1> SUFFICES ASSUME Init PROVE IInv
  OBVIOUS
<1>1. TypeOK
  <2>1. 0 \in 0..Rows /\ 0 \in 0..MaxOpens /\ << >> \in Seq(1..Rows)
    BY RowsAreNat
  <2>2. QED
    BY <2>1, IdleIs DEF Init, TypeOK, FlowRecords
<1>2. OneFlow /\ ReadsOfAnOpenCursor /\ AsksItsStream
  BY IdleIs DEF Init, OneFlow, ReadsOfAnOpenCursor, AsksItsStream
<1>3. StreamsInOrder /\ NoStreamLeftRunning
  BY RowsAreNat DEF Init, StreamsInOrder, NoStreamLeftRunning, Opens, undefined
<1>4. CursorAtRow /\ EndIsTheEnd
  BY DEF Init, CursorAtRow, EndIsTheEnd
<1>5. QED
  BY <1>1, <1>2, <1>3, <1>4 DEF IInv

LEMMA NextInv ==
    ASSUME ~SharesCursor
    PROVE  IInv /\ [Next]_vars => IInv'
<1> SUFFICES ASSUME IInv, [Next]_vars PROVE IInv'
  OBVIOUS
<1>1. CASE UNCHANGED vars
  BY <1>1 DEF vars, cursor, streams, history, IInv, TypeOK, OneFlow, ReadsOfAnOpenCursor,
     StreamsInOrder, AsksItsStream, CursorAtRow, EndIsTheEnd, NoStreamLeftRunning, started
<1>2. CASE abort
  BY <1>2, AbortStep
<1>3. ASSUME NEW f \in Flows,
             \/ refused(f) \/ toArray(f) \/ count(f) \/ fromResults(f)
             \/ \E op \in {"next", "hasNext", "forEach", "forAwait"} : begin(f, op)
             \/ callClose(f) \/ rewind(f)
      PROVE  IInv'
  BY <1>3, RefusedStep, ToArrayStep, FromResultsStep, BeginStep, CallCloseStep, RewindStep
     DEF Reads
<1>4. ASSUME NEW f \in Flows,
             bodyReturns(f) \/ bodyLeaves(f) \/ fallsBack(f) \/ resumes(f)
      PROVE  IInv'
  BY <1>4, GoesOnStep, BodyLeavesStep, FallsBackStep, LoadedStep, LoadFailsStep,
     OpenedSourceStep, FrameArrivesStep, ReadFailsStep, InterruptedStep DEF resumes
<1>5. QED
  BY <1>1, <1>2, <1>3, <1>4 DEF Next

\* Every variable of the cursor, its streams and its calls keeps its type: index
\* never passes the last row, and no row is handed out that is not the query's.
THEOREM TypeCorrect ==
    ASSUME ~SharesCursor
    PROVE  Spec => []TypeOK
<1>1. IInv => TypeOK
  BY DEF IInv
<1>2. QED
  BY <1>1, InitInv, NextInv, PTL DEF Spec

\* Of a cursor whose reads are awaited one after another, whatever mix of reads,
\* falls back, failures, rewinds and aborts there is: rows come in order, none
\* missing and none twice, none the server delivered is lost, and a read that
\* reports the end has handed out every row before it.
THEOREM RowsInOrder ==
    ASSUME ~SharesCursor
    PROVE  Spec => []RowsOnceToTheEnd
<1>1. ASSUME IInv PROVE RowsOnceToTheEnd
  <2>1. \A i \in 1..Len(got) : got[i] = i
    BY <1>1 DEF IInv, CursorAtRow
  <2>2. \A f \in Flows :
            told[f] \in {"end", "no"} /\ ~failed /\ ~aborted => Len(got) = Rows
    BY <1>1 DEF IInv, EndIsTheEnd
  <2>3. ASSUME stream # undefined, source[stream] # undefined,
               NEW row \in 1..sent[source[stream]]
        PROVE  peeked = row \/ \E i \in 1..Len(got) : got[i] = row
    <3>1. source[stream] \in Opens /\ sent[source[stream]] \in 0..Rows
      BY <1>1, <2>3 DEF IInv, TypeOK
    <3>2. \/ sent[source[stream]] = Len(got)
          \/ peeked = Len(got) + 1 /\ sent[source[stream]] = Len(got) + 1
      BY <1>1, <2>3 DEF IInv, CursorAtRow
    <3>3. row \in 1..Len(got) \/ row = peeked
      BY <1>1, <3>1, <3>2, Numbers
    <3>4. QED
      BY <2>1, <3>3
  <2>4. QED
    BY <2>1, <2>2, <2>3 DEF RowsOnceToTheEnd
<1>2. QED
  BY <1>1, InitInv, NextInv, PTL DEF Spec

\* However such a cursor is left, by the end, by a break, by close, rewind, a failure
\* or the signal, the server is streaming no query but the one it is reading.
THEOREM NoneLeft ==
    ASSUME ~SharesCursor
    PROVE  Spec => []NoStreamLeftRunning
<1>1. IInv => NoStreamLeftRunning
  BY DEF IInv
<1>2. QED
  BY <1>1, InitInv, NextInv, PTL DEF Spec
=============================================================================
