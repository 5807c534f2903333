------------------------------ MODULE MCCursors ------------------------------
(***************************************************************************)
(* FindCursor and ListCursor in one state space: they share the signal's   *)
(* rules and nothing else, so the application reads one or the other.      *)
(***************************************************************************)
EXTENDS FindCursor

CONSTANT MaxCatalogue       \* bound: collections there may be

ASSUME CatalogueIsNat == MaxCatalogue \in Nat

VARIABLES
    kind,       \* which cursor this is about
    catalogue, listAborted, listClosed, listing, listIndex, listFlow, listGot, since,
    listTold

L == INSTANCE ListCursor WITH
        aborted <- listAborted, closed <- listClosed, results <- listing,
        index <- listIndex, flow <- listFlow, got <- listGot, told <- listTold

list == <<catalogue, listAborted, listClosed, listing, listIndex, listFlow, listGot,
          since, listTold>>

MCInit ==
    /\ Init /\ L!Init
    /\ \/ kind = "list"
       \/ kind = "find" /\ catalogue = 0

MCNext ==
    /\ UNCHANGED kind
    /\ \/ kind = "find" /\ Next /\ UNCHANGED list
       \/ kind = "list" /\ L!Next /\ UNCHANGED vars

MCSpec == MCInit /\ [][MCNext]_<<kind, vars, list>> /\ Fairness

\* "Materialised on first consumption and then walked locally", and read again
\* after a rewind: next() hands out one listing's rows in order, none missing and
\* none twice, and reports its end.
WalksOneListing == L!WalksOneListing
=============================================================================
