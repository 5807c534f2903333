------------------------- MODULE TransactionExecutor -------------------------
(***************************************************************************)
(* A QueryExecutor bound to one SurrealDB transaction                      *)
(* (surreal/transaction-executor.ts). Every statement, commit and cancel   *)
(* of every view of the transaction is chained on one tail promise: it     *)
(* starts when its predecessor has settled, and asks whether the handle is *)
(* live only then.                                                         *)
(*                                                                         *)
(* The SDK handle and the server behind it are external. The handle itself *)
(* interleaves freely (any call it has been given may be performed next),  *)
(* so whatever order there is, the chain provides.                         *)
(***************************************************************************)
EXTENDS Naturals, Sequences

CONSTANTS Statements, Commits, Cancels

Calls   == Statements \cup Commits \cup Cancels
Settles == Commits \cup Cancels

ASSUME KindsDisjoint ==
    /\ Statements \cap Settles = {}
    /\ Commits \cap Cancels = {}

VARIABLES
    isLive,    \* _isLive
    tail,      \* the calls chained and not yet settled, in call order
    phase,     \* how far each call has got
    made,      \* history: how many calls have been made
    ticket,    \* history: the place of each call in call order, 0 before it is made
    server,    \* external: the transaction on the server
    applied    \* external: the statements that took effect, in order

vars == <<isLive, tail, phase, made, ticket, server, applied>>

Phases == { "idle",             \* not made
            "queued",           \* chained behind its predecessors
            "sent",             \* given to the handle
            "performed",        \* done by the server, its reply on the way
            "rejected",         \* refused by the server, its reply on the way
            "ok", "failed",     \* settled by the reply, or by its loss
            "refused" }         \* settled by assertLive

onHandle(c) == phase[c] \in {"sent", "performed", "rejected"}

TypeOK ==
    /\ isLive \in BOOLEAN
    /\ tail \in Seq(Calls)
    /\ phase \in [Calls -> Phases]
    /\ made \in Nat
    /\ ticket \in [Calls -> Nat]
    /\ server \in {"open", "committed", "cancelled"}
    /\ applied \in Seq(Statements)

Init ==
    /\ isLive = TRUE
    /\ tail = << >>
    /\ phase = [c \in Calls |-> "idle"]
    /\ made = 0
    /\ ticket = [c \in Calls |-> 0]
    /\ server = "open"
    /\ applied = << >>

-----------------------------------------------------------------------------
\* Mutant: a commit or cancel goes to the front of the chain.
enqueue_settleJumpsQueue(c) ==
    /\ phase[c] = "idle"
    /\ phase' = [phase EXCEPT ![c] = "queued"]
    /\ made' = made + 1
    /\ ticket' = [ticket EXCEPT ![c] = made + 1]
    /\ tail' = (IF c \in Settles THEN <<c>> \o tail ELSE Append(tail, c))
    /\ UNCHANGED <<isLive, server, applied>>

\* dispatch, dispatchEach, dispatchRows, commit and cancel are one enqueue each.
enqueue(c) ==
    /\ phase[c] = "idle"
    /\ phase' = [phase EXCEPT ![c] = "queued"]
    /\ made' = made + 1
    /\ ticket' = [ticket EXCEPT ![c] = made + 1]
    /\ tail' = Append(tail, c)
    /\ UNCHANGED <<isLive, server, applied>>

\* tail.then(work, work): the oldest unsettled call is the one that may start.
atHead(c) == tail # << >> /\ c = Head(tail)

settle(c, how) ==
    /\ phase' = [phase EXCEPT ![c] = how]
    /\ tail' = Tail(tail)

\* Mutant: a call is given to the handle when it is made, not after its predecessor.
dispatch_unchained(c) ==
    /\ phase[c] = "queued"
    /\ isLive
    /\ phase' = [phase EXCEPT ![c] = "sent"]
    /\ isLive' = (c \in Statements)
    /\ UNCHANGED <<tail, made, ticket, server, applied>>

\* Mutant: the handle is not asked whether it is live.
dispatch_unasked(c) ==
    /\ atHead(c)
    /\ phase[c] = "queued"
    /\ phase' = [phase EXCEPT ![c] = "sent"]
    /\ isLive' = (isLive /\ c \in Statements)
    /\ UNCHANGED <<tail, made, ticket, server, applied>>

\* Mutant: a commit or cancel does not mark the handle spent.
dispatch_neverSpends(c) ==
    /\ atHead(c)
    /\ phase[c] = "queued"
    /\ isLive
    /\ phase' = [phase EXCEPT ![c] = "sent"]
    /\ UNCHANGED <<isLive, tail, made, ticket, server, applied>>

\* The work of a call whose predecessor has settled. A commit or cancel marks
\* the handle spent before its round trip, not after.
dispatch(c) ==
    /\ atHead(c)
    /\ phase[c] = "queued"
    /\ isLive
    /\ phase' = [phase EXCEPT ![c] = "sent"]
    /\ isLive' = (c \in Statements)
    /\ UNCHANGED <<tail, made, ticket, server, applied>>

assertLive(c) ==
    /\ atHead(c)
    /\ phase[c] = "queued"
    /\ ~isLive
    /\ settle(c, "refused")
    /\ UNCHANGED <<isLive, made, ticket, server, applied>>

\* Mutant: the tail is chained on success alone, and stalls behind a rejection.
reply_stallsOnFailure(c) ==
    /\ atHead(c)
    /\ \/ phase[c] = "performed" /\ settle(c, "ok")
       \/ /\ phase[c] = "rejected"
          /\ phase' = [phase EXCEPT ![c] = "failed"]
          /\ UNCHANGED tail
    /\ UNCHANGED <<isLive, made, ticket, server, applied>>

\* The reply of the handle, or the end of the connection it would have come
\* over, which tells the driver nothing of what the server did.
reply(c) ==
    /\ atHead(c)
    /\ \/ phase[c] = "performed" /\ settle(c, "ok")
       \/ phase[c] = "rejected" /\ settle(c, "failed")
    /\ UNCHANGED <<isLive, made, ticket, server, applied>>

replyLost(c) ==
    /\ atHead(c)
    /\ onHandle(c)
    /\ settle(c, "failed")
    /\ UNCHANGED <<isLive, made, ticket, server, applied>>

-----------------------------------------------------------------------------
(* The server: it may take up any call the handle was given, in any order. *)

serverRuns(c) ==
    /\ c \in Statements
    /\ phase[c] = "sent"
    /\ \/ /\ server = "open"
          /\ applied' = Append(applied, c)
          /\ phase' = [phase EXCEPT ![c] = "performed"]
       \/ /\ phase' = [phase EXCEPT ![c] = "rejected"]
          /\ UNCHANGED applied
    /\ UNCHANGED <<isLive, tail, made, ticket, server>>

\* A commit that conflicts with another transaction's is rolled back.
serverCommits(c) ==
    /\ c \in Commits
    /\ phase[c] = "sent"
    /\ \/ /\ server = "open"
          /\ server' = "committed"
          /\ phase' = [phase EXCEPT ![c] = "performed"]
       \/ /\ server' = (IF server = "open" THEN "cancelled" ELSE server)
          /\ phase' = [phase EXCEPT ![c] = "rejected"]
    /\ UNCHANGED <<isLive, tail, made, ticket, applied>>

serverCancels(c) ==
    /\ c \in Cancels
    /\ phase[c] = "sent"
    /\ \/ /\ server = "open"
          /\ server' = "cancelled"
          /\ phase' = [phase EXCEPT ![c] = "performed"]
       \/ /\ phase' = [phase EXCEPT ![c] = "rejected"]
          /\ UNCHANGED server
    /\ UNCHANGED <<isLive, tail, made, ticket, applied>>

Server(c) == serverRuns(c) \/ serverCommits(c) \/ serverCancels(c)
Driver(c) == dispatch(c) \/ assertLive(c) \/ reply(c)

Next == \E c \in Calls : enqueue(c) \/ Driver(c) \/ replyLost(c) \/ Server(c)

\* A promise reaction runs once its promise has settled, and the server
\* answers, or the SDK rejects the call when the connection goes.
Fairness == \A c \in Calls : WF_vars(Driver(c)) /\ WF_vars(Server(c))

Spec     == Init /\ [][Next]_vars
FairSpec == Spec /\ Fairness

-----------------------------------------------------------------------------
(* Properties *)

\* "Two overlapping writes apply in call order": the server sees the
\* statements in the order the callers made them, although the handle would
\* let them overtake one another.
AppliedInCallOrder ==
    \A i, j \in 1..Len(applied) : i < j => ticket[applied[i]] < ticket[applied[j]]

\* "A commit never lands between a statement's dispatch and its reply": once
\* the transaction is settled on the server no statement is with the handle,
\* and a commit covers the calls made before it and no other, nothing made
\* after it taking part in it and nothing made before being left out.
SettleIsABoundary ==
    /\ server # "open" => \A c \in Statements : ~onHandle(c)
    /\ \A c \in Commits, s \in Statements :
          /\ phase[c] \in {"sent", "performed", "ok"}
          /\ 0 < ticket[s] /\ ticket[s] < ticket[c]
          => phase[s] \in {"ok", "failed", "refused"}

\* "The spent handle is never dialled again": whatever is with the handle was
\* given to it while the transaction was open, so the server never has to
\* answer "Transaction not found". A second call on the handle while a settle
\* is there would break this as well as one after it.
SpentHandleNeverDialled ==
    \A c \in Calls : phase[c] = "sent" => server = "open"

\* Every call that was made is settled: a rejected predecessor does not stall
\* the chain behind it.
EveryCallSettles ==
    \A c \in Calls : phase[c] # "idle" ~> phase[c] \in {"ok", "failed", "refused"}

-----------------------------------------------------------------------------
(* Refinement: seen from its callers, this is one indivisible step per call,*)
(* taken when the reply arrives. What the server did for the call that is   *)
(* still with the handle has not happened yet.                              *)

inDoubt == {c \in Calls : onHandle(c)}

Serial == INSTANCE SerialTransaction WITH
    line    <- tail,
    spent   <- ~isLive /\ inDoubt \cap Settles = {},
    server  <- IF inDoubt \cap Settles # {} THEN "open" ELSE server,
    applied <- IF \E c \in inDoubt \cap Statements : phase[c] = "performed"
               THEN SubSeq(applied, 1, Len(applied) - 1) ELSE applied,
    answer  <- [c \in Calls |->
                   CASE phase[c] = "idle" -> "none"
                     [] phase[c] \in {"ok", "failed", "refused"} -> phase[c]
                     [] OTHER -> "waiting"]

ImplementsSerialTransaction == Serial!Spec
=============================================================================
