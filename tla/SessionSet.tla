------------------------------ MODULE SessionSet ------------------------------
(***************************************************************************)
(* The sessions of one MongoClient (client/mongo-client.ts): startSession, *)
(* what a session's owner does with it, endSession                         *)
(* (session/client-session.ts), and close, which ends them one by one      *)
(* before it takes the connection down.                                    *)
(*                                                                         *)
(* An owner makes one call at a time here, and a transaction is what the   *)
(* set can tell apart: the server's half of it begins when the first       *)
(* statement asks for it, and a commit and an abort are one settle.        *)
(* ClientSession is the whole of it.                                       *)
(***************************************************************************)

CONSTANTS
    Sessions,           \* sessions the application may start
    Closers,            \* flows that call close()
    StartsWhileClosing  \* is a session started while close() ends the others?

VARIABLES
    handedOut,  \* sessions startSession() returned
    tracked,    \* _sessions
    hasEnded,   \* the sessions whose hasEnded is set
    txn,        \* per session: its transaction, as the session sees it
    server,     \* external, per session: the transaction the server holds for it;
                \* "left" if its settle failed, and nobody will ask again
    owner,      \* per session: what its owner awaits
    closer,     \* per closer: its copy of _sessions, as far as it has yet to come, and
                \* on, the session whose endSession it awaits, if any
    up,         \* the connection is up: MongoClient's `connected`
    found,      \* history, per closer: the sessions handed out when it called
    late        \* history: sessions given a transaction while a close() ended them

vars == <<handedOut, tracked, hasEnded, txn, server, owner, closer, up, found, late>>

Away == [at |-> "away", left |-> {}, on |-> {}]

\* In endSession one awaits the abort, and then comes its `finally`.
inEndSession == {"aborting", "releasing"}

TypeOK ==
    /\ handedOut \subseteq Sessions
    /\ tracked \subseteq handedOut
    /\ hasEnded \subseteq handedOut
    /\ txn \in [Sessions -> {"none", "starting", "inProgress", "settling"}]
    /\ server \in [Sessions -> {"none", "open", "left"}]
    /\ owner \in [Sessions -> {"idle", "connecting", "beginning", "cancelling",
                               "committing"} \cup inEndSession]
    /\ closer \in [Closers -> [at: {"away", "looping"} \cup inEndSession,
                               left: SUBSET Sessions, on: SUBSET Sessions]]
    /\ up \in BOOLEAN
    /\ found \in [Closers -> SUBSET Sessions]
    /\ late \subseteq handedOut

Init ==
    /\ handedOut = {} /\ tracked = {} /\ hasEnded = {} /\ late = {}
    /\ txn = [s \in Sessions |-> "none"]
    /\ server = [s \in Sessions |-> "none"]
    /\ owner = [s \in Sessions |-> "idle"]
    /\ closer = [c \in Closers |-> Away]
    /\ up = FALSE
    /\ found = [c \in Closers |-> {}]

usable(s) == s \in handedOut /\ s \notin hasEnded
becomes(s, state) == txn' = [txn EXCEPT ![s] = state]
owns(s, at) == owner' = [owner EXCEPT ![s] = at]

connect ==
    /\ ~up
    /\ up' = TRUE
    /\ UNCHANGED <<handedOut, tracked, hasEnded, txn, server, owner, closer, found, late>>

\* What the server held goes with the connection, and a begin in flight rejects.
connectionGone ==
    /\ up' = FALSE
    /\ server' = [s \in Sessions |-> "none"]
    /\ owner' = [s \in Sessions |-> IF owner[s] = "beginning" THEN "idle" ELSE owner[s]]

\* The connection is taken down by a bring-up, of a server it refuses.
refused ==
    /\ connectionGone
    /\ UNCHANGED <<handedOut, tracked, hasEnded, txn, closer, found, late>>

-----------------------------------------------------------------------------
(* What an owner does with a session *)

startSession(s) ==
    /\ s \notin handedOut
    /\ StartsWhileClosing \/ \A c \in Closers : closer[c] = Away
    /\ handedOut' = handedOut \cup {s}
    /\ tracked' = tracked \cup {s}
    /\ UNCHANGED <<hasEnded, txn, server, owner, closer, up, found, late>>

startTransaction(s) ==
    /\ usable(s) /\ owner[s] = "idle"
    /\ txn[s] = "none"
    /\ becomes(s, "starting")
    /\ late' = late \cup {r \in {s} : \E c \in Closers : r \in closer[c].on}
    /\ UNCHANGED <<handedOut, tracked, hasEnded, server, owner, closer, up, found>>

\* The first statement: acquireScope, and _beginTransaction, which awaits the
\* bring-up unless the connection is up.
begin(s) ==
    /\ usable(s) /\ owner[s] = "idle"
    /\ txn[s] = "starting"
    /\ owns(s, IF up THEN "beginning" ELSE "connecting")
    /\ UNCHANGED <<handedOut, tracked, hasEnded, txn, server, closer, up, found, late>>

connectionReady(s) ==
    /\ owner[s] = "connecting"
    /\ up
    /\ owns(s, "beginning")
    /\ UNCHANGED <<handedOut, tracked, hasEnded, txn, server, closer, up, found, late>>

beginRejected(s) ==
    /\ owner[s] \in {"connecting", "beginning"}
    /\ owns(s, "idle")
    /\ UNCHANGED <<handedOut, tracked, hasEnded, txn, server, closer, up, found, late>>

\* Mutant: what opened is kept, whatever became of the session meanwhile.
begun_unasked(s) ==
    /\ owner[s] = "beginning"
    /\ server' = [server EXCEPT ![s] = "open"]
    /\ becomes(s, "inProgress")
    /\ owns(s, "idle")
    /\ UNCHANGED <<handedOut, tracked, hasEnded, closer, up, found, late>>

\* It has opened. Settled before that, it is cancelled, and that is awaited.
begun(s) ==
    /\ owner[s] = "beginning"
    /\ server' = [server EXCEPT ![s] = "open"]
    /\ \/ txn[s] = "starting" /\ becomes(s, "inProgress") /\ owns(s, "idle")
       \/ txn[s] # "starting" /\ UNCHANGED txn /\ owns(s, "cancelling")
    /\ UNCHANGED <<handedOut, tracked, hasEnded, closer, up, found, late>>

\* The server answers a commit or cancel, or it fails: a cancel's failure is
\* swallowed, a commit's leaves the handle spent.
answered(s) ==
    \E left \in {"none", "left"} :
        server' = [server EXCEPT ![s] = IF server[s] = "open" THEN left ELSE server[s]]

discarded(s) ==
    /\ owner[s] = "cancelling"
    /\ answered(s)
    /\ owns(s, "idle")
    /\ UNCHANGED <<handedOut, tracked, hasEnded, txn, closer, up, found, late>>

\* And abortTransaction: of what has not begun, nothing is sent.
commitTransaction(s) ==
    /\ usable(s) /\ owner[s] = "idle"
    /\ \/ txn[s] = "starting" /\ becomes(s, "none") /\ UNCHANGED owner
       \/ txn[s] = "inProgress" /\ becomes(s, "settling") /\ owns(s, "committing")
    /\ UNCHANGED <<handedOut, tracked, hasEnded, server, closer, up, found, late>>

settled(s) == becomes(s, "none") /\ answered(s)

commitSettled(s) ==
    /\ owner[s] = "committing"
    /\ settled(s)
    /\ owns(s, "idle")
    /\ UNCHANGED <<handedOut, tracked, hasEnded, closer, up, found, late>>

-----------------------------------------------------------------------------
(* endSession, by the owner: with a transaction its abort, which is        *)
(* awaited, and then the `finally`. The session is usable until that.      *)

\* Marked, and forgotten by the client.
forgotten(s) ==
    /\ hasEnded' = hasEnded \cup {s}
    /\ tracked' = tracked \ {s}

\* The call of abortTransaction. One whose settle is in flight makes it throw,
\* which is swallowed.
abortCalled(s) ==
    CASE txn[s] = "inProgress" -> becomes(s, "settling")
      [] txn[s] = "starting"   -> becomes(s, "none")
      [] txn[s] = "settling"   -> UNCHANGED txn

awaitedOf(s) == IF txn[s] = "inProgress" THEN "aborting" ELSE "releasing"

endSession(s) ==
    /\ usable(s) /\ owner[s] = "idle"
    /\ \/ txn[s] = "none" /\ forgotten(s) /\ UNCHANGED <<txn, owner>>
       \/ /\ txn[s] # "none"
          /\ abortCalled(s)
          /\ owns(s, awaitedOf(s))
          /\ UNCHANGED <<hasEnded, tracked>>
    /\ UNCHANGED <<handedOut, server, closer, up, found, late>>

sessionAborted(s) ==
    /\ owner[s] = "aborting"
    /\ settled(s)
    /\ owns(s, "releasing")
    /\ UNCHANGED <<handedOut, tracked, hasEnded, closer, up, found, late>>

sessionReleased(s) ==
    /\ owner[s] = "releasing"
    /\ forgotten(s)
    /\ owns(s, "idle")
    /\ UNCHANGED <<handedOut, txn, server, closer, up, found, late>>

-----------------------------------------------------------------------------
(* close *)

close(c) ==
    /\ closer[c] = Away
    /\ closer' = [closer EXCEPT ![c] = [at |-> "looping", left |-> tracked, on |-> {}]]
    /\ found' = [found EXCEPT ![c] = handedOut]
    /\ UNCHANGED <<handedOut, tracked, hasEnded, txn, server, owner, up, late>>

\* The loop has come to s, and awaits its end or goes on.
comesTo(c, s, at, on) ==
    closer' = [closer EXCEPT ![c] = [at |-> at, left |-> closer[c].left \ {s}, on |-> on]]

\* Mutant: abortTransaction's refusal, of a transaction that is being settled,
\* leaves the session as it is.
endsNext_refused(c) ==
    /\ closer[c].at = "looping"
    /\ \E s \in closer[c].left :
          \/ /\ s \in hasEnded \/ txn[s] = "settling"
             /\ comesTo(c, s, "looping", {})
             /\ UNCHANGED <<tracked, hasEnded, txn>>
          \/ /\ s \notin hasEnded /\ txn[s] = "none"
             /\ forgotten(s)
             /\ comesTo(c, s, "looping", {})
             /\ UNCHANGED txn
          \/ /\ s \notin hasEnded /\ txn[s] \in {"starting", "inProgress"}
             /\ abortCalled(s)
             /\ comesTo(c, s, awaitedOf(s), {s})
             /\ UNCHANGED <<tracked, hasEnded>>
    /\ UNCHANGED <<handedOut, server, owner, up, found, late>>

\* The loop's next session, in the order of the set; here in any.
endsNext(c) ==
    /\ closer[c].at = "looping"
    /\ \E s \in closer[c].left :
          \/ /\ s \in hasEnded
             /\ comesTo(c, s, "looping", {})
             /\ UNCHANGED <<tracked, hasEnded, txn>>
          \/ /\ s \notin hasEnded /\ txn[s] = "none"
             /\ forgotten(s)
             /\ comesTo(c, s, "looping", {})
             /\ UNCHANGED txn
          \/ /\ s \notin hasEnded /\ txn[s] # "none"
             /\ abortCalled(s)
             /\ comesTo(c, s, awaitedOf(s), {s})
             /\ UNCHANGED <<tracked, hasEnded>>
    /\ UNCHANGED <<handedOut, server, owner, up, found, late>>

abortedOne(c) ==
    /\ closer[c].at = "aborting"
    /\ \E s \in closer[c].on : settled(s)
    /\ closer' = [closer EXCEPT ![c].at = "releasing"]
    /\ UNCHANGED <<handedOut, tracked, hasEnded, owner, up, found, late>>

releasedOne(c) ==
    /\ closer[c].at = "releasing"
    /\ \E s \in closer[c].on : forgotten(s)
    /\ closer' = [closer EXCEPT ![c].at = "looping", ![c].on = {}]
    /\ UNCHANGED <<handedOut, txn, server, owner, up, found, late>>

\* The set is emptied, and the connection goes.
cleared(c) ==
    /\ closer[c].at = "looping"
    /\ closer[c].left = {}
    /\ tracked' = {}
    /\ connectionGone
    /\ closer' = [closer EXCEPT ![c] = Away]
    /\ UNCHANGED <<handedOut, hasEnded, txn, found, late>>

-----------------------------------------------------------------------------
calls(s) ==
    startSession(s) \/ startTransaction(s) \/ commitTransaction(s) \/ endSession(s)

resumes(s) ==
    \/ connectionReady(s) \/ beginRejected(s) \/ begun(s) \/ discarded(s)
    \/ commitSettled(s) \/ sessionAborted(s) \/ sessionReleased(s)

loops(c) == endsNext(c) \/ abortedOne(c) \/ releasedOne(c)

Next ==
    \/ connect \/ refused
    \/ \E s \in Sessions : calls(s) \/ begin(s) \/ resumes(s)
    \/ \E c \in Closers : close(c) \/ loops(c) \/ cleared(c)

Spec == Init /\ [][Next]_vars

-----------------------------------------------------------------------------
(* Properties *)

\* "Sessions handed out and not yet ended, so `close()` can settle them": also
\* while several close() and the owners end and settle the same sessions.
TrackedUntilEnded == handedOut \ hasEnded \subseteq tracked

\* A transaction that the server holds for s, and that nobody is settling.
leftOpen(s) == server[s] = "open" /\ txn[s] # "settling" /\ owner[s] # "cancelling"

\* "An open transaction is aborted": a session that has ended leaves no open
\* transaction on the server, only one that is being settled, also when another
\* flow ended it while its transaction was beginning or its commit in flight;
\* but for a session given a transaction while a close() was ending it.
EndedHoldsNothingOpen == \A s \in hasEnded \ late : ~leftOpen(s)

\* The same without the exception, which the code does not promise: between the
\* abort and the `finally` of endSession the session is usable.
LateHoldsNothingOpen == \A s \in hasEnded : ~leftOpen(s)

\* close() ends every session there was when it was called, by itself or by
\* leaving it to a close() or an owner that got there first.
CloseEndsWhatItFound ==
    \A c \in Closers : closer[c] = Away => found[c] \subseteq hasEnded
=============================================================================
