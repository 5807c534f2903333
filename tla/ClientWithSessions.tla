-------------------------- MODULE ClientWithSessions --------------------------
(***************************************************************************)
(* MongoClient and its sessions together (client/mongo-client.ts): one     *)
(* close() is both, the sessions' loop and the connection's end; and the   *)
(* connection a transaction needs is the one bring-ups raise, so the first *)
(* statement of a transaction may begin a bring-up or join one.            *)
(***************************************************************************)
EXTENDS MongoClient

CONSTANTS
    Sessions,           \* sessions the application may start
    StartsWhileClosing  \* is a session started while close() ends the others?

VARIABLES handedOut, tracked, hasEnded, txn, server, owner, closer, found, late

S == INSTANCE SessionSet WITH Closers <- Flows, up <- connected

sessions == <<handedOut, tracked, hasEnded, txn, server, owner, closer, found, late>>
both     == <<vars, sessions>>

InitBoth == Init /\ S!Init

-----------------------------------------------------------------------------
\* A flow in close() is at its sessions until they are all seen to.
closeCalled(f)   == close(f) /\ S!close(f)
sessionsLoop(f)  == S!loops(f) /\ UNCHANGED vars

\* Mutant: close() does not wait for its sessions.
sessionsDone_unawaited(f) ==
    /\ sessionsEnded(f)
    /\ S!connectionGone
    /\ tracked' = {}
    /\ closer' = [closer EXCEPT ![f] = S!Away]
    /\ UNCHANGED <<handedOut, hasEnded, txn, found, late>>

sessionsDone(f) == sessionsEnded(f) /\ S!cleared(f)

\* A bring-up that is refused takes the connection down under the sessions.
bringUpRefused(e) == refused(e) /\ S!refused

bringUpGoesOn(e) ==
    /\ \/ connectSucceeds(e) \/ connectFails(e) \/ gaveUp(e) \/ ensured(e)
       \/ versionAccepted(e) \/ versionRefused(e)
    /\ UNCHANGED sessions

flowGoesOn(f) ==
    /\ connectingSettled(f) \/ queryAnswered(f) \/ connectionClosed(f)
    /\ UNCHANGED sessions

calls(f) == (operation(f) \/ connect(f)) /\ UNCHANGED sessions

\* _beginTransaction asks what an operation does: whether the client is closed,
\* and for the bring-up when there is no connection, in the flow that calls.
beginTransaction(s) ==
    /\ S!begin(s)
    /\ \/ connected /\ ~closed /\ UNCHANGED vars
       \/ ~connected /\ \E f \in Flows : operation(f)

NextBoth ==
    \/ \E f \in Flows :
          \/ calls(f) \/ flowGoesOn(f)
          \/ closeCalled(f) \/ sessionsLoop(f) \/ sessionsDone(f)
    \/ \E e \in BringUps : bringUpGoesOn(e) \/ bringUpRefused(e)
    \/ \E s \in Sessions :
          \/ (S!calls(s) \/ S!resumes(s)) /\ UNCHANGED vars
          \/ beginTransaction(s)

\* The client's fairness: what is asked of the SDK is answered, or rejects.
FairnessBoth ==
    /\ \A f \in Flows : WF_both(flowGoesOn(f) \/ sessionsLoop(f) \/ sessionsDone(f))
    /\ \A e \in BringUps : WF_both(bringUpGoesOn(e) \/ bringUpRefused(e))

SpecBoth == InitBoth /\ [][NextBoth]_both /\ FairnessBoth

-----------------------------------------------------------------------------
(* Properties *)

EndedHoldsNothingOpen == S!EndedHoldsNothingOpen
CloseEndsWhatItFound  == S!CloseEndsWhatItFound
=============================================================================
