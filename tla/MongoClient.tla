----------------------------- MODULE MongoClient -----------------------------
(***************************************************************************)
(* The life of one MongoClient (client/mongo-client.ts) and of the gate    *)
(* every statement passes (client/client-executor.ts): connect, the first  *)
(* operation that connects, close, and the bring-up they share, which      *)
(* goes through ConnectionManager (client/connection-manager.ts).          *)
(*                                                                         *)
(* The SDK connection is external and there is one of it, whatever the     *)
(* number of bring-ups: opening or closing it is felt by all of them. What *)
(* is asked of it takes effect in the order it is asked. It is not lost    *)
(* here once it is up.                                                     *)
(***************************************************************************)
EXTENDS Naturals

CONSTANTS
    Flows,              \* concurrent flows of the application
    MaxBringUps         \* bound: runs of establish()

ASSUME BringUpsAreNat == MaxBringUps \in Nat

BringUps  == 1..MaxBringUps
undefined == 0

VARIABLES
    connected,      \* _connected
    closed,         \* _closed
    connecting,     \* _connecting: the bring-up it is the promise of
    stage,          \* which await of establish() each bring-up is at
    flow,           \* what each flow awaits
    socket,         \* external: the SDK connection is up
    supported,      \* external: the server's version is one the driver speaks to
    ready,          \* history: the connection that is up has been through
                    \* establish(): the namespace ensured, the version accepted
    lastEvent,      \* the last event the client emitted
    reopened        \* history: connect() was called on a closed client whose
                    \* last bring-up was still running

sdk  == <<socket, supported, ready>>
vars == <<connected, closed, connecting, stage, flow, sdk, lastEvent, reopened>>

running == {"connecting", "closing", "preparing", "probing", "refusing"}
Stages  == running \cup {"unused", "done", "failed"}

Idle == [at |-> "idle", on |-> undefined]

TypeOK ==
    /\ connected \in BOOLEAN
    /\ closed \in BOOLEAN
    /\ connecting \in BringUps \cup {undefined}
    /\ stage \in [BringUps -> Stages]
    /\ flow \in [Flows ->
          [at: {"idle", "gate", "connect", "query", "endingSessions", "closing"},
           on: BringUps \cup {undefined}]]
    /\ socket \in BOOLEAN
    /\ supported \in BOOLEAN
    /\ ready \in BOOLEAN
    /\ lastEvent \in {"none", "open", "close", "error"}
    /\ reopened \in BOOLEAN

Init ==
    /\ connected = FALSE
    /\ closed = FALSE
    /\ connecting = undefined
    /\ stage = [e \in BringUps |-> "unused"]
    /\ flow = [f \in Flows |-> Idle]
    /\ socket = FALSE
    /\ supported \in BOOLEAN
    /\ ready = FALSE
    /\ lastEvent = "none"
    /\ reopened = FALSE

idle(f) == flow[f] = Idle
goes(f, at, on) == flow' = [flow EXCEPT ![f] = [at |-> at, on |-> on]]
bringUpRunning == \E e \in BringUps : stage[e] \in running

\* An operation that has passed the gate sends its statement; a connect()
\* that has is done.
passes(f, as) ==
    IF as = "gate" THEN goes(f, "query", undefined) ELSE goes(f, "idle", undefined)

socketDown == socket' = FALSE /\ ready' = FALSE

-----------------------------------------------------------------------------
(* The two ways in *)

\* Mutant: a bring-up in flight is not joined.
ensureConnected_noMemo(f, as) ==
    \/ connected /\ passes(f, as) /\ UNCHANGED <<connecting, stage>>
    \/ /\ ~connected
       /\ \E e \in BringUps :
             /\ stage[e] = "unused"
             /\ \A d \in BringUps : d < e => stage[d] # "unused"
             /\ stage' = [stage EXCEPT ![e] = "connecting"]
             /\ connecting' = e
             /\ goes(f, as, e)

\* Pass if connected; otherwise join the bring-up that is in flight, or begin one.
ensureConnected(f, as) ==
    \/ connected /\ passes(f, as) /\ UNCHANGED <<connecting, stage>>
    \/ /\ ~connected
       /\ connecting # undefined
       /\ goes(f, as, connecting)
       /\ UNCHANGED <<connecting, stage>>
    \/ /\ ~connected
       /\ connecting = undefined
       /\ \E e \in BringUps :
             /\ stage[e] = "unused"
             /\ \A d \in BringUps : d < e => stage[d] # "unused"
             /\ stage' = [stage EXCEPT ![e] = "connecting"]
             /\ connecting' = e
             /\ goes(f, as, e)

\* assertUsable of ClientExecutor, and _beginTransaction.
operation(f) ==
    /\ idle(f)
    /\ ~closed
    /\ ensureConnected(f, "gate")
    /\ UNCHANGED <<connected, closed, sdk, lastEvent, reopened>>

connect(f) ==
    /\ idle(f)
    /\ closed' = FALSE
    /\ reopened' = (reopened \/ (closed /\ bringUpRunning))
    /\ ensureConnected(f, "connect")
    /\ UNCHANGED <<connected, sdk, lastEvent>>

\* Mutant: those who joined a bring-up are not told that it failed.
connectingSettled_onlyDone(f) ==
    /\ flow[f].at \in {"gate", "connect"}
    /\ stage[flow[f].on] = "done"
    /\ passes(f, flow[f].at)
    /\ UNCHANGED <<connected, closed, connecting, stage, sdk, lastEvent, reopened>>

\* The bring-up a flow awaits has settled. Nothing is looked at again.
connectingSettled(f) ==
    /\ flow[f].at \in {"gate", "connect"}
    /\ \/ stage[flow[f].on] = "done" /\ passes(f, flow[f].at)
       \/ stage[flow[f].on] = "failed" /\ goes(f, "idle", undefined)
    /\ UNCHANGED <<connected, closed, connecting, stage, sdk, lastEvent, reopened>>

queryAnswered(f) ==
    /\ flow[f].at = "query"
    /\ goes(f, "idle", undefined)
    /\ UNCHANGED <<connected, closed, connecting, stage, sdk, lastEvent, reopened>>

-----------------------------------------------------------------------------
(* close: the sessions first, over a connection still up; then the flags,  *)
(* at once; then the connection.                                           *)

close(f) ==
    /\ idle(f)
    /\ goes(f, "endingSessions", undefined)
    /\ UNCHANGED <<connected, closed, connecting, stage, sdk, lastEvent, reopened>>

sessionsEnded(f) ==
    /\ flow[f].at = "endingSessions"
    /\ closed' = TRUE
    /\ connecting' = undefined
    /\ connected' = FALSE
    /\ IF connected
       THEN goes(f, "closing", undefined) /\ socketDown
       ELSE goes(f, "idle", undefined) /\ UNCHANGED <<socket, ready>>
    /\ UNCHANGED <<stage, supported, lastEvent, reopened>>

connectionClosed(f) ==
    /\ flow[f].at = "closing"
    /\ goes(f, "idle", undefined)
    /\ lastEvent' = "close"
    /\ UNCHANGED <<connected, closed, connecting, stage, sdk, reopened>>

-----------------------------------------------------------------------------
(* establish *)

moves(e, to) == stage' = [stage EXCEPT ![e] = to]

\* establish() throws: ensureConnected's handler forgets the memo, whichever
\* bring-up it is of, and emits.
fails(e) ==
    /\ moves(e, "failed")
    /\ connecting' = undefined
    /\ lastEvent' = "error"

\* Mutant: a close() that landed meanwhile is not looked for.
connectSucceeds_unasked(e) ==
    /\ stage[e] = "connecting"
    /\ ready' = FALSE
    /\ moves(e, "preparing")
    /\ socket' = TRUE
    /\ connected' = TRUE
    /\ UNCHANGED <<closed, connecting, flow, supported, lastEvent, reopened>>

\* A close() that landed meanwhile wins: the connection is taken down again.
connectSucceeds(e) ==
    /\ stage[e] = "connecting"
    /\ ready' = FALSE
    /\ IF closed
       THEN moves(e, "closing") /\ socket' = FALSE /\ UNCHANGED connected
       ELSE moves(e, "preparing") /\ socket' = TRUE /\ connected' = TRUE
    /\ UNCHANGED <<closed, connecting, flow, supported, lastEvent, reopened>>

\* The race is lost to an error, a disconnect or the connect budget, and the
\* SDK is told to give up.
connectFails(e) ==
    /\ stage[e] = "connecting"
    /\ moves(e, "closing")
    /\ socketDown
    /\ UNCHANGED <<connected, closed, connecting, flow, supported, lastEvent, reopened>>

gaveUp(e) ==
    /\ stage[e] = "closing"
    /\ fails(e)
    /\ UNCHANGED <<connected, closed, flow, sdk, reopened>>

\* ensureNamespaceAndDatabase answers, well or not: it never fails.
ensured(e) ==
    /\ stage[e] = "preparing"
    /\ moves(e, "probing")
    /\ UNCHANGED <<connected, closed, connecting, flow, sdk, lastEvent, reopened>>

\* detectServerVersion: a version that cannot be read, as over a connection
\* that is gone, is let through.
versionAccepted(e) ==
    /\ stage[e] = "probing"
    /\ supported \/ ~socket
    /\ moves(e, "done")
    /\ ready' = socket
    /\ lastEvent' = "open"
    /\ UNCHANGED <<connected, closed, connecting, flow, socket, supported, reopened>>

versionRefused(e) ==
    /\ stage[e] = "probing"
    /\ ~supported /\ socket
    /\ moves(e, "refusing")
    /\ socketDown
    /\ UNCHANGED <<connected, closed, connecting, flow, supported, lastEvent, reopened>>

refused(e) ==
    /\ stage[e] = "refusing"
    /\ connected' = FALSE
    /\ fails(e)
    /\ UNCHANGED <<closed, flow, sdk, reopened>>

-----------------------------------------------------------------------------
establish(e) ==
    \/ connectSucceeds(e) \/ connectFails(e) \/ gaveUp(e) \/ ensured(e)
    \/ versionAccepted(e) \/ versionRefused(e) \/ refused(e)

resumes(f) ==
    connectingSettled(f) \/ queryAnswered(f) \/ sessionsEnded(f) \/ connectionClosed(f)

Next ==
    \/ \E f \in Flows : operation(f) \/ connect(f) \/ close(f) \/ resumes(f)
    \/ \E e \in BringUps : establish(e)

\* Every await of the client is on the SDK, which answers or rejects; the
\* connect itself is bounded by the connect budget.
Fairness ==
    /\ \A f \in Flows : WF_vars(resumes(f))
    /\ \A e \in BringUps : WF_vars(establish(e))

Spec     == Init /\ [][Next]_vars
FairSpec == Spec /\ Fairness

-----------------------------------------------------------------------------
(* Properties *)

quiet ==
    /\ ~bringUpRunning
    /\ \A f \in Flows : flow[f].at \notin {"endingSessions", "closing"}

\* "Finishing the bring-up would leave a socket open behind a client the caller
\* has already ended": when nothing is under way, the client believes it is
\* connected exactly when the connection is up, and a client that is closed, or
\* whose server the driver does not speak to, has none.
\* (A client reopened while its last bring-up runs has two, and is left out.)
ConnectedMatchesSocket ==
    quiet /\ ~reopened => /\ connected <=> socket
                          /\ closed \/ ~supported => ~socket

\* "A second call joins the first rather than opening a second connection", and
\* "a failed attempt clears the memo so a later operation retries rather than
\* replaying the original failure": what an operation joins is live, not a
\* bring-up that failed, nor one whose connection is gone since.
OneLiveBringUp ==
    /\ ~reopened =>
         \A d, e \in BringUps : stage[d] \in running /\ stage[e] \in running => d = e
    /\ connecting # undefined =>
         /\ stage[connecting] # "failed"
         /\ stage[connecting] = "done" => connected

\* Every caller is answered, whatever becomes of the connection.
EveryCallReturns == \A f \in Flows : ~idle(f) ~> idle(f)

\* "Resolve once the connection is ready": a statement is sent over a
\* connection whose namespace has been ensured and whose version was accepted.
GateWaitsForReady ==
    \A f \in Flows : flow[f].at = "query" /\ socket => ready

\* "`open` ... marks the connection actually being established".
OpenMeansConnected == [][lastEvent' = "open" /\ lastEvent # "open" => connected']_vars
=============================================================================
