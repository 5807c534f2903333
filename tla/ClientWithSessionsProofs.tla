----------------------- MODULE ClientWithSessionsProofs -----------------------
(***************************************************************************)
(* The client, for any number of flows, bring-ups and sessions: its        *)
(* connection and its memo, which are MongoClient's; its sessions, which   *)
(* are SessionSet's, for any sessions and any number of close() at once;   *)
(* and the two together, of which what is proved of each holds.            *)
(***************************************************************************)
EXTENDS ClientWithSessions, TLAPS

-----------------------------------------------------------------------------
(* MongoClient *)

\* The memo is of a bring-up that is under way, or that is done over a connection
\* the client still believes in.
MemoIsLive ==
    connecting # undefined =>
        /\ stage[connecting] \notin {"unused", "failed"}
        /\ stage[connecting] \in {"preparing", "probing", "done"} => connected

\* One bring-up at a time: it is the memo's, unless a close() has forgotten it.
OneAtATime ==
    /\ \A d, e \in BringUps : stage[d] \in running /\ stage[e] \in running => d = e
    /\ \A e \in BringUps : stage[e] \in running => closed \/ connecting = e

\* The flag and the socket differ only while a server too old is being refused, and
\* neither is there before the connection is up, nor after close().
FlagFollowsSocket ==
    /\ socket => connected
    /\ connected /\ ~socket => \E e \in BringUps : stage[e] = "refusing"
    /\ \A e \in BringUps : stage[e] \in {"connecting", "closing"} => ~connected
    /\ \A e \in BringUps : stage[e] = "refusing" => ~socket
    /\ closed => ~connected
    /\ socket /\ ~supported => \E e \in BringUps : stage[e] \in {"preparing", "probing"}

IInv ==
    /\ TypeOK
    /\ MemoIsLive
    /\ ~reopened => OneAtATime /\ FlagFollowsSocket

-----------------------------------------------------------------------------
\* The initial states satisfy the invariant.
LEMMA InitIInv == Init => IInv
<1>1. Init => TypeOK
  <2> SUFFICES ASSUME Init PROVE TypeOK
    OBVIOUS
  <2>1. flow \in [Flows ->
            [at: {"idle", "gate", "connect", "query", "endingSessions", "closing"},
             on: BringUps \cup {undefined}]]
    BY DEF Init, Idle
  <2>2. stage \in [BringUps -> Stages]
    BY DEF Init, Stages
  <2> QED
    BY <2>1, <2>2 DEF Init, TypeOK
<1>2. Init => MemoIsLive /\ OneAtATime /\ FlagFollowsSocket
  BY DEF Init, MemoIsLive, OneAtATime, FlagFollowsSocket, running
<1> QED
  BY <1>1, <1>2 DEF IInv

\* Passing the gate, joining a bring-up or beginning one keeps the invariant, whether
\* an operation does so or a connect() that opens the client again.
LEMMA EnsureKeeps ==
    ASSUME IInv, NEW f \in Flows, NEW as \in {"gate", "connect"}, ensureConnected(f, as),
           UNCHANGED <<connected, sdk, lastEvent>>,
           closed' \in BOOLEAN, reopened' \in BOOLEAN,
           closed' => closed,
           ~reopened' => ~reopened /\ (closed /\ ~closed' => ~bringUpRunning),
           ~closed'
    PROVE  IInv'
<1> USE DEF IInv, undefined
<1>1. CASE UNCHANGED <<connecting, stage>>
  <2>1. TypeOK'
    <3>1. PICK at \in {"gate", "connect", "query", "idle"}, on \in BringUps \cup {undefined} :
              goes(f, at, on)
      BY <1>1 DEF ensureConnected, passes, TypeOK
    <3> QED
      BY <1>1, <3>1 DEF goes, TypeOK, sdk
  <2>2. ~reopened' => OneAtATime'
    BY <1>1 DEF OneAtATime, bringUpRunning
  <2> QED
    BY <1>1, <2>1, <2>2 DEF MemoIsLive, FlagFollowsSocket, sdk
<1>2. ASSUME ~connected, connecting = undefined, NEW e \in BringUps, stage[e] = "unused",
             stage' = [stage EXCEPT ![e] = "connecting"], connecting' = e, goes(f, as, e)
      PROVE  IInv'
  <2>1. TypeOK'
    BY <1>2 DEF goes, TypeOK, Stages, running, sdk
  <2>2. MemoIsLive'
    BY <1>2 DEF TypeOK, MemoIsLive
  <2>3. ASSUME ~reopened' PROVE OneAtATime' /\ FlagFollowsSocket'
    <3>1. \A d \in BringUps : stage[d] \notin running
      BY <1>2, <2>3 DEF OneAtATime, bringUpRunning, BringUps
    <3>2. OneAtATime'
      BY <1>2, <3>1 DEF OneAtATime, TypeOK
    <3>3. ~socket
      BY <1>2, <2>3 DEF FlagFollowsSocket
    <3> QED
      BY <1>2, <2>3, <3>2, <3>3 DEF FlagFollowsSocket, TypeOK, sdk
  <2> QED
    BY <2>1, <2>2, <2>3
<1> QED
  BY <1>1, <1>2 DEF ensureConnected, goes, TypeOK

\* Flows that wait, or are answered, leave the connection and the memo alone.
LEMMA OnlyFlowMoves ==
    ASSUME IInv, NEW f \in Flows,
           NEW at \in {"idle", "query", "endingSessions", "closing"}, goes(f, at, undefined),
           UNCHANGED <<connected, closed, connecting, stage, sdk, reopened>>,
           lastEvent' \in {"none", "open", "close", "error"}
    PROVE  IInv'
<1>1. TypeOK'
  BY DEF IInv, TypeOK, goes, sdk
<1> QED
  BY <1>1 DEF IInv, MemoIsLive, OneAtATime, FlagFollowsSocket, sdk

\* The end of a close().
LEMMA CloseKeeps ==
    ASSUME IInv, NEW f \in Flows, sessionsEnded(f)
    PROVE  IInv'
<1> USE DEF IInv
<1>1. TypeOK'
  <2>1. PICK at \in {"closing", "idle"} : goes(f, at, undefined)
    BY DEF sessionsEnded
  <2>3. flow' \in [Flows ->
            [at: {"idle", "gate", "connect", "query", "endingSessions", "closing"},
             on: BringUps \cup {undefined}]]
    BY <2>1 DEF goes, TypeOK
  <2>2. socket' \in BOOLEAN /\ ready' \in BOOLEAN
    BY DEF sessionsEnded, socketDown, TypeOK
  <2> QED
    BY <2>2, <2>3 DEF sessionsEnded, TypeOK
<1>2. MemoIsLive'
  BY DEF sessionsEnded, MemoIsLive
<1>3. ASSUME ~reopened' PROVE OneAtATime' /\ FlagFollowsSocket'
  <2>1. ~reopened /\ ~socket' /\ ~connected' /\ closed' /\ UNCHANGED <<stage, supported>>
    BY <1>3 DEF sessionsEnded, socketDown, FlagFollowsSocket
  <2> QED
    BY <2>1 DEF OneAtATime, FlagFollowsSocket
<1> QED
  BY <1>1, <1>2, <1>3

\* The steps of a bring-up.
LEMMA EstablishKeeps ==
    ASSUME IInv, NEW e \in BringUps, establish(e)
    PROVE  IInv'
<1> USE DEF IInv
<1>1. stage \in [BringUps -> Stages] /\ undefined \notin BringUps
  BY DEF TypeOK, undefined, BringUps
<1>2. CASE connectSucceeds(e)
  <2>1. TypeOK'
    BY <1>2 DEF connectSucceeds, moves, TypeOK, Stages, running
  <2>2. MemoIsLive'
    BY <1>1, <1>2 DEF connectSucceeds, moves, MemoIsLive, TypeOK
  <2>3. ASSUME ~reopened' PROVE OneAtATime' /\ FlagFollowsSocket'
    <3>1. OneAtATime /\ FlagFollowsSocket
      BY <1>2, <2>3 DEF connectSucceeds
    <3> QED
      BY <1>1, <1>2, <3>1 DEF connectSucceeds, moves, OneAtATime, FlagFollowsSocket, running
  <2> QED
    BY <2>1, <2>2, <2>3
<1>3. CASE connectFails(e) \/ versionRefused(e)
  <2>1. TypeOK'
    BY <1>3 DEF connectFails, versionRefused, moves, socketDown, TypeOK, Stages, running
  <2>2. MemoIsLive'
    BY <1>1, <1>3 DEF connectFails, versionRefused, moves, MemoIsLive, TypeOK
  <2>3. ASSUME ~reopened' PROVE OneAtATime' /\ FlagFollowsSocket'
    <3>1. OneAtATime /\ FlagFollowsSocket
      BY <1>3, <2>3 DEF connectFails, versionRefused
    <3> QED
      BY <1>1, <1>3, <3>1 DEF connectFails, versionRefused, moves, socketDown, OneAtATime,
          FlagFollowsSocket, running
  <2> QED
    BY <2>1, <2>2, <2>3
<1>4. CASE ensured(e) \/ versionAccepted(e)
  <2>1. TypeOK'
    BY <1>4 DEF ensured, versionAccepted, moves, sdk, TypeOK, Stages, running
  <2>2. MemoIsLive'
    BY <1>1, <1>4 DEF ensured, versionAccepted, moves, MemoIsLive, TypeOK
  <2>3. ASSUME ~reopened' PROVE OneAtATime' /\ FlagFollowsSocket'
    <3>1. OneAtATime /\ FlagFollowsSocket
      BY <1>4, <2>3 DEF ensured, versionAccepted
    <3> QED
      BY <1>1, <1>4, <3>1 DEF ensured, versionAccepted, moves, sdk, OneAtATime,
          FlagFollowsSocket, running
  <2> QED
    BY <2>1, <2>2, <2>3
<1>5. CASE gaveUp(e) \/ refused(e)
  <2>1. TypeOK'
    BY <1>5 DEF gaveUp, refused, fails, moves, sdk, TypeOK, Stages, running
  <2>2. MemoIsLive'
    BY <1>5 DEF gaveUp, refused, fails, MemoIsLive
  <2>3. ASSUME ~reopened' PROVE OneAtATime' /\ FlagFollowsSocket'
    <3>1. OneAtATime /\ FlagFollowsSocket
      BY <1>5, <2>3 DEF gaveUp, refused
    <3>2. \A d \in BringUps : stage'[d] \in running => FALSE
      BY <1>1, <1>5, <3>1 DEF gaveUp, refused, fails, moves, OneAtATime, running
    <3>3. OneAtATime'
      BY <3>2 DEF OneAtATime
    <3>4. CASE gaveUp(e)
      BY <1>1, <3>1, <3>4 DEF gaveUp, fails, moves, sdk, OneAtATime, FlagFollowsSocket, running
    <3>5. CASE refused(e)
      <4>1. ~connected' /\ ~socket'
        BY <1>1, <3>1, <3>5 DEF refused, sdk, OneAtATime, FlagFollowsSocket, running
      <4> QED
        BY <1>1, <3>1, <3>2, <3>3, <3>5, <4>1 DEF refused, FlagFollowsSocket, running
    <3> QED
      BY <1>5, <3>3, <3>4, <3>5
  <2> QED
    BY <2>1, <2>2, <2>3
<1> QED
  BY <1>2, <1>3, <1>4, <1>5 DEF establish

\* Every step keeps the invariant.
LEMMA NextIInv == IInv /\ [Next]_vars => IInv'
<1> SUFFICES ASSUME IInv, [Next]_vars PROVE IInv'
  OBVIOUS
<1>1. ASSUME NEW f \in Flows, operation(f) PROVE IInv'
  BY <1>1, EnsureKeeps DEF operation, IInv, TypeOK
<1>2. ASSUME NEW f \in Flows, connect(f) PROVE IInv'
  BY <1>2, EnsureKeeps DEF connect, IInv, TypeOK
<1>3. ASSUME NEW f \in Flows,
             close(f) \/ connectingSettled(f) \/ queryAnswered(f) \/ connectionClosed(f)
      PROVE  IInv'
  <2>1. PICK at \in {"idle", "query", "endingSessions"} : goes(f, at, undefined)
    BY <1>3 DEF close, connectingSettled, passes, queryAnswered, connectionClosed
  <2> QED
    BY <1>3, <2>1, OnlyFlowMoves DEF close, connectingSettled, queryAnswered,
        connectionClosed, IInv, TypeOK
<1>4. CASE UNCHANGED vars
  BY <1>4 DEF vars, IInv, TypeOK, MemoIsLive, OneAtATime, FlagFollowsSocket, sdk
<1> QED
  BY <1>1, <1>2, <1>3, <1>4, CloseKeeps, EstablishKeeps DEF Next, resumes

-----------------------------------------------------------------------------
\* The invariant holds in every behaviour.
LEMMA Invariance == Spec => []IInv
BY InitIInv, NextIInv, PTL DEF Spec

LEMMA IInvImplies == IInv => TypeOK /\ ConnectedMatchesSocket /\ OneLiveBringUp
<1> SUFFICES ASSUME IInv PROVE TypeOK /\ ConnectedMatchesSocket /\ OneLiveBringUp
  OBVIOUS
<1>1. ConnectedMatchesSocket
  BY DEF IInv, TypeOK, FlagFollowsSocket, ConnectedMatchesSocket, quiet, bringUpRunning, running
<1>2. OneLiveBringUp
  BY DEF IInv, OneAtATime, MemoIsLive, OneLiveBringUp
<1> QED
  BY <1>1, <1>2 DEF IInv

\* Every variable of the client keeps its type.
THEOREM TypeCorrect == Spec => []TypeOK
BY Invariance, IInvImplies, PTL

\* A client at rest believes in its connection exactly when there is one, and has none
\* once it is closed or its server was refused.
THEOREM FlagIsTrue == Spec => []ConnectedMatchesSocket
BY Invariance, IInvImplies, PTL

\* Two bring-ups never run at once, and what an operation joins is live.
THEOREM OneAtOnce == Spec => []OneLiveBringUp
BY Invariance, IInvImplies, PTL

-----------------------------------------------------------------------------
(* SessionSet, whose closers are here flows, and whose connection is the client's *)

\* What a close() has yet to see to: every session there is that has not ended,
\* when none is started meanwhile.
LoopCoversTheRest ==
    \A c \in Flows : closer[c].at # "away" =>
        handedOut \ hasEnded \subseteq closer[c].left \cup closer[c].on

\* Whatever is used or ended was handed out.
WereHandedOut ==
    /\ \A s \in Sessions : owner[s] # "idle" => s \in handedOut
    /\ \A c \in Flows :
          /\ found[c] \subseteq handedOut
          /\ closer[c].left \subseteq handedOut
          /\ closer[c].on \subseteq handedOut

\* A close() awaits one session at a time, and in its endSession.
AwaitsOne ==
    \A c \in Flows :
        /\ closer[c].on # {} <=> closer[c].at \in S!inEndSession
        /\ \A r, s \in closer[c].on : r = s

\* The server has a transaction only while the session is in one, or its owner
\* cancels what opened too late.
ServerFollowsSession ==
    \A s \in Sessions : server[s] = "open" =>
        txn[s] \in {"inProgress", "settling"} \/ owner[s] = "cancelling"

\* An endSession that has its abort behind it, or is over: the session is in no
\* transaction that was not settled, unless one was started in between.
abortIsOver(s) ==
    \/ s \in hasEnded
    \/ owner[s] = "releasing"
    \/ \E c \in Flows : closer[c].at = "releasing" /\ s \in closer[c].on

EndedIsOver ==
    \A s \in Sessions \ late : abortIsOver(s) => txn[s] \in {"none", "settling"}

Covered ==
    /\ S!TrackedUntilEnded
    /\ LoopCoversTheRest
    /\ S!CloseEndsWhatItFound

SessionsIInv ==
    /\ S!TypeOK
    /\ ServerFollowsSession
    /\ EndedIsOver
    /\ WereHandedOut
    /\ AwaitsOne
    /\ ~StartsWhileClosing => Covered

-----------------------------------------------------------------------------
\* The initial states satisfy the invariant.
LEMMA SessionsInitIInv == S!Init => SessionsIInv
<1> SUFFICES ASSUME S!Init PROVE SessionsIInv
  OBVIOUS
<1>1. S!TypeOK
  BY DEF S!Init, S!TypeOK, S!Away, S!inEndSession
<1>2. ServerFollowsSession /\ EndedIsOver /\ WereHandedOut /\ AwaitsOne
  BY DEF S!Init, ServerFollowsSession, EndedIsOver, abortIsOver, WereHandedOut, AwaitsOne,
      S!Away, S!inEndSession
<1>3. Covered
  BY DEF S!Init, Covered, S!TrackedUntilEnded, LoopCoversTheRest, S!CloseEndsWhatItFound, S!Away
<1> QED
  BY <1>1, <1>2, <1>3 DEF SessionsIInv

\* abortTransaction leaves nothing behind that is not settled or being settled.
LEMMA AbortsOne ==
    ASSUME SessionsIInv, NEW s \in Sessions, txn[s] # "none", S!abortCalled(s)
    PROVE  /\ txn' \in [Sessions -> {"none", "starting", "inProgress", "settling"}]
           /\ txn'[s] \in {"none", "settling"}
           /\ txn[s] # "starting" => txn'[s] = "settling"
           /\ \A r \in Sessions \ {s} : txn'[r] = txn[r]
<1>1. txn \in [Sessions -> {"none", "starting", "inProgress", "settling"}]
  BY DEF SessionsIInv, S!TypeOK
<1>2. CASE txn[s] = "inProgress"
  BY <1>1, <1>2 DEF S!abortCalled, S!becomes
<1>3. CASE txn[s] = "starting"
  BY <1>1, <1>3 DEF S!abortCalled, S!becomes
<1>4. CASE txn[s] = "settling"
  BY <1>1, <1>4 DEF S!abortCalled
<1> QED
  BY <1>1, <1>2, <1>3, <1>4

\* The server has answered, or has not: it holds nothing that somebody will settle.
LEMMA AnsweredOne ==
    ASSUME SessionsIInv, NEW s \in Sessions, S!answered(s)
    PROVE  /\ server' \in [Sessions -> {"none", "open", "left"}]
           /\ server'[s] # "open"
           /\ \A r \in Sessions \ {s} : server'[r] = server[r]
<1>1. server \in [Sessions -> {"none", "open", "left"}]
  BY DEF SessionsIInv, S!TypeOK
<1>2. PICK left \in {"none", "left"} :
          server' = [server EXCEPT ![s] = IF server[s] = "open" THEN left ELSE server[s]]
  BY DEF S!answered
<1> QED
  BY <1>1, <1>2

\* A settle that is over leaves the session in no transaction, here and there.
LEMMA SettledOne ==
    ASSUME SessionsIInv, NEW s \in Sessions, S!settled(s)
    PROVE  /\ txn' \in [Sessions -> {"none", "starting", "inProgress", "settling"}]
           /\ server' \in [Sessions -> {"none", "open", "left"}]
           /\ txn'[s] = "none" /\ server'[s] # "open"
           /\ \A r \in Sessions \ {s} : txn'[r] = txn[r] /\ server'[r] = server[r]
<1>1. S!answered(s) /\ txn' = [txn EXCEPT ![s] = "none"]
  BY DEF S!settled, S!becomes
<1>2. txn \in [Sessions -> {"none", "starting", "inProgress", "settling"}]
  BY DEF SessionsIInv, S!TypeOK
<1> QED
  BY <1>1, <1>2, AnsweredOne

\* What a close() has to see to is what it was while no session and no close() moves.
LEMMA CoveredKept ==
    ASSUME SessionsIInv, UNCHANGED <<handedOut, tracked, hasEnded, closer, found>>
    PROVE  ~StartsWhileClosing => Covered'
BY DEF SessionsIInv, Covered, S!TrackedUntilEnded, LoopCoversTheRest, S!CloseEndsWhatItFound

\* What moves with an owner's call or answer alone: the sessions are the same, and
\* the invariant is kept if the transaction's states are kept in step.
LEMMA OwnersStep ==
    ASSUME SessionsIInv, NEW s \in Sessions, s \in handedOut, NEW at, S!owns(s, at),
           at \in {"idle", "connecting", "beginning", "cancelling", "committing"}
                     \cup S!inEndSession,
           UNCHANGED <<handedOut, tracked, hasEnded, closer, found>>,
           late' \in SUBSET handedOut, late \subseteq late', connected' \in BOOLEAN,
           txn' \in [Sessions -> {"none", "starting", "inProgress", "settling"}],
           server' \in [Sessions -> {"none", "open", "left"}],
           \A r \in Sessions \ {s} : txn'[r] = txn[r] /\ server'[r] = server[r],
           server'[s] = "open" => txn'[s] \in {"inProgress", "settling"} \/ at = "cancelling",
           s \notin late' /\ (abortIsOver(s) \/ at = "releasing")
              => txn'[s] \in {"none", "settling"}
    PROVE  SessionsIInv'
<1>1. owner \in [Sessions -> {"idle", "connecting", "beginning", "cancelling", "committing"}
                                 \cup S!inEndSession]
  BY DEF SessionsIInv, S!TypeOK
<1>2. owner' = [owner EXCEPT ![s] = at]
  BY DEF S!owns
<1>3. owner' \in [Sessions -> {"idle", "connecting", "beginning", "cancelling", "committing"}
                                  \cup S!inEndSession]
  BY <1>1, <1>2
<1>4. owner'[s] = at /\ \A r \in Sessions \ {s} : owner'[r] = owner[r]
  BY <1>1, <1>2
<1>5. S!TypeOK'
  BY <1>3 DEF SessionsIInv, S!TypeOK, S!inEndSession
<1>6. ServerFollowsSession'
  BY <1>4 DEF SessionsIInv, ServerFollowsSession
<1>7. EndedIsOver'
  <2> SUFFICES ASSUME NEW r \in Sessions, r \notin late', abortIsOver(r)'
               PROVE  txn'[r] \in {"none", "settling"}
    BY DEF EndedIsOver
  <2>1. CASE r = s
    <3>1. abortIsOver(s) \/ at = "releasing"
      BY <1>4, <2>1 DEF abortIsOver
    <3> QED
      BY <2>1, <3>1
  <2>2. CASE r # s
    <3>1. abortIsOver(r) /\ r \notin late
      BY <1>4, <2>2 DEF abortIsOver
    <3> QED
      BY <2>2, <3>1 DEF SessionsIInv, EndedIsOver
  <2> QED
    BY <2>1, <2>2
<1>8. WereHandedOut'
  BY <1>4 DEF SessionsIInv, WereHandedOut
<1>9. AwaitsOne'
  BY DEF SessionsIInv, AwaitsOne
<1> QED
  BY <1>5, <1>6, <1>7, <1>8, <1>9, CoveredKept DEF SessionsIInv

-----------------------------------------------------------------------------
\* A session is given a transaction: by its owner alone, and while no endSession
\* has the abort behind it, or it is late.
LEMMA StartKeeps ==
    ASSUME SessionsIInv, NEW s \in Sessions, S!startTransaction(s)
    PROVE  SessionsIInv'
<1>1. /\ s \in handedOut /\ s \notin hasEnded /\ owner[s] = "idle" /\ txn[s] = "none"
      /\ txn' = [txn EXCEPT ![s] = "starting"]
      /\ late' = late \cup {r \in {s} : \E c \in Flows : r \in closer[c].on}
      /\ UNCHANGED <<handedOut, tracked, hasEnded, server, owner, closer, connected, found>>
  BY DEF S!startTransaction, S!usable, S!becomes
<1>2. S!TypeOK
  BY DEF SessionsIInv
<1>3. txn' \in [Sessions -> {"none", "starting", "inProgress", "settling"}]
  BY <1>1, <1>2 DEF S!TypeOK
<1>4. \A r \in Sessions \ {s} : txn'[r] = txn[r]
  BY <1>1, <1>2 DEF S!TypeOK
<1>5. late' \subseteq handedOut
  BY <1>1, <1>2 DEF S!TypeOK
<1>6. S!TypeOK'
  BY <1>1, <1>2, <1>3, <1>5 DEF S!TypeOK
<1>7. ServerFollowsSession'
  <2>1. server[s] # "open"
    BY <1>1 DEF SessionsIInv, ServerFollowsSession
  <2> QED
    BY <1>1, <1>4, <2>1 DEF SessionsIInv, ServerFollowsSession
<1>8. EndedIsOver'
  <2> SUFFICES ASSUME NEW r \in Sessions, r \notin late', abortIsOver(r)'
               PROVE  txn'[r] \in {"none", "settling"}
    BY DEF EndedIsOver
  <2>1. abortIsOver(r) /\ r \notin late
    BY <1>1 DEF abortIsOver
  <2>2. r # s
    BY <1>1, <2>1 DEF abortIsOver
  <2> QED
    BY <1>4, <2>1, <2>2 DEF SessionsIInv, EndedIsOver
<1>9. WereHandedOut' /\ AwaitsOne'
  BY <1>1 DEF SessionsIInv, WereHandedOut, AwaitsOne
<1> QED
  BY <1>1, <1>6, <1>7, <1>8, <1>9, CoveredKept DEF SessionsIInv

\* The first statement asks for a transaction, and what comes of it.
LEMMA BeginKeeps ==
    ASSUME SessionsIInv, NEW s \in Sessions,
           S!begin(s) \/ S!connectionReady(s) \/ S!beginRejected(s) \/ S!begun(s)
              \/ S!discarded(s)
    PROVE  SessionsIInv'
<1>1. S!TypeOK /\ ServerFollowsSession /\ EndedIsOver /\ WereHandedOut
  BY DEF SessionsIInv
<1>2. CASE S!begin(s) \/ S!connectionReady(s) \/ S!beginRejected(s)
  <2>1. /\ s \in handedOut
        /\ UNCHANGED <<handedOut, tracked, hasEnded, txn, server, closer, connected, found, late>>
        /\ owner[s] # "cancelling"
    BY <1>1, <1>2 DEF S!begin, S!connectionReady, S!beginRejected, S!usable, WereHandedOut
  <2>2. PICK at \in {"connecting", "beginning", "idle"} : S!owns(s, at)
    BY <1>2 DEF S!begin, S!connectionReady, S!beginRejected
  <2>3. /\ txn' \in [Sessions -> {"none", "starting", "inProgress", "settling"}]
        /\ server' \in [Sessions -> {"none", "open", "left"}]
        /\ late' \in SUBSET handedOut /\ connected' \in BOOLEAN
    BY <1>1, <2>1 DEF S!TypeOK
  <2>4. server'[s] = "open" => txn'[s] \in {"inProgress", "settling"}
    BY <1>1, <2>1 DEF ServerFollowsSession
  <2>5. s \notin late' /\ abortIsOver(s) => txn'[s] \in {"none", "settling"}
    BY <1>1, <2>1 DEF EndedIsOver
  <2> QED
    BY <2>1, <2>2, <2>3, <2>4, <2>5, OwnersStep
<1>3. CASE S!begun(s)
  <2>1. /\ owner[s] = "beginning"
        /\ server' = [server EXCEPT ![s] = "open"]
        /\ UNCHANGED <<handedOut, tracked, hasEnded, closer, connected, found, late>>
    BY <1>3 DEF S!begun
  <2>2. s \in handedOut
    BY <1>1, <2>1 DEF WereHandedOut
  <2>3. /\ server' \in [Sessions -> {"none", "open", "left"}]
        /\ \A r \in Sessions \ {s} : server'[r] = server[r]
        /\ late' \in SUBSET handedOut /\ connected' \in BOOLEAN
    BY <1>1, <2>1 DEF S!TypeOK
  <2>4. CASE txn[s] = "starting" /\ S!becomes(s, "inProgress") /\ S!owns(s, "idle")
    <3>1. /\ txn' \in [Sessions -> {"none", "starting", "inProgress", "settling"}]
          /\ txn'[s] = "inProgress"
          /\ \A r \in Sessions \ {s} : txn'[r] = txn[r]
      BY <1>1, <2>4 DEF S!TypeOK, S!becomes
    <3>2. ~(s \notin late' /\ abortIsOver(s))
      BY <1>1, <2>1, <2>4 DEF EndedIsOver
    <3> QED
      BY <2>1, <2>2, <2>3, <2>4, <3>1, <3>2, OwnersStep
  <2>5. CASE txn[s] # "starting" /\ UNCHANGED txn /\ S!owns(s, "cancelling")
    <3>1. txn' \in [Sessions -> {"none", "starting", "inProgress", "settling"}]
      BY <1>1, <2>5 DEF S!TypeOK
    <3>2. s \notin late' /\ abortIsOver(s) => txn'[s] \in {"none", "settling"}
      BY <1>1, <2>1, <2>5 DEF EndedIsOver
    <3> QED
      BY <2>1, <2>2, <2>3, <2>5, <3>1, <3>2, OwnersStep
  <2> QED
    BY <1>3, <2>4, <2>5 DEF S!begun
<1>4. CASE S!discarded(s)
  <2>1. /\ owner[s] = "cancelling" /\ S!answered(s) /\ S!owns(s, "idle")
        /\ UNCHANGED <<handedOut, tracked, hasEnded, txn, closer, connected, found, late>>
    BY <1>4 DEF S!discarded
  <2>2. s \in handedOut
    BY <1>1, <2>1 DEF WereHandedOut
  <2>3. /\ txn' \in [Sessions -> {"none", "starting", "inProgress", "settling"}]
        /\ late' \in SUBSET handedOut /\ connected' \in BOOLEAN
    BY <1>1, <2>1 DEF S!TypeOK
  <2>4. s \notin late' /\ abortIsOver(s) => txn'[s] \in {"none", "settling"}
    BY <1>1, <2>1 DEF EndedIsOver
  <2> QED
    BY <2>1, <2>2, <2>3, <2>4, AnsweredOne, OwnersStep
<1> QED
  BY <1>2, <1>3, <1>4

\* commitTransaction and abortTransaction, and the abort of endSession, up to where
\* the `finally` is due.
LEMMA SettleKeeps ==
    ASSUME SessionsIInv, NEW s \in Sessions,
           S!commitTransaction(s) \/ S!commitSettled(s) \/ S!sessionAborted(s)
    PROVE  SessionsIInv'
<1>1. S!TypeOK /\ ServerFollowsSession /\ EndedIsOver /\ WereHandedOut
  BY DEF SessionsIInv
<1>2. CASE S!commitTransaction(s)
  <2>1. /\ s \in handedOut /\ s \notin hasEnded /\ owner[s] = "idle"
        /\ UNCHANGED <<handedOut, tracked, hasEnded, server, closer, connected, found, late>>
    BY <1>2 DEF S!commitTransaction, S!usable
  <2>2. PICK state \in {"none", "settling"}, at \in {"idle", "committing"} :
            /\ S!becomes(s, state) /\ owner' = [owner EXCEPT ![s] = at]
            /\ (txn[s] = "starting" /\ state = "none") \/ state = "settling"
    <3>1. CASE txn[s] = "starting" /\ S!becomes(s, "none") /\ UNCHANGED owner
      <4>1. owner' = [owner EXCEPT ![s] = "idle"]
        BY <1>1, <2>1, <3>1 DEF S!TypeOK
      <4> QED
        BY <3>1, <4>1
    <3>2. CASE txn[s] = "inProgress" /\ S!becomes(s, "settling") /\ S!owns(s, "committing")
      BY <3>2 DEF S!owns
    <3> QED
      BY <1>2, <3>1, <3>2 DEF S!commitTransaction
  <2>3. /\ txn' \in [Sessions -> {"none", "starting", "inProgress", "settling"}]
        /\ txn'[s] = state
        /\ \A r \in Sessions \ {s} : txn'[r] = txn[r]
    BY <1>1, <2>2 DEF S!TypeOK, S!becomes
  <2>4. /\ server' \in [Sessions -> {"none", "open", "left"}]
        /\ late' \in SUBSET handedOut /\ connected' \in BOOLEAN
    BY <1>1, <2>1 DEF S!TypeOK
  <2>5. server'[s] = "open" => txn'[s] \in {"inProgress", "settling"}
    BY <1>1, <2>1, <2>2, <2>3 DEF ServerFollowsSession
  <2>6. S!owns(s, at)
    BY <2>2 DEF S!owns
  <2> QED
    BY <2>1, <2>2, <2>3, <2>4, <2>5, <2>6, OwnersStep
<1>3. CASE S!commitSettled(s) \/ S!sessionAborted(s)
  <2>1. /\ owner[s] # "idle" /\ S!settled(s)
        /\ UNCHANGED <<handedOut, tracked, hasEnded, closer, connected, found, late>>
    BY <1>3 DEF S!commitSettled, S!sessionAborted
  <2>2. s \in handedOut
    BY <1>1, <2>1 DEF WereHandedOut
  <2>3. PICK at \in {"idle", "releasing"} : S!owns(s, at)
    BY <1>3 DEF S!commitSettled, S!sessionAborted
  <2>4. late' \in SUBSET handedOut /\ connected' \in BOOLEAN
    BY <1>1, <2>1 DEF S!TypeOK
  <2>5. at \in S!inEndSession \cup {"idle"}
    BY DEF S!inEndSession
  <2> QED
    BY <2>1, <2>2, <2>3, <2>4, <2>5, SettledOne, OwnersStep
<1> QED
  BY <1>2, <1>3

\* A session is marked and forgotten: what it is in is settled, or being settled.
LEMMA ForgottenKeeps ==
    ASSUME SessionsIInv, NEW s \in Sessions, s \in handedOut, S!forgotten(s),
           s \in late \/ txn[s] \in {"none", "settling"},
           UNCHANGED <<handedOut, txn, server, late, found>>,
           \A r \in Sessions : owner'[r] = owner[r] \/ owner'[r] = "idle",
           \A r \in Sessions : owner[r] = "cancelling" => owner'[r] = "cancelling",
           \A c \in Flows : /\ closer'[c].at = "releasing" => closer[c].at = "releasing"
                            /\ closer'[c].on \subseteq closer[c].on
    PROVE  ServerFollowsSession' /\ EndedIsOver'
<1>1. ServerFollowsSession'
  BY DEF SessionsIInv, ServerFollowsSession
<1>2. EndedIsOver'
  <2> SUFFICES ASSUME NEW r \in Sessions, r \notin late, abortIsOver(r)'
               PROVE  txn[r] \in {"none", "settling"}
    BY DEF EndedIsOver
  <2>1. abortIsOver(r) \/ r = s
    BY DEF abortIsOver, S!forgotten
  <2> QED
    BY <2>1 DEF SessionsIInv, EndedIsOver
<1> QED
  BY <1>1, <1>2

\* endSession by the owner.
LEMMA EndKeeps ==
    ASSUME SessionsIInv, NEW s \in Sessions, S!endSession(s) \/ S!sessionReleased(s)
    PROVE  SessionsIInv'
<1>1. S!TypeOK /\ ServerFollowsSession /\ EndedIsOver /\ WereHandedOut /\ AwaitsOne
  BY DEF SessionsIInv
<1>2. ASSUME s \in handedOut, S!forgotten(s), s \in late \/ txn[s] \in {"none", "settling"},
             UNCHANGED <<handedOut, txn, server, closer, connected, found, late>>,
             owner' = [owner EXCEPT ![s] = "idle"], owner[s] # "cancelling"
      PROVE  SessionsIInv'
  <2>1. \A r \in Sessions : owner'[r] = IF r = s THEN "idle" ELSE owner[r]
    BY <1>1, <1>2 DEF S!TypeOK
  <2>2. ServerFollowsSession' /\ EndedIsOver'
    BY <1>2, <2>1, ForgottenKeeps
  <2>3. S!TypeOK'
    BY <1>1, <1>2 DEF S!TypeOK, S!forgotten
  <2>4. WereHandedOut' /\ AwaitsOne'
    BY <1>1, <1>2, <2>1 DEF WereHandedOut, AwaitsOne
  <2>5. ~StartsWhileClosing => Covered'
    BY <1>2 DEF S!forgotten, SessionsIInv, Covered, S!TrackedUntilEnded, LoopCoversTheRest,
        S!CloseEndsWhatItFound
  <2> QED
    BY <2>2, <2>3, <2>4, <2>5 DEF SessionsIInv
<1>3. CASE S!sessionReleased(s)
  <2>1. /\ owner[s] = "releasing" /\ S!forgotten(s) /\ owner' = [owner EXCEPT ![s] = "idle"]
        /\ UNCHANGED <<handedOut, txn, server, closer, connected, found, late>>
    BY <1>3 DEF S!sessionReleased, S!owns
  <2>2. s \in handedOut /\ (s \in late \/ txn[s] \in {"none", "settling"})
    BY <1>1, <2>1 DEF WereHandedOut, EndedIsOver, abortIsOver
  <2> QED
    BY <1>2, <2>1, <2>2
<1>4. CASE S!endSession(s)
  <2>1. /\ s \in handedOut /\ s \notin hasEnded /\ owner[s] = "idle"
        /\ UNCHANGED <<handedOut, server, closer, connected, found, late>>
    BY <1>4 DEF S!endSession, S!usable
  <2>2. CASE txn[s] = "none" /\ S!forgotten(s) /\ UNCHANGED <<txn, owner>>
    <3>1. owner' = [owner EXCEPT ![s] = "idle"]
      BY <1>1, <2>1, <2>2 DEF S!TypeOK
    <3> QED
      BY <1>2, <2>1, <2>2, <3>1
  <2>3. CASE /\ txn[s] # "none" /\ S!abortCalled(s) /\ S!owns(s, S!awaitedOf(s))
             /\ UNCHANGED <<hasEnded, tracked>>
    <3>1. PICK at \in S!inEndSession : S!owns(s, at)
      BY <2>3 DEF S!awaitedOf, S!inEndSession
    <3>2. /\ server' \in [Sessions -> {"none", "open", "left"}]
          /\ late' \in SUBSET handedOut /\ connected' \in BOOLEAN
      BY <1>1, <2>1 DEF S!TypeOK
    <3>3. server'[s] = "open" => txn'[s] \in {"inProgress", "settling"}
      BY <1>1, <2>1, <2>3, AbortsOne DEF ServerFollowsSession
    <3> QED
      BY <2>1, <2>3, <3>1, <3>2, <3>3, AbortsOne, OwnersStep
  <2> QED
    BY <1>4, <2>2, <2>3 DEF S!endSession
<1> QED
  BY <1>3, <1>4

-----------------------------------------------------------------------------
\* The loop of close(), as it comes to a session.
LEMMA LoopKeeps ==
    ASSUME SessionsIInv, NEW c \in Flows, S!endsNext(c)
    PROVE  SessionsIInv'
<1>1. S!TypeOK /\ ServerFollowsSession /\ EndedIsOver /\ WereHandedOut /\ AwaitsOne
  BY DEF SessionsIInv
<1>2. /\ closer[c].at = "looping" /\ closer[c].on = {}
      /\ UNCHANGED <<handedOut, server, owner, connected, found, late>>
  BY <1>1 DEF S!endsNext, AwaitsOne, S!inEndSession
<1>3. PICK s \in closer[c].left :
          \/ /\ s \in hasEnded
             /\ S!comesTo(c, s, "looping", {})
             /\ UNCHANGED <<tracked, hasEnded, txn>>
          \/ /\ s \notin hasEnded /\ txn[s] = "none"
             /\ S!forgotten(s)
             /\ S!comesTo(c, s, "looping", {})
             /\ UNCHANGED txn
          \/ /\ s \notin hasEnded /\ txn[s] # "none"
             /\ S!abortCalled(s)
             /\ S!comesTo(c, s, S!awaitedOf(s), {s})
             /\ UNCHANGED <<tracked, hasEnded>>
  BY DEF S!endsNext
<1>4. s \in Sessions /\ s \in handedOut
  BY <1>1, <1>3 DEF S!TypeOK, WereHandedOut
<1>5. PICK at \in {"looping"} \cup S!inEndSession, on \in {{}, {s}} :
          /\ S!comesTo(c, s, at, on)
          /\ on = {} <=> at = "looping"
          /\ on = {} => s \in hasEnded'
  <2>1. CASE s \in hasEnded
    BY <1>3, <2>1
  <2>2. CASE s \notin hasEnded /\ txn[s] = "none"
    BY <1>3, <2>2 DEF S!forgotten
  <2>3. CASE s \notin hasEnded /\ txn[s] # "none"
    <3>1. S!awaitedOf(s) \in S!inEndSession /\ S!awaitedOf(s) # "looping"
      BY DEF S!awaitedOf, S!inEndSession
    <3> QED
      BY <1>3, <2>3, <3>1
  <2> QED
    BY <2>1, <2>2, <2>3
<1>6. closer' = [closer EXCEPT ![c] = [at |-> at, left |-> closer[c].left \ {s}, on |-> on]]
  BY <1>5 DEF S!comesTo
<1>7. /\ closer'[c] = [at |-> at, left |-> closer[c].left \ {s}, on |-> on]
      /\ \A d \in Flows \ {c} : closer'[d] = closer[d]
  BY <1>1, <1>6 DEF S!TypeOK
<1>8. closer' \in [Flows -> [at: {"away", "looping"} \cup S!inEndSession,
                              left: SUBSET Sessions, on: SUBSET Sessions]]
  <2>1. [at |-> at, left |-> closer[c].left \ {s}, on |-> on]
            \in [at: {"away", "looping"} \cup S!inEndSession,
                 left: SUBSET Sessions, on: SUBSET Sessions]
    BY <1>1, <1>4 DEF S!TypeOK
  <2> QED
    BY <1>1, <1>6, <2>1 DEF S!TypeOK
<1>9. WereHandedOut'
  BY <1>1, <1>2, <1>4, <1>7 DEF WereHandedOut
<1>10. AwaitsOne'
  <2>1. closer'[c].on # {} <=> closer'[c].at \in S!inEndSession
    BY <1>5, <1>7 DEF S!inEndSession
  <2> QED
    BY <1>1, <1>7, <2>1 DEF AwaitsOne
\* What the step does to the session it comes to.
<1>11. /\ txn' \in [Sessions -> {"none", "starting", "inProgress", "settling"}]
       /\ tracked' \subseteq tracked /\ tracked \ tracked' \subseteq hasEnded'
       /\ hasEnded \subseteq hasEnded' /\ hasEnded' \subseteq hasEnded \cup {s}
       /\ \A r \in Sessions \ {s} : txn'[r] = txn[r]
       /\ txn'[s] = txn[s] \/ txn'[s] \in {"none", "settling"}
       /\ txn[s] \in {"inProgress", "settling"} => txn'[s] \in {"inProgress", "settling"}
       /\ s \notin hasEnded => txn'[s] \in {"none", "settling"}
  <2>1. CASE s \in hasEnded
    BY <1>1, <1>3, <2>1 DEF S!TypeOK
  <2>2. CASE s \notin hasEnded /\ txn[s] = "none"
    BY <1>1, <1>3, <2>2 DEF S!TypeOK, S!forgotten
  <2>3. CASE s \notin hasEnded /\ txn[s] # "none"
    <3>1. S!abortCalled(s) /\ UNCHANGED <<tracked, hasEnded>>
      BY <1>3, <2>3
    <3> QED
      BY <1>4, <2>3, <3>1, AbortsOne
  <2> QED
    BY <2>1, <2>2, <2>3
<1>12. S!TypeOK'
  BY <1>1, <1>2, <1>4, <1>8, <1>11 DEF S!TypeOK
<1>13. ServerFollowsSession'
  BY <1>1, <1>2, <1>11 DEF ServerFollowsSession
<1>14. EndedIsOver'
  <2> SUFFICES ASSUME NEW r \in Sessions, r \notin late, abortIsOver(r)'
               PROVE  txn'[r] \in {"none", "settling"}
    BY <1>2 DEF EndedIsOver
  <2>1. CASE r # s
    <3>1. abortIsOver(r)
      BY <1>2, <1>5, <1>7, <1>11, <2>1 DEF abortIsOver
    <3> QED
      BY <1>1, <1>11, <2>1, <3>1 DEF EndedIsOver
  <2>2. CASE r = s /\ s \in hasEnded
    BY <1>1, <1>11, <2>2 DEF EndedIsOver, abortIsOver
  <2>3. CASE r = s /\ s \notin hasEnded
    BY <1>11, <2>3
  <2> QED
    BY <2>1, <2>2, <2>3
<1>15. ~StartsWhileClosing => Covered'
  <2> SUFFICES ASSUME Covered PROVE Covered'
    BY DEF SessionsIInv
  <2>1. S!TrackedUntilEnded'
    BY <1>2, <1>11 DEF Covered, S!TrackedUntilEnded
  <2>2. LoopCoversTheRest'
    <3> SUFFICES ASSUME NEW d \in Flows, closer'[d].at # "away",
                        NEW r \in handedOut \ hasEnded'
                 PROVE  r \in closer'[d].left \cup closer'[d].on
      BY <1>2 DEF LoopCoversTheRest
    <3>1. r \in handedOut \ hasEnded
      BY <1>11
    <3>2. CASE d # c
      BY <1>7, <3>1, <3>2 DEF Covered, LoopCoversTheRest
    <3>3. CASE d = c
      <4>1. r \in closer[c].left
        BY <1>2, <3>1 DEF Covered, LoopCoversTheRest
      <4>2. r = s => on = {s}
        BY <1>5
      <4> QED
        BY <1>7, <3>3, <4>1, <4>2
    <3> QED
      BY <3>2, <3>3
  <2>3. S!CloseEndsWhatItFound'
    <3>1. closer'[c] # S!Away
      BY <1>5, <1>7 DEF S!Away, S!inEndSession
    <3> QED
      BY <1>2, <1>7, <1>11, <3>1 DEF Covered, S!CloseEndsWhatItFound
  <2> QED
    BY <2>1, <2>2, <2>3 DEF Covered
<1> QED
  BY <1>9, <1>10, <1>12, <1>13, <1>14, <1>15 DEF SessionsIInv

\* The endSession it awaits: its abort is answered, and then its `finally` runs.
LEMMA LoopResumesKeeps ==
    ASSUME SessionsIInv, NEW c \in Flows, S!abortedOne(c) \/ S!releasedOne(c)
    PROVE  SessionsIInv'
<1>1. S!TypeOK /\ ServerFollowsSession /\ EndedIsOver /\ WereHandedOut /\ AwaitsOne
  BY DEF SessionsIInv
<1>2. CASE S!abortedOne(c)
  <2>1. PICK s \in closer[c].on : S!settled(s)
    BY <1>2 DEF S!abortedOne
  <2>2. s \in Sessions /\ s \in handedOut /\ closer[c].on = {s}
    BY <1>1, <2>1 DEF S!TypeOK, WereHandedOut, AwaitsOne
  <2>3. /\ closer[c].at = "aborting"
        /\ closer' = [closer EXCEPT ![c].at = "releasing"]
        /\ UNCHANGED <<handedOut, tracked, hasEnded, owner, connected, found, late>>
    BY <1>2 DEF S!abortedOne
  <2>4. /\ closer'[c].at = "releasing"
        /\ closer'[c].left = closer[c].left /\ closer'[c].on = closer[c].on
        /\ \A d \in Flows \ {c} : closer'[d] = closer[d]
    BY <1>1, <2>3 DEF S!TypeOK
  <2>5. closer' \in [Flows -> [at: {"away", "looping"} \cup S!inEndSession,
                                left: SUBSET Sessions, on: SUBSET Sessions]]
    BY <1>1, <2>3 DEF S!TypeOK, S!inEndSession
  <2>6. S!TypeOK'
    BY <1>1, <2>1, <2>2, <2>3, <2>5, SettledOne DEF S!TypeOK
  <2>7. ServerFollowsSession'
    BY <1>1, <2>1, <2>2, <2>3, SettledOne DEF ServerFollowsSession
  <2>8. EndedIsOver'
    <3> SUFFICES ASSUME NEW r \in Sessions, r \notin late, abortIsOver(r)'
                 PROVE  txn'[r] \in {"none", "settling"}
      BY <2>3 DEF EndedIsOver
    <3>1. CASE r = s
      BY <2>1, <2>2, <3>1, SettledOne
    <3>2. CASE r # s
      <4>1. abortIsOver(r)
        BY <2>2, <2>3, <2>4, <3>2 DEF abortIsOver
      <4> QED
        BY <1>1, <2>1, <2>2, <3>2, <4>1, SettledOne DEF EndedIsOver
    <3> QED
      BY <3>1, <3>2
  <2>9. WereHandedOut' /\ AwaitsOne'
    BY <1>1, <2>2, <2>3, <2>4 DEF WereHandedOut, AwaitsOne, S!inEndSession
  <2>10. ~StartsWhileClosing => Covered'
    BY <2>3, <2>4 DEF SessionsIInv, Covered, S!TrackedUntilEnded, LoopCoversTheRest,
        S!CloseEndsWhatItFound, S!Away
  <2> QED
    BY <2>6, <2>7, <2>8, <2>9, <2>10 DEF SessionsIInv
<1>3. CASE S!releasedOne(c)
  <2>1. PICK s \in closer[c].on : S!forgotten(s)
    BY <1>3 DEF S!releasedOne
  <2>2. s \in Sessions /\ s \in handedOut /\ closer[c].on = {s}
    BY <1>1, <2>1 DEF S!TypeOK, WereHandedOut, AwaitsOne
  <2>3. /\ closer[c].at = "releasing"
        /\ closer' = [closer EXCEPT ![c].at = "looping", ![c].on = {}]
        /\ UNCHANGED <<handedOut, txn, server, owner, connected, found, late>>
    BY <1>3 DEF S!releasedOne
  <2>4. /\ closer'[c].at = "looping"
        /\ closer'[c].left = closer[c].left /\ closer'[c].on = {}
        /\ \A d \in Flows \ {c} : closer'[d] = closer[d]
    BY <1>1, <2>3 DEF S!TypeOK
  <2>5. closer' \in [Flows -> [at: {"away", "looping"} \cup S!inEndSession,
                                left: SUBSET Sessions, on: SUBSET Sessions]]
    BY <1>1, <2>3 DEF S!TypeOK
  <2>6. hasEnded' = hasEnded \cup {s} /\ tracked' = tracked \ {s}
    BY <2>1 DEF S!forgotten
  <2>7. S!TypeOK'
    BY <1>1, <2>2, <2>3, <2>5, <2>6 DEF S!TypeOK
  <2>8. ServerFollowsSession' /\ EndedIsOver'
    <3>1. s \in late \/ txn[s] \in {"none", "settling"}
      BY <1>1, <2>2, <2>3 DEF EndedIsOver, abortIsOver
    <3>2. \A d \in Flows : /\ closer'[d].at = "releasing" => closer[d].at = "releasing"
                           /\ closer'[d].on \subseteq closer[d].on
      BY <2>3, <2>4
    <3> QED
      BY <2>1, <2>2, <2>3, <3>1, <3>2, ForgottenKeeps
  <2>9. WereHandedOut' /\ AwaitsOne'
    <3>1. WereHandedOut'
      BY <1>1, <2>3, <2>4 DEF WereHandedOut
    <3>2. "looping" \notin S!inEndSession
      BY DEF S!inEndSession
    <3>3. ASSUME NEW d \in Flows
          PROVE  /\ closer'[d].on # {} <=> closer'[d].at \in S!inEndSession
                 /\ \A r, t \in closer'[d].on : r = t
      <4>1. CASE d = c
        BY <2>4, <3>2, <4>1
      <4>2. CASE d # c
        BY <1>1, <2>4, <4>2 DEF AwaitsOne
      <4> QED
        BY <4>1, <4>2
    <3> QED
      BY <3>1, <3>3 DEF AwaitsOne
  <2>10. ~StartsWhileClosing => Covered'
    <3> SUFFICES ASSUME Covered PROVE Covered'
      BY DEF SessionsIInv
    <3>1. S!TrackedUntilEnded'
      BY <2>3, <2>6 DEF Covered, S!TrackedUntilEnded
    <3>2. LoopCoversTheRest'
      BY <2>2, <2>3, <2>4, <2>6 DEF Covered, LoopCoversTheRest
    <3>3. S!CloseEndsWhatItFound'
      <4>1. closer'[c] # S!Away
        BY <2>4 DEF S!Away
      <4> QED
        BY <2>3, <2>4, <2>6, <4>1 DEF Covered, S!CloseEndsWhatItFound
    <3> QED
      BY <3>1, <3>2, <3>3 DEF Covered
  <2> QED
    BY <2>7, <2>8, <2>9, <2>10 DEF SessionsIInv
<1> QED
  BY <1>2, <1>3

\* A close() that begins, and one that has seen to all: its end takes the connection,
\* as a server too old does.
LEMMA CloserKeeps ==
    ASSUME SessionsIInv
    PROVE  /\ \A c \in Flows : S!close(c) \/ S!cleared(c) => SessionsIInv'
           /\ S!refused => SessionsIInv'
<1>1. S!TypeOK /\ ServerFollowsSession /\ EndedIsOver /\ WereHandedOut /\ AwaitsOne
  BY DEF SessionsIInv
<1>2. ASSUME S!connectionGone, UNCHANGED <<handedOut, hasEnded, txn, found, late>>,
             WereHandedOut'
      PROVE  /\ server' \in [Sessions -> {"none", "open", "left"}]
             /\ owner' \in [Sessions -> {"idle", "connecting", "beginning", "cancelling",
                                         "committing"} \cup S!inEndSession]
             /\ connected' \in BOOLEAN
             /\ ServerFollowsSession'
             /\ \A r \in Sessions : owner'[r] = "releasing" => owner[r] = "releasing"
  BY <1>1, <1>2 DEF S!connectionGone, S!TypeOK, ServerFollowsSession
<1>3. ASSUME S!connectionGone
      PROVE  \A r \in Sessions : owner'[r] # "idle" => owner[r] # "idle"
  BY <1>1, <1>3 DEF S!connectionGone, S!TypeOK
<1>4. ASSUME NEW c \in Flows, S!close(c) PROVE SessionsIInv'
  <2>1. /\ closer[c] = S!Away
        /\ closer' = [closer EXCEPT ![c] = [at |-> "looping", left |-> tracked, on |-> {}]]
        /\ found' = [found EXCEPT ![c] = handedOut]
        /\ UNCHANGED <<handedOut, tracked, hasEnded, txn, server, owner, connected, late>>
    BY <1>4 DEF S!close
  <2>2. /\ closer'[c] = [at |-> "looping", left |-> tracked, on |-> {}]
        /\ \A d \in Flows \ {c} : closer'[d] = closer[d]
        /\ found'[c] = handedOut /\ \A d \in Flows \ {c} : found'[d] = found[d]
    BY <1>1, <2>1 DEF S!TypeOK
  <2>3. S!TypeOK'
    BY <1>1, <2>1 DEF S!TypeOK
  <2>4. ServerFollowsSession'
    BY <1>1, <2>1 DEF ServerFollowsSession
  <2>5. EndedIsOver'
    BY <1>1, <2>1, <2>2 DEF EndedIsOver, abortIsOver
  <2>6. WereHandedOut' /\ AwaitsOne'
    BY <1>1, <2>1, <2>2 DEF WereHandedOut, AwaitsOne, S!inEndSession, S!TypeOK
  <2>7. ~StartsWhileClosing => Covered'
    BY <2>1, <2>2 DEF SessionsIInv, S!Away, Covered, S!TrackedUntilEnded, LoopCoversTheRest,
        S!CloseEndsWhatItFound
  <2> QED
    BY <2>3, <2>4, <2>5, <2>6, <2>7 DEF SessionsIInv
<1>5. ASSUME NEW c \in Flows, S!cleared(c) PROVE SessionsIInv'
  <2>1. /\ closer[c].at = "looping" /\ closer[c].left = {} /\ closer[c].on = {}
        /\ tracked' = {} /\ S!connectionGone
        /\ closer' = [closer EXCEPT ![c] = S!Away]
        /\ UNCHANGED <<handedOut, hasEnded, txn, found, late>>
    BY <1>1, <1>5 DEF S!cleared, AwaitsOne, S!inEndSession
  <2>2. closer'[c] = S!Away /\ \A d \in Flows \ {c} : closer'[d] = closer[d]
    BY <1>1, <2>1 DEF S!TypeOK
  <2>3. closer' \in [Flows -> [at: {"away", "looping"} \cup S!inEndSession,
                                left: SUBSET Sessions, on: SUBSET Sessions]]
    BY <1>1, <2>1 DEF S!TypeOK, S!Away
  <2>4. WereHandedOut'
    BY <1>1, <1>3, <2>1, <2>2 DEF WereHandedOut, S!Away
  <2>5. AwaitsOne'
    BY <1>1, <2>2 DEF AwaitsOne, S!Away, S!inEndSession
  <2>6. S!TypeOK'
    BY <1>1, <1>2, <2>1, <2>3, <2>4 DEF S!TypeOK
  <2>7. EndedIsOver'
    <3>1. \A r \in Sessions : abortIsOver(r)' => abortIsOver(r)
      BY <1>2, <2>1, <2>2, <2>4 DEF abortIsOver, S!Away
    <3> QED
      BY <1>1, <2>1, <3>1 DEF EndedIsOver
  <2>8. ~StartsWhileClosing => Covered'
    <3> SUFFICES ASSUME Covered PROVE Covered'
      BY DEF SessionsIInv
    <3>1. handedOut \ hasEnded = {}
      BY <2>1 DEF Covered, LoopCoversTheRest
    <3> QED
      BY <1>1, <2>1, <2>2, <3>1 DEF Covered, S!TrackedUntilEnded, LoopCoversTheRest,
          S!CloseEndsWhatItFound, WereHandedOut
  <2> QED
    BY <1>2, <2>1, <2>4, <2>5, <2>6, <2>7, <2>8 DEF SessionsIInv
<1>6. ASSUME S!refused PROVE SessionsIInv'
  <2>1. S!connectionGone /\ UNCHANGED <<handedOut, tracked, hasEnded, txn, closer, found, late>>
    BY <1>6 DEF S!refused
  <2>2. WereHandedOut' /\ AwaitsOne'
    BY <1>1, <1>3, <2>1 DEF WereHandedOut, AwaitsOne
  <2>3. S!TypeOK'
    BY <1>1, <1>2, <2>1, <2>2 DEF S!TypeOK
  <2>4. EndedIsOver'
    BY <1>1, <1>2, <2>1, <2>2 DEF EndedIsOver, abortIsOver
  <2> QED
    BY <1>2, <2>1, <2>2, <2>3, <2>4, CoveredKept DEF SessionsIInv
<1> QED
  BY <1>4, <1>5, <1>6

\* Every step of the client and of its sessions keeps the invariant.
LEMMA SessionsNextIInv == SessionsIInv /\ [S!Next]_(S!vars) => SessionsIInv'
<1> SUFFICES ASSUME SessionsIInv, [S!Next]_(S!vars) PROVE SessionsIInv'
  OBVIOUS
<1>1. ASSUME S!connect \/ UNCHANGED S!vars PROVE SessionsIInv'
  <2>1. /\ UNCHANGED <<handedOut, tracked, hasEnded, txn, server, owner, closer, found, late>>
        /\ connected' = TRUE \/ UNCHANGED connected
    BY <1>1 DEF S!connect, S!vars
  <2>2. S!TypeOK' /\ ServerFollowsSession' /\ EndedIsOver' /\ WereHandedOut' /\ AwaitsOne'
    BY <2>1 DEF SessionsIInv, S!TypeOK, ServerFollowsSession, EndedIsOver, abortIsOver,
        WereHandedOut, AwaitsOne
  <2> QED
    BY <2>1, <2>2, CoveredKept DEF SessionsIInv
<1>2. ASSUME NEW s \in Sessions, S!startSession(s) PROVE SessionsIInv'
  <2>1. /\ handedOut' = handedOut \cup {s} /\ tracked' = tracked \cup {s}
        /\ UNCHANGED <<hasEnded, txn, server, owner, closer, connected, found, late>>
    BY <1>2 DEF S!startSession
  <2>2. S!TypeOK' /\ ServerFollowsSession' /\ EndedIsOver' /\ WereHandedOut' /\ AwaitsOne'
    BY <2>1 DEF SessionsIInv, S!TypeOK, ServerFollowsSession, EndedIsOver, abortIsOver,
        WereHandedOut, AwaitsOne
  <2>3. ~StartsWhileClosing => Covered'
    BY <1>2, <2>1 DEF S!startSession, SessionsIInv, S!Away, Covered, S!TrackedUntilEnded,
        LoopCoversTheRest, S!CloseEndsWhatItFound
  <2> QED
    BY <2>2, <2>3 DEF SessionsIInv
<1>3. ASSUME NEW s \in Sessions, S!calls(s) \/ S!begin(s) \/ S!resumes(s)
      PROVE  SessionsIInv'
  BY <1>2, <1>3, StartKeeps, BeginKeeps, SettleKeeps, EndKeeps DEF S!calls, S!resumes
<1>4. ASSUME NEW c \in Flows, S!loops(c) PROVE SessionsIInv'
  BY <1>4, LoopKeeps, LoopResumesKeeps DEF S!loops
<1>5. CASE S!Next
  BY <1>1, <1>3, <1>4, <1>5, CloserKeeps DEF S!Next
<1> QED
  BY <1>1, <1>5

-----------------------------------------------------------------------------
\* The invariant holds in every behaviour.
THEOREM SessionsInvariance == S!Spec => []SessionsIInv
BY SessionsInitIInv, SessionsNextIInv, PTL DEF S!Spec

\* Every field of the client and of its sessions keeps its type.
THEOREM SessionsTypeCorrect == S!Spec => []S!TypeOK
<1>1. SessionsIInv => S!TypeOK
  BY DEF SessionsIInv
<1> QED
  BY <1>1, SessionsInvariance, PTL

\* A session that has ended leaves no open transaction on the server, however many
\* flows end it and wherever they are in it, also when sessions are started while
\* close() runs; but for one that was given a transaction while a close() ended it.
THEOREM NothingHeld == S!Spec => []S!EndedHoldsNothingOpen
<1>1. SessionsIInv => S!EndedHoldsNothingOpen
  BY DEF SessionsIInv, S!TypeOK, ServerFollowsSession, EndedIsOver, abortIsOver,
      S!EndedHoldsNothingOpen, S!leftOpen
<1> QED
  BY <1>1, SessionsInvariance, PTL

\* A session that has not ended is one close() will find, if none is started while
\* a close() runs.
THEOREM NoneForgotten ==
    ASSUME ~StartsWhileClosing
    PROVE  S!Spec => []S!TrackedUntilEnded
<1>1. SessionsIInv => S!TrackedUntilEnded
  BY DEF SessionsIInv, Covered
<1> QED
  BY <1>1, SessionsInvariance, PTL

\* However many close() and owners overlap, a close() that is over has left no
\* session alive that it found.
THEOREM AllEnded ==
    ASSUME ~StartsWhileClosing
    PROVE  S!Spec => []S!CloseEndsWhatItFound
<1>1. SessionsIInv => S!CloseEndsWhatItFound
  BY DEF SessionsIInv, Covered
<1> QED
  BY <1>1, SessionsInvariance, PTL

-----------------------------------------------------------------------------
(* The client with its sessions: what is proved of each holds of both *)

\* Every step of the two is one of SessionSet, or leaves the sessions and the
\* connection as they are: of the bring-ups, only one that succeeds and one that is
\* refused touch what the sessions see.
LEMMA StepIsSessions == [NextBoth]_both => [S!Next]_(S!vars)
<1> SUFFICES ASSUME [NextBoth]_both PROVE [S!Next]_(S!vars)
  OBVIOUS
<1>1. ASSUME UNCHANGED <<sessions, connected>> PROVE UNCHANGED S!vars
  BY <1>1 DEF sessions, S!vars
<1>2. ASSUME NEW f \in Flows, calls(f) \/ flowGoesOn(f) PROVE UNCHANGED S!vars
  BY <1>1, <1>2 DEF calls, flowGoesOn, operation, connect, connectingSettled,
      queryAnswered, connectionClosed
<1>3. ASSUME NEW f \in Flows, closeCalled(f) PROVE S!Next
  BY <1>3 DEF closeCalled, S!Next
<1>4. ASSUME NEW f \in Flows, sessionsLoop(f) PROVE S!Next
  BY <1>4 DEF sessionsLoop, S!Next
<1>5. ASSUME NEW f \in Flows, sessionsDone(f) PROVE S!Next
  BY <1>5 DEF sessionsDone, S!Next
<1>6. ASSUME NEW e \in BringUps, bringUpRefused(e) PROVE S!Next
  BY <1>6 DEF bringUpRefused, S!Next
<1>7. ASSUME NEW e \in BringUps, bringUpGoesOn(e) PROVE S!Next \/ UNCHANGED S!vars
  <2>1. UNCHANGED sessions
    BY <1>7 DEF bringUpGoesOn
  <2>2. CASE connectSucceeds(e)
    <3>1. UNCHANGED connected \/ connected' = TRUE
      BY <2>2 DEF connectSucceeds
    <3>2. CASE UNCHANGED connected
      BY <1>1, <2>1, <3>2
    <3>3. CASE connected' = TRUE /\ connected
      BY <1>1, <2>1, <3>3
    <3>4. CASE connected' = TRUE /\ ~connected
      <4>1. S!connect
        BY <2>1, <3>4 DEF sessions, S!connect
      <4> QED
        BY <4>1 DEF S!Next
    <3> QED
      BY <3>1, <3>2, <3>3, <3>4
  <2>3. CASE connectFails(e) \/ gaveUp(e) \/ ensured(e) \/ versionAccepted(e)
               \/ versionRefused(e)
    BY <1>1, <2>1, <2>3 DEF connectFails, gaveUp, ensured, versionAccepted, versionRefused
  <2> QED
    BY <1>7, <2>2, <2>3 DEF bringUpGoesOn
<1>8. ASSUME NEW s \in Sessions, S!calls(s) \/ S!resumes(s) PROVE S!Next
  BY <1>8 DEF S!Next
<1>9. ASSUME NEW s \in Sessions, beginTransaction(s) PROVE S!Next
  BY <1>9 DEF beginTransaction, S!Next
<1>10. CASE UNCHANGED both
  BY <1>1, <1>10 DEF both, vars, sessions
<1> QED
  BY <1>2, <1>3, <1>4, <1>5, <1>6, <1>7, <1>8, <1>9, <1>10 DEF NextBoth

LEMMA BothIsSessions == SpecBoth => S!Spec
<1>1. InitBoth => S!Init
  BY DEF InitBoth
<1> QED
  BY <1>1, StepIsSessions, PTL DEF SpecBoth, S!Spec

-----------------------------------------------------------------------------
\* And one of the client, or leaves it as it is.
LEMMA StepIsClients == [NextBoth]_both => [Next]_vars
<1> SUFFICES ASSUME [NextBoth]_both PROVE [Next]_vars
  OBVIOUS
<1>1. ASSUME NEW f \in Flows,
             calls(f) \/ flowGoesOn(f) \/ closeCalled(f) \/ sessionsDone(f)
      PROVE  Next
  BY <1>1 DEF calls, flowGoesOn, closeCalled, sessionsDone, Next, resumes
<1>2. ASSUME NEW e \in BringUps, bringUpGoesOn(e) \/ bringUpRefused(e) PROVE Next
  BY <1>2 DEF bringUpGoesOn, bringUpRefused, Next, establish
<1>3. ASSUME NEW f \in Flows, sessionsLoop(f) PROVE UNCHANGED vars
  BY <1>3 DEF sessionsLoop
<1>4. ASSUME NEW s \in Sessions, beginTransaction(s) PROVE Next \/ UNCHANGED vars
  BY <1>4 DEF beginTransaction, Next
<1>5. CASE UNCHANGED both
  BY <1>5 DEF both
<1> QED
  BY <1>1, <1>2, <1>3, <1>4, <1>5 DEF NextBoth

\* A client at rest believes in its connection exactly when there is one, also while
\* its sessions are ended.
THEOREM FlagIsTrueOfBoth == SpecBoth => []ConnectedMatchesSocket
<1>1. InitBoth => Init
  BY DEF InitBoth
<1> QED
  BY <1>1, StepIsClients, FlagIsTrue, PTL DEF SpecBoth, Spec

\* And it never has two bring-ups at once, nor joins one that is not live.
THEOREM OneAtOnceOfBoth == SpecBoth => []OneLiveBringUp
<1>1. InitBoth => Init
  BY DEF InitBoth
<1> QED
  BY <1>1, StepIsClients, OneAtOnce, PTL DEF SpecBoth, Spec

-----------------------------------------------------------------------------
\* A session that has ended leaves no open transaction on the server, whatever the
\* bring-ups do to the connection, and however many close() and owners end it; but for
\* one that was given a transaction while a close() ended it.
THEOREM NothingHeldOfBoth == SpecBoth => []EndedHoldsNothingOpen
BY BothIsSessions, NothingHeld, PTL DEF EndedHoldsNothingOpen

\* A close() that is over has left no session alive that it found, when none is started
\* while a close() runs.
THEOREM AllEndedOfBoth ==
    ASSUME ~StartsWhileClosing
    PROVE  SpecBoth => []CloseEndsWhatItFound
<1>1. S!Spec => []S!CloseEndsWhatItFound
  BY AllEnded
<1> QED
  BY <1>1, BothIsSessions, PTL DEF CloseEndsWhatItFound
=============================================================================
