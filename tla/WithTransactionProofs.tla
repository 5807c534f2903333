------------------------ MODULE WithTransactionProofs ------------------------
(***************************************************************************)
(* withTransaction's outcomes and its refinement of AtomicWork, for any    *)
(* number of sessions and of attempts.                                     *)
(***************************************************************************)
EXTENDS WithTransaction, TLAPS

pending(s) == {seen \in Nat : <<s, seen>> \in late}

\* A commit that is still to be taken up is the only one of its session, whose
\* work has not landed.
LateIsAlone ==
    \A s \in Sessions :
        /\ \A m, n \in pending(s) : m = n
        /\ pending(s) # {} => landed[s] = 0
        /\ landed[s] <= 1

\* The label an attempt has failed with goes with where its call is: only a commit
\* of unknown outcome leaves anything behind, and it is not tried again.
LabelMatches(s) ==
    /\ pc[s] = "loop" => error[s] \in {"none", "TransientTransactionError"}
    /\ pc[s] = "loop" /\ attempt[s] > 0 => error[s] = "TransientTransactionError"
    /\ pc[s] \in {"callback", "committing", "committed"} => error[s] = "none"
    /\ pc[s] = "aborting" => error[s] \in {"TransientTransactionError", "unlabelled"}
    /\ pc[s] = "failed" => error[s] # "none"

untouched(s) == landed[s] = 0 /\ pending(s) = {}

WorkMatches(s) ==
    /\ pc[s] \in {"loop", "callback", "aborting", "committing"} => untouched(s)
    /\ pc[s] = "committed" => landed[s] = 1
    /\ pc[s] = "failed" /\ error[s] # "UnknownTransactionCommitResult" => untouched(s)

ReportMatches(s) ==
    /\ outcome[s] # "none" <=> pc[s] = "done"
    /\ outcome[s] = "success" => landed[s] = 1
    /\ outcome[s] = "failure" => untouched(s)

IInv ==
    /\ TypeOK
    /\ LateIsAlone
    /\ \A s \in Sessions : LabelMatches(s) /\ WorkMatches(s) /\ ReportMatches(s)

-----------------------------------------------------------------------------
\* The initial states satisfy the invariant.
LEMMA InitIInv == Init => IInv
BY AttemptsPositive DEF Init, IInv, TypeOK, Labels, LateIsAlone, LabelMatches, WorkMatches,
    ReportMatches, untouched, pending

\* A call that returns reports what its last attempt ended with.
LEMMA Returns ==
    ASSUME IInv, NEW s \in Sessions, return(s), UNCHANGED <<late, landed>>,
           pc[s] # "done",
           error[s] = "none" => landed[s] = 1,
           error[s] \in {"TransientTransactionError", "unlabelled"} => untouched(s),
           UNCHANGED <<attempt, error, expired, snapshot, value>>,
           wrote' \in [Sessions -> BOOLEAN]
    PROVE  IInv'
<1> USE DEF IInv, return, goto
<1>1. TypeOK'
  BY DEF TypeOK
<1>2. LateIsAlone'
  BY DEF LateIsAlone, pending
<1>3. ASSUME NEW r \in Sessions PROVE (LabelMatches(r) /\ WorkMatches(r) /\ ReportMatches(r))'
  <2>1. CASE r = s
    BY <2>1 DEF TypeOK, Labels, LabelMatches, WorkMatches, ReportMatches, untouched, pending
  <2>2. CASE r # s
    BY <1>3, <2>2 DEF TypeOK, LabelMatches, WorkMatches, ReportMatches, untouched, pending
  <2> QED
    BY <2>1, <2>2
<1> QED
  BY <1>1, <1>2, <1>3

\* A call that goes on to another place has the label and the work that belong there.
LEMMA GoesOn ==
    ASSUME IInv, NEW s \in Sessions, NEW at, goto(s, at), at # "done", pc[s] # "done",
           TypeOK', LateIsAlone', UNCHANGED outcome,
           LabelMatches(s)', WorkMatches(s)',
           \A r \in Sessions \ {s} :
               /\ attempt'[r] = attempt[r] /\ error'[r] = error[r] /\ landed'[r] = landed[r]
               /\ \A seen \in Nat : <<r, seen>> \in late' <=> <<r, seen>> \in late
    PROVE  IInv'
<1> USE DEF IInv, goto
<1>1. ASSUME NEW r \in Sessions PROVE (LabelMatches(r) /\ WorkMatches(r) /\ ReportMatches(r))'
  <2>1. CASE r = s
    BY <2>1 DEF TypeOK, ReportMatches
  <2>2. CASE r # s
    <3>1. pending(r)' = pending(r)
      BY <2>2 DEF pending
    <3> QED
      BY <1>1, <2>2, <3>1 DEF TypeOK, LabelMatches, WorkMatches, ReportMatches, untouched
  <2> QED
    BY <2>1, <2>2
<1> QED
  BY <1>1

-----------------------------------------------------------------------------
\* Every step of a call keeps the invariant.
LEMMA StepIInv ==
    ASSUME IInv, NEW s \in Sessions, step(s)
    PROVE  IInv'
<1> USE DEF IInv
<1>1. /\ LabelMatches(s) /\ WorkMatches(s) /\ ReportMatches(s)
  OBVIOUS
<1>2. ASSUME UNCHANGED server PROVE LateIsAlone'
  BY <1>2 DEF LateIsAlone, pending, server
<1>3. CASE startAttempt(s)
  <2>1. TypeOK'
    <3>1. attempt' \in [Sessions -> 0..MaxAttempts]
      BY <1>3, AttemptsPositive DEF startAttempt, TypeOK
    <3> QED
      BY <1>3, <3>1 DEF startAttempt, goto, fails, server, TypeOK, Labels
  <2>2. LabelMatches(s)' /\ WorkMatches(s)'
    BY <1>1, <1>3 DEF startAttempt, goto, fails, server, TypeOK, LabelMatches, WorkMatches,
        untouched, pending
  <2> QED
    BY <1>2, <1>3, <2>1, <2>2, GoesOn DEF startAttempt, fails, server, TypeOK
<1>4. CASE backoffOutlastsDeadline(s)
  <2>1. attempt[s] > 0 /\ error[s] = "TransientTransactionError" /\ untouched(s)
    BY <1>1, <1>4 DEF backoffOutlastsDeadline, LabelMatches, WorkMatches
  <2> QED
    BY <1>4, <2>1, Returns DEF backoffOutlastsDeadline, server, TypeOK
<1>5. CASE callbackWrites(s)
  <2>1. TypeOK'
    BY <1>5 DEF callbackWrites, server, TypeOK
  <2>2. UNCHANGED <<pc, attempt, error, outcome, late, landed>>
    BY <1>5 DEF callbackWrites, server
  <2> QED
    BY <2>1, <2>2 DEF LateIsAlone, LabelMatches, WorkMatches, ReportMatches, untouched, pending
<1>6. CASE callbackFails(s) \/ abort(s) \/ callbackReturns(s) \/ retry(s) \/ commitRejected(s)
  <2>1. PICK at \in {"aborting", "failed", "committing", "loop"} : goto(s, at)
    BY <1>6 DEF callbackFails, abort, callbackReturns, retry, commitRejected
  <2>2. /\ UNCHANGED <<call, snapshot, server>>
        /\ pc[s] # "done"
        /\ wrote' \in [Sessions -> BOOLEAN]
        /\ error' \in [Sessions -> Labels]
    BY <1>6 DEF callbackFails, abort, callbackReturns, retry, commitRejected, fails, TypeOK,
        Labels
  <2>5. TypeOK'
    BY <2>1, <2>2 DEF goto, call, server, TypeOK
  <2>3. LabelMatches(s)' /\ WorkMatches(s)'
    BY <1>1, <1>6 DEF callbackFails, abort, callbackReturns, retry, commitRejected,
        isRetryable, goto, fails, call, server, TypeOK, LabelMatches, WorkMatches, untouched,
        pending
  <2>4. /\ UNCHANGED server /\ UNCHANGED attempt
        /\ \A r \in Sessions \ {s} : error'[r] = error[r]
    BY <1>6 DEF callbackFails, abort, callbackReturns, retry, commitRejected, fails, call,
        TypeOK, server
  <2> QED
    BY <1>2, <2>1, <2>2, <2>3, <2>4, <2>5, GoesOn DEF call, server
<1>7. CASE commitLands(s)
  <2>1. untouched(s) /\ error[s] = "none"
    BY <1>1, <1>7 DEF commitLands, WorkMatches, LabelMatches
  <2>2. TypeOK'
    BY <1>7 DEF commitLands, lands, goto, call, TypeOK
  <2>3. LateIsAlone'
    <3>1. \A r \in Sessions : pending(r)' = pending(r)
      BY <1>7 DEF commitLands, pending
    <3> QED
      BY <1>7, <2>1, <3>1 DEF commitLands, lands, TypeOK, LateIsAlone, untouched
  <2>4. LabelMatches(s)' /\ WorkMatches(s)'
    BY <1>7, <2>1 DEF commitLands, lands, goto, call, TypeOK, LabelMatches, WorkMatches,
        untouched
  <2> QED
    BY <1>7, <2>2, <2>3, <2>4, GoesOn DEF commitLands, lands, call, TypeOK
<1>8. CASE commitSucceeds(s)
  <2>1. error[s] = "none" /\ landed[s] = 1
    BY <1>1, <1>8 DEF commitSucceeds, LabelMatches, WorkMatches
  <2> QED
    BY <1>8, <2>1, Returns DEF commitSucceeds, server, TypeOK
<1>9. CASE commitUnknown(s)
  <2>1. TypeOK'
    BY <1>9 DEF commitUnknown, goto, fails, call, TypeOK, Labels
  <2>2. LateIsAlone'
    <3>1. CASE UNCHANGED late
      BY <1>2, <1>9, <3>1 DEF commitUnknown, server
    <3>2. CASE pc[s] = "committing" /\ late' = late \cup {<<s, snapshot[s]>>}
      <4>1. untouched(s)
        BY <1>1, <3>2 DEF WorkMatches
      <4> QED
        BY <1>9, <3>2, <4>1 DEF commitUnknown, TypeOK, LateIsAlone, untouched, pending
    <3> QED
      BY <1>9, <3>1, <3>2 DEF commitUnknown
  <2>3. LabelMatches(s)' /\ WorkMatches(s)'
    BY <1>9 DEF commitUnknown, goto, fails, call, TypeOK, LabelMatches, WorkMatches
  <2> QED
    BY <1>9, <2>1, <2>2, <2>3, GoesOn DEF commitUnknown, fails, call, TypeOK
<1>10. CASE giveUp(s)
  <2>1. error[s] # "none" /\ (error[s] # "UnknownTransactionCommitResult" => untouched(s))
    BY <1>1, <1>10 DEF giveUp, LabelMatches, WorkMatches
  <2> QED
    BY <1>10, <2>1, Returns DEF giveUp, server, TypeOK
<1> QED
  BY <1>3, <1>4, <1>5, <1>6, <1>7, <1>8, <1>9, <1>10 DEF step

\* A commit that the server takes up late keeps the invariant.
LEMMA LateIInv ==
    ASSUME IInv, NEW s \in Sessions, NEW seen \in Nat, lateCommit(s, seen)
    PROVE  IInv'
<1> USE DEF IInv
<1>1. TypeOK'
  BY DEF lateCommit, lands, TypeOK
<1>2. pending(s)' = {} /\ landed[s] = 0 /\ landed'[s] \in {0, 1}
  <2>1. seen \in pending(s)
    BY DEF lateCommit, pending
  <2>2. landed[s] = 0 /\ \A m \in pending(s) : m = seen
    BY <2>1 DEF LateIsAlone
  <2>3. landed'[s] \in {0, 1}
    BY <2>2 DEF lateCommit, lands, TypeOK
  <2>4. pending(s)' = {}
    BY <2>2 DEF lateCommit, pending
  <2> QED
    BY <2>2, <2>3, <2>4
<1>3. \A r \in Sessions \ {s} : pending(r)' = pending(r) /\ landed'[r] = landed[r]
  BY DEF lateCommit, lands, pending, TypeOK
<1>4. LateIsAlone'
  BY <1>2, <1>3 DEF LateIsAlone
<1>5. ASSUME NEW r \in Sessions PROVE (LabelMatches(r) /\ WorkMatches(r) /\ ReportMatches(r))'
  <2>1. UNCHANGED <<pc, attempt, error, outcome>>
    BY DEF lateCommit
  <2>2. CASE r = s
    <3>1. ~untouched(s) /\ landed[s] # 1
      BY <1>2 DEF lateCommit, untouched, pending
    <3> QED
      BY <1>2, <2>1, <2>2, <3>1 DEF LabelMatches, WorkMatches, ReportMatches
  <2>3. CASE r # s
    BY <1>3, <2>1, <2>3 DEF LabelMatches, WorkMatches, ReportMatches, untouched
  <2> QED
    BY <2>2, <2>3
<1> QED
  BY <1>1, <1>4, <1>5

\* Every step keeps the invariant.
LEMMA NextIInv == IInv /\ [Next]_vars => IInv'
<1> SUFFICES ASSUME IInv, [Next]_vars PROVE IInv'
  OBVIOUS
<1>1. ASSUME UNCHANGED <<pc, attempt, error, outcome, snapshot, wrote, server>>,
             expired' \in [Sessions -> BOOLEAN]
      PROVE  IInv'
  <2>1. TypeOK'
    BY <1>1 DEF server, IInv, TypeOK
  <2>2. \A s \in Sessions : pending(s)' = pending(s)
    BY <1>1 DEF server, pending
  <2>3. UNCHANGED <<pc, attempt, error, outcome, landed>>
    BY <1>1 DEF server
  <2> QED
    BY <2>1, <2>2, <2>3 DEF IInv, LateIsAlone, LabelMatches, WorkMatches, ReportMatches,
        untouched
<1>2. ASSUME NEW s \in Sessions, deadlinePasses(s) PROVE IInv'
  BY <1>1, <1>2 DEF deadlinePasses, IInv, TypeOK
<1>4. CASE UNCHANGED vars
  BY <1>1, <1>4 DEF vars, server, IInv, TypeOK
<1>3. value \in Nat
  BY DEF IInv, TypeOK
<1> QED
  BY <1>2, <1>3, <1>4, StepIInv, LateIInv DEF Next

-----------------------------------------------------------------------------
\* The inductive invariant holds in every behaviour.
LEMMA Invariance == Spec => []IInv
BY InitIInv, NextIInv, PTL DEF Spec

\* Every variable of the calls and of the server keeps its type.
THEOREM TypeCorrect == Spec => []TypeOK
<1>1. IInv => TypeOK
  BY DEF IInv
<1> QED
  BY <1>1, Invariance, PTL

\* A callback's work lands at most once, whatever is lost, late or retried; a
\* success has landed, and a failure has not and never will.
THEOREM Truthful == Spec => []OutcomeIsTruthful
<1>1. IInv => OutcomeIsTruthful
  BY DEF IInv, TypeOK, LateIsAlone, ReportMatches, untouched, pending, OutcomeIsTruthful
<1> QED
  BY <1>1, Invariance, PTL

-----------------------------------------------------------------------------
\* Work that lands is that of a call which has not reported, or reported that it
\* does not know; and it had not landed before.
LEMMA LandsApplies ==
    ASSUME IInv, NEW s \in Sessions, lands(s), landed[s] = 0,
           outcome[s] \in {"none", "unknown"}, UNCHANGED outcome
    PROVE  Work!Apply(s)
BY DEF IInv, TypeOK, lands, Work!Apply

\* A call that returns reports what is so, and changes nothing else.
LEMMA ReturnReports ==
    ASSUME IInv, NEW s \in Sessions, return(s), outcome[s] = "none", UNCHANGED <<value, landed>>,
           error[s] = "none" => landed[s] = 1,
           error[s] \in {"TransientTransactionError", "unlabelled"} => landed[s] = 0
    PROVE  Work!Next
<1> DEFINE applied == {r \in Sessions : landed[r] > 0}
<1>1. error[s] \in Labels
  BY DEF IInv, TypeOK
<1>2. UNCHANGED <<value, applied>>
  OBVIOUS
<1>3. CASE error[s] = "none"
  <2>1. outcome' = [outcome EXCEPT ![s] = "success"]
    BY <1>3 DEF return
  <2>2. s \in applied
    BY <1>3
  <2> QED
    BY <1>2, <2>1, <2>2 DEF Work!Next, Work!Report
<1>4. CASE error[s] = "UnknownTransactionCommitResult"
  <2>1. outcome' = [outcome EXCEPT ![s] = "unknown"]
    BY <1>4 DEF return
  <2> QED
    BY <1>2, <2>1 DEF Work!Next, Work!Report
<1>5. CASE error[s] \in {"TransientTransactionError", "unlabelled"}
  <2>1. outcome' = [outcome EXCEPT ![s] = "failure"]
    BY <1>5 DEF return
  <2>2. s \notin applied
    BY <1>5
  <2> QED
    BY <1>2, <2>1, <2>2 DEF Work!Next, Work!Report
<1> QED
  BY <1>1, <1>3, <1>4, <1>5 DEF Labels

\* Every step is one of AtomicWork, or leaves the work and its report as they are.
LEMMA StepImplements == IInv /\ [Next]_vars => [Work!Next]_(Work!vars)
<1> SUFFICES ASSUME IInv, [Next]_vars PROVE [Work!Next]_(Work!vars)
  OBVIOUS
<1>1. ASSUME UNCHANGED <<value, landed, outcome>> PROVE UNCHANGED Work!vars
  BY <1>1 DEF Work!vars
<1>2. ASSUME NEW s \in Sessions, step(s) PROVE [Work!Next]_(Work!vars)
  <2>1. LabelMatches(s) /\ WorkMatches(s) /\ ReportMatches(s)
    BY DEF IInv
  <2>2. CASE startAttempt(s) \/ callbackWrites(s) \/ callbackFails(s) \/ callbackReturns(s)
               \/ abort(s) \/ commitRejected(s) \/ commitUnknown(s) \/ retry(s)
    BY <1>1, <2>2 DEF startAttempt, callbackWrites, callbackFails, callbackReturns, abort,
        commitRejected, commitUnknown, retry, call, server
  <2>3. CASE commitLands(s)
    <3>1. landed[s] = 0 /\ outcome[s] = "none"
      BY <2>1, <2>3 DEF commitLands, WorkMatches, ReportMatches, untouched
    <3> QED
      BY <2>3, <3>1, LandsApplies DEF commitLands, call, Work!Next
  <2>4. CASE backoffOutlastsDeadline(s) \/ commitSucceeds(s) \/ giveUp(s)
    <3>1. return(s) /\ UNCHANGED <<value, landed>> /\ outcome[s] = "none"
      BY <2>1, <2>4 DEF backoffOutlastsDeadline, commitSucceeds, giveUp, server, ReportMatches
    <3>2. /\ error[s] = "none" => landed[s] = 1
          /\ error[s] \in {"TransientTransactionError", "unlabelled"} => landed[s] = 0
      BY <2>1, <2>4 DEF backoffOutlastsDeadline, commitSucceeds, giveUp, LabelMatches,
          WorkMatches, untouched
    <3> QED
      BY <3>1, <3>2, ReturnReports
  <2> QED
    BY <1>2, <2>2, <2>3, <2>4 DEF step
<1>3. ASSUME NEW s \in Sessions, NEW seen \in 0..value, lateCommit(s, seen)
      PROVE  [Work!Next]_(Work!vars)
  <2>1. seen \in Nat
    BY DEF IInv, TypeOK
  <2>2. landed[s] = 0 /\ ~untouched(s)
    BY <1>3, <2>1 DEF lateCommit, IInv, LateIsAlone, untouched, pending
  <2>3. CASE lands(s)
    <3>1. outcome[s] \in {"none", "unknown"}
      BY <2>2 DEF IInv, TypeOK, ReportMatches
    <3> QED
      BY <1>3, <2>2, <2>3, <3>1, LandsApplies DEF lateCommit, Work!Next
  <2>4. CASE UNCHANGED <<value, landed>>
    BY <1>1, <1>3, <2>4 DEF lateCommit
  <2> QED
    BY <1>3, <2>3, <2>4 DEF lateCommit
<1>4. ASSUME NEW s \in Sessions, deadlinePasses(s) PROVE [Work!Next]_(Work!vars)
  BY <1>1, <1>4 DEF deadlinePasses, server
<1>5. CASE UNCHANGED vars
  BY <1>1, <1>5 DEF vars
<1> QED
  BY <1>2, <1>3, <1>4, <1>5 DEF Next

\* The calls of withTransaction do what AtomicWork promises: no update is lost or
\* doubled, and each is made by a call that reports it.
THEOREM Implements == Spec => ImplementsAtomicWork
<1>1. Init => Work!Init
  BY DEF Init, Work!Init
<1> QED
  BY <1>1, Invariance, StepImplements, PTL DEF Spec, ImplementsAtomicWork, Work!Spec
=============================================================================
