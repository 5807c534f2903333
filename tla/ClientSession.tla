---------------------------- MODULE ClientSession ----------------------------
(***************************************************************************)
(* One ClientSession (session/client-session.ts) used by several flows of  *)
(* an application at once: the transaction state machine, the deferred     *)
(* acquisition of the server transaction, commit, abort and end.           *)
(*                                                                         *)
(* A flow runs from one await to the next without interruption, so an      *)
(* action is the code between two awaits. Flows meet in the session's      *)
(* fields, which each of them reads again after every await.               *)
(*                                                                         *)
(* A call that the code refuses changes nothing and is not a step: its     *)
(* action's guard is false. A statement made outside a transaction goes to *)
(* the plain connection and leaves the session alone.                      *)
(*                                                                         *)
(* Each acquired TransactionScope behaves as SerialTransaction, which      *)
(* TransactionExecutor is shown to implement.                              *)
(***************************************************************************)
EXTENDS Naturals, Sequences, Transaction

CONSTANTS
    Flows,                  \* concurrent flows of the application
    MaxTransactions,        \* bound: startTransaction calls
    MaxBegins,              \* bound: transactions asked of the server
    OverlapsStart,          \* may a flow call startTransaction while another
                            \* has a call on this session under way?
    HasCommitBudget         \* was maxCommitTimeMS given?

ASSUME BoundsAreNat == MaxTransactions \in Nat /\ MaxBegins \in Nat
ASSUME SwitchesAreBoolean == OverlapsStart \in BOOLEAN /\ HasCommitBudget \in BOOLEAN

Transactions == 1..MaxTransactions      \* Transaction objects, in order of creation
Begins       == 1..MaxBegins            \* _beginTransaction promises, and the scope of each
undefined    == 0                       \* no scope, no acquisition, no transaction

VARIABLES
    \* the session's fields
    transaction,    \* _transaction: which object, undefined for the first one
    state,          \* _transaction.state
    scope,          \* scope
    acquiring,      \* acquiring
    commitFailure,  \* commitFailure is set
    hasEnded,       \* hasEnded
    \* the promises of acquireScope, the flows, and what they hold
    begin,          \* how far each _beginTransaction promise has got
    flow,           \* what each flow awaits or holds
    \* the scopes, and the server behind them
    line,           \* calls enqueued on each scope and not yet answered
    spent,          \* the scope's commit or cancel has been served
    server,         \* the server transaction behind the scope
    \* history
    applied,        \* applied[a]: the transactions whose statements took effect in a
    acked,          \* <<t, a>>: a statement of t that ran in a was answered ok
    told            \* told[t]: what the callers of t's settle were told

session == <<transaction, state, scope, acquiring, commitFailure, hasEnded>>
scopes  == <<line, spent, server>>
history == <<applied, acked, told>>
vars    == <<session, begin, flow, scopes, history>>

\* What a flow is at: nothing; awaiting the acquisition `on`; holding the
\* executor of scope `on`; awaiting a statement, or a settle, enqueued there; or
\* in endSession, whose abort is over, with the `finally` to come. `for` is the
\* transaction that was current when it asked.
Idle      == [at |-> "idle", on |-> undefined, for |-> undefined]
Releasing == [at |-> "releasing", on |-> undefined, for |-> undefined]
FlowStates == [at: {"idle", "acquiring", "holding", "statement",
                    "committing", "aborting", "ending", "releasing"},
               on: Begins \cup {undefined},
               for: Transactions \cup {undefined}]

\* A call enqueued on a scope: by a flow, or by no flow when nobody awaits it.
Nobody == "nobody"
ASSUME NobodyIsNoFlow == Nobody \notin Flows
Jobs == [op: {"statement", "commit", "cancel"}, by: Flows \cup {Nobody},
         for: Transactions \cup {undefined}]

Outcomes == {"open", "committed", "failed", "unknown", "empty", "aborted"}

TypeOK ==
    /\ transaction \in Transactions \cup {undefined}
    /\ state \in TransactionState
    /\ scope \in Begins \cup {undefined}
    /\ acquiring \in Begins \cup {undefined}
    /\ commitFailure \in BOOLEAN
    /\ hasEnded \in BOOLEAN
    /\ begin \in [Begins -> {"unused", "pending", "closing", "resolved", "rejected"}]
    /\ flow \in [Flows -> FlowStates]
    /\ line \in [Begins -> Seq(Jobs)]
    /\ spent \in [Begins -> BOOLEAN]
    /\ server \in [Begins -> {"none", "open", "committed", "cancelled"}]
    /\ applied \in [Begins -> SUBSET Transactions]
    /\ acked \subseteq Transactions \X Begins
    /\ told \in [Transactions -> Outcomes]

Init ==
    /\ transaction = undefined
    /\ state = NoTransaction
    /\ scope = undefined
    /\ acquiring = undefined
    /\ commitFailure = FALSE
    /\ hasEnded = FALSE
    /\ begin = [a \in Begins |-> "unused"]
    /\ flow = [f \in Flows |-> Idle]
    /\ line = [a \in Begins |-> << >>]
    /\ spent = [a \in Begins |-> FALSE]
    /\ server = [a \in Begins |-> "none"]
    /\ applied = [a \in Begins |-> {}]
    /\ acked = {}
    /\ told = [t \in Transactions |-> "open"]

-----------------------------------------------------------------------------
inTransaction == isActive(state)
idle(f)       == flow[f] = Idle

\* Transaction.transition, on whichever object is current when it is called.
\* It throws unless TRANSITIONS allows the move: TransitionsAreLegal and
\* ScopeMatchesState say that it never has to.
transition(next) == state' = next

enqueue(a, op, f, t) ==
    line' = [line EXCEPT ![a] = Append(@, [op |-> op, by |-> f, for |-> t])]

tell(t, outcome) == told' = [told EXCEPT ![t] = outcome]
-----------------------------------------------------------------------------
(* startTransaction: a new Transaction object, and the fields cleared. An  *)
(* acquisition still in flight is forgotten here, not cancelled.           *)

startTransaction(f) ==
    /\ idle(f)
    /\ ~hasEnded
    /\ ~inTransaction
    /\ OverlapsStart \/ \A g \in Flows : idle(g)
    /\ transaction < MaxTransactions
    /\ transaction' = transaction + 1
    /\ state' = StartingTransaction
    /\ scope' = undefined
    /\ acquiring' = undefined
    /\ commitFailure' = FALSE
    /\ UNCHANGED <<hasEnded, begin, flow, scopes, history>>

-----------------------------------------------------------------------------
(* An operation asks for its executor (_executor, acquireScope), issues    *)
(* its statements one after another on what it was given, and returns.     *)

\* The scope is there, or is being acquired, or is asked of the server now.
callOperation(f) ==
    /\ idle(f)
    /\ ~hasEnded
    /\ inTransaction
    /\ \/ /\ scope # undefined
          /\ flow' = [flow EXCEPT ![f] =
                         [at |-> "holding", on |-> scope, for |-> transaction]]
          /\ UNCHANGED <<acquiring, begin>>
       \/ /\ scope = undefined
          /\ acquiring # undefined
          /\ flow' = [flow EXCEPT ![f] =
                         [at |-> "acquiring", on |-> acquiring, for |-> transaction]]
          /\ UNCHANGED <<acquiring, begin>>
       \/ /\ scope = undefined
          /\ acquiring = undefined
          /\ \E a \in Begins :
                /\ begin[a] = "unused"
                /\ \A b \in Begins : b < a => begin[b] # "unused"
                /\ begin' = [begin EXCEPT ![a] = "pending"]
                /\ acquiring' = a
                /\ flow' = [flow EXCEPT ![f] =
                               [at |-> "acquiring", on |-> a, for |-> transaction]]
    /\ UNCHANGED <<transaction, state, scope, commitFailure, hasEnded, scopes, history>>

\* Mutant: the callback keeps the scope whatever has become of the transaction.
beginAdopted_unasked(a) ==
    /\ begin[a] = "pending"
    /\ begin' = [begin EXCEPT ![a] = "resolved"]
    /\ server' = [server EXCEPT ![a] = "open"]
    /\ scope' = a
    /\ transition(TransactionInProgress)
    /\ UNCHANGED <<transaction, acquiring, commitFailure, hasEnded, flow, line, spent,
                   history>>

\* The server opened the transaction and the callback runs. It keeps the scope
\* if the session is starting a transaction now, whichever one that is.
beginAdopted(a) ==
    /\ begin[a] = "pending"
    /\ isStarting(state)
    /\ begin' = [begin EXCEPT ![a] = "resolved"]
    /\ server' = [server EXCEPT ![a] = "open"]
    /\ scope' = a
    /\ transition(TransactionInProgress)
    /\ UNCHANGED <<transaction, acquiring, commitFailure, hasEnded, flow, line, spent,
                   history>>

\* Mutant: a scope nobody wants any more is dropped, not cancelled.
beginDiscarded_dropped(a) ==
    /\ begin[a] = "pending"
    /\ ~isStarting(state)
    /\ begin' = [begin EXCEPT ![a] = "resolved"]
    /\ server' = [server EXCEPT ![a] = "open"]
    /\ UNCHANGED <<session, flow, line, spent, history>>

\* Otherwise it cancels the scope, and resolves with it when that is done.
beginDiscarded(a) ==
    /\ begin[a] = "pending"
    /\ ~isStarting(state)
    /\ begin' = [begin EXCEPT ![a] = "closing"]
    /\ server' = [server EXCEPT ![a] = "open"]
    /\ enqueue(a, "cancel", Nobody, undefined)
    /\ UNCHANGED <<session, flow, spent, history>>

\* The rejection handler forgets whichever acquisition is current.
beginRejected(a) ==
    /\ begin[a] = "pending"
    /\ begin' = [begin EXCEPT ![a] = "rejected"]
    /\ acquiring' = undefined
    /\ UNCHANGED <<transaction, state, scope, commitFailure, hasEnded, flow, scopes, history>>

\* Mutant: a failed acquisition is not passed on to those who await it.
acquired_onlyResolved(f) ==
    /\ flow[f].at = "acquiring"
    /\ begin[flow[f].on] = "resolved"
    /\ flow' = [flow EXCEPT ![f].at = "holding"]
    /\ UNCHANGED <<session, begin, scopes, history>>

acquired(f) ==
    /\ flow[f].at = "acquiring"
    /\ \/ /\ begin[flow[f].on] = "resolved"
          /\ flow' = [flow EXCEPT ![f].at = "holding"]
       \/ /\ begin[flow[f].on] = "rejected"
          /\ flow' = [flow EXCEPT ![f] = Idle]
    /\ UNCHANGED <<session, begin, scopes, history>>

issueStatement(f) ==
    /\ flow[f].at = "holding"
    /\ enqueue(flow[f].on, "statement", f, flow[f].for)
    /\ flow' = [flow EXCEPT ![f].at = "statement"]
    /\ UNCHANGED <<session, begin, spent, server, history>>

returnFromOperation(f) ==
    /\ flow[f].at = "holding"
    /\ flow' = [flow EXCEPT ![f] = Idle]
    /\ UNCHANGED <<session, begin, scopes, history>>
-----------------------------------------------------------------------------
(* Commit, abort and end. Each runs to its only await, where the commit or *)
(* cancel is enqueued; the state moves when that is answered.              *)

\* Mutant: the scope is used and left in its field.
takeScope_keepsScope(f, op, at) ==
    /\ state = TransactionInProgress
    /\ scope # undefined
    /\ enqueue(scope, op, f, transaction)
    /\ flow' = [flow EXCEPT ![f] = [at |-> at, on |-> scope, for |-> transaction]]
    /\ UNCHANGED <<state, scope, acquiring, hasEnded, told>>

\* takeScope, and the settle that its caller enqueues on what it returns.
takeScope(f, op, at) ==
    /\ state = TransactionInProgress
    /\ scope # undefined
    /\ scope' = undefined
    /\ acquiring' = undefined
    /\ enqueue(scope, op, f, transaction)
    /\ flow' = [flow EXCEPT ![f] = [at |-> at, on |-> scope, for |-> transaction]]
    /\ UNCHANGED <<state, hasEnded, told>>

commitTransaction(f) ==
    /\ idle(f)
    /\ ~hasEnded
    /\ \/ /\ state \in {StartingTransaction, TransactionCommittedEmpty}
          /\ transition(TransactionCommittedEmpty)
          /\ tell(transaction, "empty")
          /\ UNCHANGED <<scope, acquiring, hasEnded, line, flow>>
       \/ takeScope(f, "commit", "committing")
    /\ UNCHANGED <<transaction, commitFailure, begin, spent, server,
                   applied, acked>>

\* Aborting what has not begun moves the state and leaves `acquiring` alone.
abortStarting ==
    /\ state = StartingTransaction
    /\ transition(TransactionAborted)
    /\ tell(transaction, "aborted")
    /\ UNCHANGED <<scope, acquiring, line, hasEnded>>

abortTransaction(f) ==
    /\ idle(f)
    /\ ~hasEnded
    /\ \/ abortStarting /\ UNCHANGED flow
       \/ takeScope(f, "cancel", "aborting")
    /\ UNCHANGED <<transaction, commitFailure, begin, spent, server,
                   applied, acked>>

\* endSession's `finally`.
released == hasEnded' = TRUE

\* Mutant: the session is marked first, and its abort then finds it unusable.
endSession_marksFirst(f) ==
    /\ idle(f)
    /\ ~hasEnded
    /\ released
    /\ UNCHANGED <<transaction, state, scope, acquiring, commitFailure, begin, flow, scopes,
                   history>>

\* Without a transaction the session is marked at once. Otherwise the abort is
\* awaited, whatever it does, and the session is usable until it is marked. In
\* the third disjunct abortTransaction throws: another settle has the scope.
endSession(f) ==
    /\ idle(f)
    /\ ~hasEnded
    /\ \/ /\ ~inTransaction
          /\ released
          /\ UNCHANGED <<state, scope, acquiring, line, flow, told>>
       \/ /\ abortStarting
          /\ flow' = [flow EXCEPT ![f] = Releasing]
       \/ /\ state = TransactionInProgress
          /\ scope = undefined
          /\ flow' = [flow EXCEPT ![f] = Releasing]
          /\ UNCHANGED <<state, scope, acquiring, hasEnded, line, told>>
       \/ takeScope(f, "cancel", "ending")
    /\ UNCHANGED <<transaction, commitFailure, begin, spent, server,
                   applied, acked>>

\* The await of abortTransaction is over.
sessionReleased(f) ==
    /\ flow[f] = Releasing
    /\ released
    /\ flow' = [flow EXCEPT ![f] = Idle]
    /\ UNCHANGED <<transaction, state, scope, acquiring, commitFailure, begin, scopes,
                   history>>

-----------------------------------------------------------------------------
(* A scope answers the call at the head of its line, as SerialTransaction  *)
(* does, and the flow that awaited it goes on. A spent scope would refuse  *)
(* a commit or cancel too; SettleFindsLiveHandle says that none meets one. *)

answers(a, op) ==
    /\ line[a] # << >>
    /\ Head(line[a]).op = op
    /\ line' = [line EXCEPT ![a] = Tail(@)]

\* An operation goes on to its next statement or returns, whatever it was told.
answerStatement(a) ==
    LET job == Head(line[a]) IN
    /\ answers(a, "statement")
    /\ flow' = [flow EXCEPT ![job.by].at = "holding"]
    /\ \/ /\ ~spent[a]
          /\ applied' = [applied EXCEPT ![a] = @ \cup {job.for}]
          /\ acked' \in {acked, acked \cup {<<job.for, a>>}}
       \/ UNCHANGED <<applied, acked>>      \* failed, or refused by assertLive
    /\ UNCHANGED <<session, begin, spent, server, told>>

\* Mutant: labelUnknownCommitResult is left out, and a lost reply reads as a failure.
CommitAnswers_unlabelled ==
    { <<"committed", "committed">> }
    \cup { <<s, "failed">> : s \in {"open", "committed", "cancelled"} }

\* What the server can have done with a commit, and what its caller is told:
\* done; rolled back over a conflict; or anything, when the reply is lost.
CommitAnswers ==
    { <<"committed", "committed">>, <<"cancelled", "failed">> }
    \cup { <<s, "unknown">> : s \in {"open", "committed", "cancelled"} }

\* commitTransaction's finally, unless its budget ran out and it has returned.
commitSettled(job, outcome) ==
    IF job.by = Nobody
    THEN UNCHANGED <<state, commitFailure, flow, told>>
    ELSE /\ transition(TransactionCommitted)
         /\ commitFailure' = (outcome # "committed")
         /\ tell(job.for, outcome)
         /\ flow' = [flow EXCEPT ![job.by] = Idle]

answerCommit(a) ==
    LET job == Head(line[a]) IN
    /\ answers(a, "commit")
    /\ ~spent[a]
    /\ spent' = [spent EXCEPT ![a] = TRUE]
    /\ \E did \in CommitAnswers :
          /\ server' = [server EXCEPT ![a] = did[1]]
          /\ commitSettled(job, did[2])
    /\ UNCHANGED <<transaction, scope, acquiring, hasEnded, begin, applied, acked>>

\* A cancel that fails is swallowed by all of its callers: abortTransaction,
\* which endSession may be awaiting, and the acquisition's callback, which then
\* resolves.
answerCancel(a) ==
    LET job == Head(line[a]) IN
    /\ answers(a, "cancel")
    /\ ~spent[a]
    /\ spent' = [spent EXCEPT ![a] = TRUE]
    /\ \E s \in {"open", "cancelled"} : server' = [server EXCEPT ![a] = s]
    /\ IF job.by = Nobody
       THEN /\ begin' = [begin EXCEPT ![a] = "resolved"]
            /\ UNCHANGED <<state, flow, told>>
       ELSE /\ transition(TransactionAborted)
            /\ tell(job.for, "aborted")
            /\ flow' = [flow EXCEPT ![job.by] =
                           IF flow[job.by].at = "ending" THEN Releasing ELSE Idle]
            /\ UNCHANGED begin
    /\ UNCHANGED <<transaction, scope, acquiring, commitFailure, hasEnded, applied, acked>>

\* Mutant: the budget running out is taken for the commit's success.
withCommitBudget_resolves(f) ==
    /\ HasCommitBudget
    /\ flow[f].at = "committing"
    /\ \E i \in 1..Len(line[flow[f].on]) :
          /\ line[flow[f].on][i].by = f
          /\ line' = [line EXCEPT ![flow[f].on][i].by = Nobody]
    /\ transition(TransactionCommitted)
    /\ tell(flow[f].for, "committed")
    /\ flow' = [flow EXCEPT ![f] = Idle]
    /\ UNCHANGED <<transaction, scope, acquiring, commitFailure, hasEnded, begin, spent,
                   server, applied, acked>>

\* maxCommitTimeMS runs out first: the caller is told the outcome is unknown,
\* and the commit stays where it is, awaited by nobody.
withCommitBudget(f) ==
    /\ HasCommitBudget
    /\ flow[f].at = "committing"
    /\ \E i \in 1..Len(line[flow[f].on]) :
          /\ line[flow[f].on][i].by = f
          /\ line' = [line EXCEPT ![flow[f].on][i].by = Nobody]
    /\ transition(TransactionCommitted)
    /\ commitFailure' = TRUE
    /\ tell(flow[f].for, "unknown")
    /\ flow' = [flow EXCEPT ![f] = Idle]
    /\ UNCHANGED <<transaction, scope, acquiring, hasEnded, begin, spent, server,
                   applied, acked>>

-----------------------------------------------------------------------------
beginSettles(a) == beginAdopted(a) \/ beginDiscarded(a) \/ beginRejected(a)
answer(a)       == answerStatement(a) \/ answerCommit(a) \/ answerCancel(a)

Next ==
    \/ \E f \in Flows :
          \/ startTransaction(f) \/ callOperation(f) \/ acquired(f)
          \/ issueStatement(f) \/ returnFromOperation(f)
          \/ commitTransaction(f) \/ withCommitBudget(f) \/ abortTransaction(f)
          \/ endSession(f) \/ sessionReleased(f)
    \/ \E a \in Begins : beginSettles(a) \/ answer(a)

\* The server answers what it is sent, or the SDK rejects it when the
\* connection goes; a promise reaction runs. Nothing makes an application
\* call anything, or return.
Fairness ==
    /\ \A a \in Begins : WF_vars(beginSettles(a)) /\ WF_vars(answer(a))
    /\ \A f \in Flows : WF_vars(acquired(f)) /\ WF_vars(sessionReleased(f))

Spec     == Init /\ [][Next]_vars
FairSpec == Spec /\ Fairness

-----------------------------------------------------------------------------
(* Properties that hold however the flows overlap *)

settling(f)  == flow[f].at \in {"committing", "aborting", "ending"}
isSettle(job) == job.op \in {"commit", "cancel"}
settleInLine(a) == \E i \in 1..Len(line[a]) : isSettle(line[a][i])

\* "An illegal transition means the driver's own bookkeeping is wrong": within
\* one transaction the state only moves as the table of transitions allows.
TransitionsAreLegal ==
    [][transaction' = transaction /\ state' # state
       => state' \in TRANSITIONS[state]]_<<transaction, state>>

\* The fields agree with the state, whoever changed them last. While a flow
\* awaits its commit or cancel the transaction stays in progress, so the object
\* it moves afterwards is still the one it settled and no other flow has moved it
\* meanwhile. A stored handle belongs to a transaction in progress and is live;
\* and a transaction in progress without one has a single commit, abort or end
\* under way that took it: the one reason takeScope gives for its absence.
ScopeMatchesState ==
    /\ \A f \in Flows :
          settling(f) => /\ state = TransactionInProgress
                         /\ scope = undefined
                         /\ flow[f].for = transaction
    /\ scope # undefined =>
          /\ state = TransactionInProgress
          /\ ~spent[scope]
          /\ ~settleInLine(scope)
    /\ state = TransactionInProgress /\ scope = undefined =>
          \E f \in Flows : settling(f) /\ \A g \in Flows : settling(g) => g = f

\* No scope is settled twice: neither two flows racing a commit against an
\* abort, nor the callback's own cancel, reach a handle that is spent.
SettleFindsLiveHandle ==
    \A a \in Begins : settleInLine(a) => ~spent[a] /\ server[a] = "open"

\* No server transaction is left behind: one that is open is the session's own
\* handle, or its commit or cancel is on its way, even when its acquisition was
\* overtaken by an abort, by endSession or by the next transaction.
NoOrphanedTransaction ==
    \A a \in Begins :
        server[a] = "open" /\ ~spent[a] => scope = a \/ settleInLine(a)

\* Every wait ends: for the acquisition, the statement, the settle, or the abort
\* that endSession makes.
EveryWaitEnds ==
    \A f \in Flows :
        flow[f].at \notin {"idle", "holding"} ~> flow[f].at \in {"idle", "holding"}

-----------------------------------------------------------------------------
(* Properties of transactions that do not overlap one another's calls *)

\* "The statement waiting on it must fail rather than run outside the
\* transaction the caller believes was discarded": what was aborted, or
\* committed empty, or rejected at its commit, is never durable.
DiscardedIsNeverDurable ==
    \A t \in Transactions, a \in Begins :
        told[t] \in {"aborted", "empty", "failed"} /\ t \in applied[a]
        => server[a] # "committed"

\* "A caller who ends a session without committing has not committed": a session
\* that has ended has no transaction and will be given none. An acquisition still
\* in flight finds none starting, and closes what it opened. It is usable until the
\* `finally`, so a transaction started while endSession is awaited outlives it.
EndedSessionHoldsNone == hasEnded => scope = undefined /\ ~isStarting(state)

\* A transaction's statements take effect in one server transaction, which no
\* other transaction's statements take effect in: this is what makes the
\* transaction atomic whatever becomes of the one on the server. When the commit
\* is acknowledged, every acknowledged statement is durable.
CommitsWhole ==
    /\ \A a \in Begins : \A t, u \in applied[a] : t = u
    /\ \A a, b \in Begins : applied[a] \cap applied[b] # {} => a = b
    /\ \A t \in Transactions, a \in Begins :
          told[t] = "committed" /\ <<t, a>> \in acked => server[a] = "committed"
=============================================================================
