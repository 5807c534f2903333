--------------------------- MODULE WithTransaction ---------------------------
(***************************************************************************)
(* ClientSession.withTransaction (session/client-session.ts): several      *)
(* sessions each run a callback that reads a counter and writes it back    *)
(* incremented, retrying over the write conflicts they cause one another.  *)
(*                                                                         *)
(* The callback leaves its transaction to withTransaction, awaits all it   *)
(* starts, and lets its errors out: what the doc comment asks of it.       *)
(*                                                                         *)
(* The server is external: a transaction reads the counter as it was when  *)
(* it began, sees its own writes, and of two that wrote it the one that    *)
(* commits second is rejected.                                             *)
(***************************************************************************)
EXTENDS Naturals

CONSTANTS Sessions,
          MaxAttempts       \* bound: attempts a session makes before its deadline

ASSUME AttemptsPositive == MaxAttempts \in Nat \ {0}

VARIABLES
    pc,         \* where each call of withTransaction is
    attempt,    \* attempts begun
    error,      \* what the last attempt failed with: its label
    expired,    \* the deadline has passed
    outcome,    \* what the call has reported
    value,      \* external: the committed counter, which is also its version
    snapshot,   \* external: the counter as the open transaction first saw it
    wrote,      \* external: the open transaction has written the counter
    late,       \* external: commits whose caller has stopped waiting and that the
                \*           server has not taken up: session, and what it saw
    landed      \* history: how often each session's work has been committed

vars == <<pc, attempt, error, expired, outcome, value, snapshot, wrote, late, landed>>

call   == <<attempt, expired, outcome>>
server == <<value, late, landed>>

Labels == { "none",
            "TransientTransactionError",
            "UnknownTransactionCommitResult",
            "unlabelled" }

TypeOK ==
    /\ pc \in [Sessions -> {"loop", "callback", "aborting", "committing",
                            "committed", "failed", "done"}]
    /\ attempt \in [Sessions -> 0..MaxAttempts]
    /\ error \in [Sessions -> Labels]
    /\ expired \in [Sessions -> BOOLEAN]
    /\ outcome \in [Sessions -> {"none", "success", "failure", "unknown"}]
    /\ value \in Nat
    /\ snapshot \in [Sessions -> Nat]
    /\ wrote \in [Sessions -> BOOLEAN]
    /\ late \subseteq Sessions \X Nat
    /\ landed \in [Sessions -> Nat]

Init ==
    /\ pc = [s \in Sessions |-> "loop"]
    /\ attempt = [s \in Sessions |-> 0]
    /\ error = [s \in Sessions |-> "none"]
    /\ expired = [s \in Sessions |-> FALSE]
    /\ outcome = [s \in Sessions |-> "none"]
    /\ value = 0
    /\ snapshot = [s \in Sessions |-> 0]
    /\ wrote = [s \in Sessions |-> FALSE]
    /\ late = {}
    /\ landed = [s \in Sessions |-> 0]

goto(s, at) == pc' = [pc EXCEPT ![s] = at]
fails(s, label) == error' = [error EXCEPT ![s] = label]

\* Every exit of withTransaction: with the callback's result, or by throwing.
return(s) ==
    /\ goto(s, "done")
    /\ outcome' = [outcome EXCEPT ![s] =
          CASE error[s] = "none" -> "success"
            [] error[s] = "UnknownTransactionCommitResult" -> "unknown"
            [] OTHER -> "failure"]

deadlinePasses(s) ==
    /\ pc[s] # "done"
    /\ ~expired[s]
    /\ expired' = [expired EXCEPT ![s] = TRUE]
    /\ UNCHANGED <<pc, attempt, error, outcome, snapshot, wrote, server>>

-----------------------------------------------------------------------------
\* The head of the loop: a retry gives up if its backoff would outlast the
\* deadline. The error of the failed attempt stays behind for that throw.
startAttempt(s) ==
    /\ pc[s] = "loop"
    /\ attempt[s] < MaxAttempts
    /\ attempt' = [attempt EXCEPT ![s] = @ + 1]
    /\ goto(s, "callback")
    /\ fails(s, "none")
    /\ snapshot' = [snapshot EXCEPT ![s] = value]
    /\ wrote' = [wrote EXCEPT ![s] = FALSE]
    /\ UNCHANGED <<expired, outcome, server>>

backoffOutlastsDeadline(s) ==
    /\ pc[s] = "loop"
    /\ attempt[s] > 0
    /\ return(s)
    /\ UNCHANGED <<attempt, error, expired, snapshot, wrote, server>>

\* The callback's statements. A write fails over a conflict the server sees at
\* once, for a reason of its own, or with the connection.
callbackWrites(s) ==
    /\ pc[s] = "callback"
    /\ ~wrote[s]
    /\ wrote' = [wrote EXCEPT ![s] = TRUE]
    /\ UNCHANGED <<pc, attempt, error, expired, outcome, snapshot, server>>

callbackFails(s) ==
    /\ pc[s] = "callback"
    /\ \/ value # snapshot[s] /\ fails(s, "TransientTransactionError")
       \/ fails(s, "unlabelled")
    /\ goto(s, "aborting")
    /\ UNCHANGED <<call, snapshot, wrote, server>>

\* The abort of a failed callback's transaction. A failure of it is swallowed.
abort(s) ==
    /\ pc[s] = "aborting"
    /\ goto(s, "failed")
    /\ wrote' = [wrote EXCEPT ![s] = FALSE]
    /\ UNCHANGED <<call, error, snapshot, server>>

\* Mutant: the transaction is left to be committed by somebody else.
callbackReturns_uncommitted(s) ==
    /\ pc[s] = "callback"
    /\ wrote[s]
    /\ return(s)
    /\ UNCHANGED <<attempt, error, expired, snapshot, wrote, server>>

\* A callback that returns has its transaction committed for it.
callbackReturns(s) ==
    /\ pc[s] = "callback"
    /\ wrote[s]
    /\ goto(s, "committing")
    /\ UNCHANGED <<call, error, snapshot, wrote, server>>

-----------------------------------------------------------------------------
conflicts(seen) == value # seen

lands(s) ==
    /\ value' = value + 1
    /\ landed' = [landed EXCEPT ![s] = @ + 1]

commitLands(s) ==
    /\ pc[s] = "committing"
    /\ ~conflicts(snapshot[s])
    /\ lands(s)
    /\ goto(s, "committed")
    /\ UNCHANGED <<call, error, snapshot, wrote, late>>

commitSucceeds(s) ==
    /\ pc[s] = "committed"
    /\ return(s)
    /\ UNCHANGED <<attempt, error, expired, snapshot, wrote, server>>

\* The commit is answered with an error: the conflict, labelled transient, or
\* another of the server's. Nothing was applied.
commitRejected(s) ==
    /\ pc[s] = "committing"
    /\ \/ conflicts(snapshot[s]) /\ fails(s, "TransientTransactionError")
       \/ fails(s, "unlabelled")
    /\ goto(s, "failed")
    /\ UNCHANGED <<call, snapshot, wrote, server>>

\* labelUnknownCommitResult and withCommitBudget: the connection went, or the
\* budget did. The commit may have been applied, may still be, or may not.
commitUnknown(s) ==
    /\ pc[s] \in {"committing", "committed"}
    /\ \/ UNCHANGED late
       \/ pc[s] = "committing" /\ late' = late \cup {<<s, snapshot[s]>>}
    /\ fails(s, "UnknownTransactionCommitResult")
    /\ goto(s, "failed")
    /\ UNCHANGED <<call, snapshot, wrote, value, landed>>

lateCommit(s, seen) ==
    /\ <<s, seen>> \in late
    /\ late' = late \ {<<s, seen>>}
    /\ IF conflicts(seen) THEN UNCHANGED <<value, landed>> ELSE lands(s)
    /\ UNCHANGED <<pc, attempt, error, expired, outcome, snapshot, wrote>>

\* Mutant: a commit of unknown outcome is retried by running the callback again.
isRetryable_unknownToo(label) ==
    label \in {"TransientTransactionError", "UnknownTransactionCommitResult"}

isRetryable(label) == label = "TransientTransactionError"

\* After a failed attempt: again, or throw what it failed with.
retry(s) ==
    /\ pc[s] = "failed"
    /\ isRetryable(error[s])
    /\ ~expired[s]
    /\ goto(s, "loop")
    /\ UNCHANGED <<call, error, snapshot, wrote, server>>

\* Mutant: a retryable error is never given up on.
giveUp_ignoresDeadline(s) ==
    /\ pc[s] = "failed"
    /\ ~isRetryable(error[s])
    /\ return(s)
    /\ UNCHANGED <<attempt, error, expired, snapshot, wrote, server>>

giveUp(s) ==
    /\ pc[s] = "failed"
    /\ ~isRetryable(error[s]) \/ expired[s]
    /\ return(s)
    /\ UNCHANGED <<attempt, error, expired, snapshot, wrote, server>>

-----------------------------------------------------------------------------
step(s) ==
    \/ startAttempt(s) \/ backoffOutlastsDeadline(s)
    \/ callbackWrites(s) \/ callbackFails(s) \/ callbackReturns(s) \/ abort(s)
    \/ commitLands(s) \/ commitSucceeds(s) \/ commitRejected(s)
    \/ commitUnknown(s) \/ retry(s) \/ giveUp(s)

Next ==
    \/ \E s \in Sessions : step(s) \/ deadlinePasses(s)
    \/ \E s \in Sessions, seen \in 0..value : lateCommit(s, seen)

\* The callback's own statements return, what is sent is answered, and time passes.
Fairness == \A s \in Sessions : WF_vars(step(s)) /\ WF_vars(deadlinePasses(s))

Spec == Init /\ [][Next]_vars /\ Fairness

-----------------------------------------------------------------------------
(* Properties *)

\* "Replaying a callback over a commit that may have landed could apply its
\* writes twice": whatever is lost, late or retried, a callback's work lands at
\* most once; and the error a caller sees tells it whether doing the work again is safe: a
\* success has landed; an error without the label that says the outcome is
\* unknown has not, and never will.
OutcomeIsTruthful ==
    \A s \in Sessions :
        /\ landed[s] <= 1
        /\ outcome[s] = "success" => landed[s] = 1
        /\ outcome[s] = "failure" => landed[s] = 0 /\ \A seen \in 0..value : <<s, seen>> \notin late

\* The sessions' conflicts are all resolved by retrying, one of them always
\* getting through, or by the deadline: every call returns.
EveryCallReturns == \A s \in Sessions : <>(pc[s] = "done")

-----------------------------------------------------------------------------
(* Refinement: no update is lost or doubled, and each is made by a call that *)
(* reports it.                                                               *)

Work == INSTANCE AtomicWork WITH
    applied <- {s \in Sessions : landed[s] > 0}

ImplementsAtomicWork == Work!Spec
=============================================================================
