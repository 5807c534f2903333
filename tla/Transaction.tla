---------------------------- MODULE Transaction ----------------------------
(***************************************************************************)
(* The state machine a ClientSession carries (session/transaction.ts): the *)
(* states, their legal successors, and the predicates callers branch on.   *)
(* A constant-level module: ClientSession holds the state itself.          *)
(***************************************************************************)

NoTransaction             == "NO_TRANSACTION"
StartingTransaction       == "STARTING_TRANSACTION"
TransactionInProgress     == "TRANSACTION_IN_PROGRESS"
TransactionCommitted      == "TRANSACTION_COMMITTED"
TransactionCommittedEmpty == "TRANSACTION_COMMITTED_EMPTY"
TransactionAborted        == "TRANSACTION_ABORTED"

TransactionState ==
    { NoTransaction, StartingTransaction, TransactionInProgress,
      TransactionCommitted, TransactionCommittedEmpty, TransactionAborted }

\* Legal successors of a state. A session starts every transaction from a
\* fresh Transaction object, so no terminal state leads anywhere but to itself.
TRANSITIONS ==
    [ s \in TransactionState |->
        CASE s = NoTransaction -> {StartingTransaction}
          [] s = StartingTransaction ->
                {TransactionInProgress, TransactionCommittedEmpty, TransactionAborted}
          [] s = TransactionInProgress ->
                {TransactionCommitted, TransactionAborted}
          [] s = TransactionCommittedEmpty -> {TransactionCommittedEmpty}
          [] OTHER -> {} ]

ACTIVE_STATES   == {StartingTransaction, TransactionInProgress}

isStarting(s)  == s = StartingTransaction
isActive(s)    == s \in ACTIVE_STATES
=============================================================================
