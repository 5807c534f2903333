-------------------------- MODULE SerialTransaction --------------------------
(***************************************************************************)
(* What one transaction on the server promises the code above it: calls    *)
(* are served one at a time, in the order they were made, each of them in  *)
(* one indivisible step; the first commit or cancel spends the handle, and *)
(* every later call is refused without reaching the server.                *)
(*                                                                         *)
(* TransactionExecutor implements this module; ClientSession relies on it. *)
(***************************************************************************)
EXTENDS Sequences

CONSTANTS Statements,   \* calls that run a statement in the transaction
          Commits,      \* calls that commit it
          Cancels       \* calls that cancel it

Calls   == Statements \cup Commits \cup Cancels
Settles == Commits \cup Cancels

VARIABLES line,      \* calls made and not yet answered, in call order
          spent,     \* a settle has been served
          server,    \* the transaction on the server
          applied,   \* statements that took effect, in the order they did
          answer     \* what the maker of each call has been told

vars == <<line, spent, server, applied, answer>>

Init ==
    /\ line = << >>
    /\ spent = FALSE
    /\ server = "open"
    /\ applied = << >>
    /\ answer = [c \in Calls |-> "none"]

Join(c) ==
    /\ answer[c] = "none"
    /\ line' = Append(line, c)
    /\ answer' = [answer EXCEPT ![c] = "waiting"]
    /\ UNCHANGED <<spent, server, applied>>

\* The head of the line leaves it, told a.
Leaves(c, a) ==
    /\ line # << >>
    /\ c = Head(line)
    /\ line' = Tail(line)
    /\ answer' = [answer EXCEPT ![c] = a]

\* A statement takes effect or it does not. "failed" is also what a lost reply
\* looks like, so it is told of statements that took effect too.
ServeStatement(c) ==
    /\ c \in Statements
    /\ ~spent
    /\ \/ Leaves(c, "ok") /\ applied' = Append(applied, c)
       \/ Leaves(c, "failed") /\ applied' \in {applied, Append(applied, c)}
    /\ UNCHANGED <<spent, server>>

\* "ok" is told of a commit only when the server committed, and of a cancel
\* only when it cancelled. A settle the server never received leaves its
\* transaction open, for the server to discard with the connection.
ServeCommit(c) ==
    /\ c \in Commits
    /\ ~spent
    /\ spent' = TRUE
    /\ \/ Leaves(c, "ok") /\ server' = "committed"
       \/ Leaves(c, "failed") /\ server' \in {"open", "committed", "cancelled"}
    /\ UNCHANGED applied

ServeCancel(c) ==
    /\ c \in Cancels
    /\ ~spent
    /\ spent' = TRUE
    /\ \/ Leaves(c, "ok") /\ server' = "cancelled"
       \/ Leaves(c, "failed") /\ server' \in {"open", "cancelled"}
    /\ UNCHANGED applied

Refuse(c) ==
    /\ spent
    /\ Leaves(c, "refused")
    /\ UNCHANGED <<spent, server, applied>>

Next ==
    \E c \in Calls :
        Join(c) \/ ServeStatement(c) \/ ServeCommit(c) \/ ServeCancel(c) \/ Refuse(c)

Spec == Init /\ [][Next]_vars
=============================================================================
