------------------------- MODULE ClientSessionProofs -------------------------
(***************************************************************************)
(* That the session's bookkeeping holds however flows, transactions and    *)
(* acquisitions overlap: for any number of each, with or without a commit  *)
(* budget, and whether or not a transaction is started while calls of the  *)
(* last are under way. And that a transaction is atomic, one that was      *)
(* discarded stays so, and an ended session holds none, when no            *)
(* transaction is started while calls of the session are under way.        *)
(***************************************************************************)
EXTENDS ClientSession, TLAPS

\* An active transaction is one that was started.
ActiveIsStarted == inTransaction => transaction \in Transactions

\* A flow that is at something is at some scope, for some transaction; and it
\* holds only scopes that were begun.
begun(a) == begin[a] \in {"closing", "resolved"}

FlowsOK ==
    \A f \in Flows : flow[f].at \notin {"idle", "releasing"} =>
        /\ flow[f].on \in Begins
        /\ flow[f].for \in Transactions
        /\ flow[f].at # "acquiring" => begun(flow[f].on)

\* A call that waits for its answer is awaited by the flow that made it, there.
jobOK(job, a) ==
    /\ job.op = "statement" =>
          /\ job.by \in Flows
          /\ job.for \in Transactions
          /\ flow[job.by].at = "statement"
          /\ flow[job.by].on = a
    /\ job.op # "statement" /\ job.by # Nobody =>
          /\ settling(job.by)
          /\ flow[job.by].at = "committing" <=> job.op = "commit"
          /\ flow[job.by].on = a

JobsOK == \A a \in Begins : \A i \in 1..Len(line[a]) : jobOK(line[a][i], a)

\* And by no other: a flow awaits one call, and a scope is settled by one.
OneEach ==
    \A a \in Begins : \A i, k \in 1..Len(line[a]) :
        \/ line[a][i].by = line[a][k].by /\ line[a][i].by # Nobody
        \/ isSettle(line[a][i]) /\ isSettle(line[a][k])
        => i = k

\* What was not begun has nothing: no call, no transaction, and no session.
UnbegunIsBare ==
    \A a \in Begins : ~begun(a) =>
        line[a] = << >> /\ ~spent[a] /\ server[a] = "none" /\ scope # a

\* The session's handle is of a transaction that is open on the server.
ScopeIsOpen == scope # undefined => server[scope] = "open"

IInv ==
    /\ TypeOK
    /\ ActiveIsStarted
    /\ FlowsOK
    /\ JobsOK
    /\ OneEach
    /\ UnbegunIsBare
    /\ ScopeIsOpen
    /\ ScopeMatchesState
    /\ SettleFindsLiveHandle
    /\ NoOrphanedTransaction

-----------------------------------------------------------------------------
(* Facts about the lines of calls *)

\* What is left of a line that has lost its head.
LEMMA TailElements ==
    ASSUME NEW S, NEW q \in Seq(S), q # << >>
    PROVE  /\ Tail(q) \in Seq(S)
           /\ Head(q) = q[1]
           /\ Head(q) \in S
           /\ Len(q) \in Nat /\ Len(q) >= 1
           /\ Len(Tail(q)) = Len(q) - 1
           /\ \A i \in 1..Len(Tail(q)) : i + 1 \in 1..Len(q) /\ Tail(q)[i] = q[i + 1]
<1>1. Len(q) \in Nat /\ Len(q) >= 1
  BY SMT
<1>2. Len(Tail(q)) = Len(q) - 1 /\ Tail(q) \in Seq(S)
  BY SMT
<1>3. Head(q) = q[1] /\ q[1] \in S
  BY <1>1, SMT
<1>4. \A i \in 1..Len(Tail(q)) : i + 1 \in 1..Len(q) /\ Tail(q)[i] = q[i + 1]
  BY <1>1, <1>2, SMT
<1>5. QED
  BY <1>1, <1>2, <1>3, <1>4

\* A line in which one call is replaced.
LEMMA ReplacedElements ==
    ASSUME NEW S, NEW q \in Seq(S), NEW i \in 1..Len(q), NEW e \in S
    PROVE  /\ [q EXCEPT ![i] = e] \in Seq(S)
           /\ Len([q EXCEPT ![i] = e]) = Len(q)
           /\ [q EXCEPT ![i] = e][i] = e
           /\ \A k \in 1..Len(q) : k # i => [q EXCEPT ![i] = e][k] = q[k]
<1> DEFINE r == [q EXCEPT ![i] = e]
<1>1. Len(q) \in Nat /\ q \in [1..Len(q) -> S]
  BY SMT
<1>2. r \in [1..Len(q) -> S]
  BY <1>1
<1>3. r \in Seq(S)
  BY <1>1, <1>2, SMT
<1>4. Len(r) = Len(q)
  BY <1>1, <1>2, SMT
<1>5. r[i] = e /\ \A k \in 1..Len(q) : k # i => r[k] = q[k]
  BY <1>1
<1>6. QED
  BY <1>3, <1>4, <1>5

\* Every call in a line is a call, and what waits there can be counted.
LEMMA LineElements ==
    ASSUME TypeOK, NEW a \in Begins
    PROVE  /\ line[a] \in Seq(Jobs)
           /\ Len(line[a]) \in Nat
           /\ \A i \in 1..Len(line[a]) : line[a][i] \in Jobs
<1>1. line[a] \in Seq(Jobs)
  BY DEF TypeOK
<1>2. QED
  BY <1>1, SMT

\* A call that is enqueued stands at the end of its line and moves no other.
LEMMA Enqueued ==
    ASSUME TypeOK, NEW a \in Begins, NEW job \in Jobs,
           line' = [line EXCEPT ![a] = Append(@, job)]
    PROVE  /\ line' \in [Begins -> Seq(Jobs)]
           /\ \A b \in Begins : b # a => line'[b] = line[b]
           /\ Len(line[a]) \in Nat
           /\ Len(line'[a]) = Len(line[a]) + 1
           /\ line'[a][Len(line[a]) + 1] = job
           /\ \A i \in 1..Len(line[a]) : line'[a][i] = line[a][i]
           /\ \A b \in Begins : b # a => (settleInLine(b)' <=> settleInLine(b))
           /\ settleInLine(a)' <=> settleInLine(a) \/ isSettle(job)
<1>1. line[a] \in Seq(Jobs) /\ Len(line[a]) \in Nat
  BY LineElements
<1>2. line' \in [Begins -> Seq(Jobs)]
  <2>1. Append(line[a], job) \in Seq(Jobs)
    BY <1>1, SMT
  <2>2. QED
    BY <2>1 DEF TypeOK
<1>3. line'[a] = Append(line[a], job) /\ \A b \in Begins : b # a => line'[b] = line[b]
  BY DEF TypeOK
<1>4. /\ Len(line'[a]) = Len(line[a]) + 1
      /\ line'[a][Len(line[a]) + 1] = job
      /\ \A i \in 1..Len(line[a]) : line'[a][i] = line[a][i]
  BY <1>1, <1>3, SMT
<1>5. \A b \in Begins : b # a => (settleInLine(b)' <=> settleInLine(b))
  BY <1>3 DEF settleInLine
<1>6. settleInLine(a)' <=> settleInLine(a) \/ isSettle(job)
  <2>1. settleInLine(a)' => settleInLine(a) \/ isSettle(job)
    BY <1>1, <1>4 DEF settleInLine
  <2>2. settleInLine(a) => settleInLine(a)'
    BY <1>1, <1>4 DEF settleInLine
  <2>3. isSettle(job) => settleInLine(a)'
    <3>1. Len(line[a]) + 1 \in 1..Len(line'[a])
      BY <1>1, <1>4
    <3>2. QED
      BY <3>1, <1>4 DEF settleInLine
  <2>4. QED
    BY <2>1, <2>2, <2>3
<1>7. QED
  BY <1>1, <1>2, <1>3, <1>4, <1>5, <1>6

\* The call that is answered leaves the head of its line to the next one.
LEMMA Answered ==
    ASSUME TypeOK, NEW a \in Begins, line[a] # << >>,
           line' = [line EXCEPT ![a] = Tail(@)]
    PROVE  /\ line' \in [Begins -> Seq(Jobs)]
           /\ \A b \in Begins : b # a => line'[b] = line[b]
           /\ 1 \in 1..Len(line[a])
           /\ Head(line[a]) = line[a][1]
           /\ Head(line[a]) \in Jobs
           /\ Len(line'[a]) \in Nat
           /\ \A i \in 1..Len(line'[a]) : i + 1 \in 1..Len(line[a])
                                          /\ line'[a][i] = line[a][i + 1]
           /\ \A i \in 1..Len(line[a]) : i # 1 => i - 1 \in 1..Len(line'[a])
           /\ \A b \in Begins : b # a => (settleInLine(b)' <=> settleInLine(b))
           /\ settleInLine(a)' => settleInLine(a)
           /\ settleInLine(a) => settleInLine(a)' \/ isSettle(Head(line[a]))
<1>1. line[a] \in Seq(Jobs) /\ Len(line[a]) \in Nat /\ Len(line[a]) >= 1
  <2>1. line[a] \in Seq(Jobs)
    BY LineElements
  <2>2. QED
    BY <2>1, TailElements
<1>2. line'[a] = Tail(line[a]) /\ \A b \in Begins : b # a => line'[b] = line[b]
  BY DEF TypeOK
<1>3. Tail(line[a]) \in Seq(Jobs) /\ Len(Tail(line[a])) = Len(line[a]) - 1
  BY <1>1, TailElements
<1>4. line' \in [Begins -> Seq(Jobs)]
  BY <1>3 DEF TypeOK
<1>5. Head(line[a]) = line[a][1] /\ line[a][1] \in Jobs
  BY <1>1, SMT
<1>6. \A i \in 1..Len(line'[a]) : i + 1 \in 1..Len(line[a])
                                  /\ line'[a][i] = line[a][i + 1]
  <2>1. \A i \in 1..Len(Tail(line[a])) :
            i + 1 \in 1..Len(line[a]) /\ Tail(line[a])[i] = line[a][i + 1]
    BY <1>1, TailElements
  <2>2. QED
    BY <2>1, <1>2
<1>7. \A b \in Begins : b # a => (settleInLine(b)' <=> settleInLine(b))
  BY <1>2 DEF settleInLine
<1>8. settleInLine(a)' => settleInLine(a)
  BY <1>6 DEF settleInLine
<1>9. \A i \in 1..Len(line[a]) : i # 1 =>
          i - 1 \in 1..Len(line'[a]) /\ line[a][i] = line'[a][i - 1]
  BY SMTT(30), <1>1, <1>2, <1>3, <1>6
<1>10. settleInLine(a) => settleInLine(a)' \/ isSettle(Head(line[a]))
  BY <1>5, <1>9 DEF settleInLine
<1>11. QED
  BY <1>1, <1>2, <1>3, <1>4, <1>5, <1>6, <1>7, <1>8, <1>9, <1>10

\* A flow that awaits no answer has no call in any line.
LEMMA FreeFlowHasNoCall ==
    ASSUME IInv, NEW f \in Flows, flow[f].at \in {"idle", "releasing", "acquiring", "holding"}
    PROVE  \A a \in Begins : \A i \in 1..Len(line[a]) : line[a][i].by # f
  BY NobodyIsNoFlow DEF IInv, JobsOK, jobOK, settling

\* A flow that awaits no answer may move without the lines.
LEMMA FreeFlowMoves ==
    ASSUME IInv, NEW f \in Flows, flow[f].at \in {"idle", "releasing", "acquiring", "holding"},
           UNCHANGED line, \A g \in Flows : g # f => flow'[g] = flow[g]
    PROVE  JobsOK' /\ OneEach' /\ \A a \in Begins : settleInLine(a)' <=> settleInLine(a)
<1>1. \A a \in Begins : \A i \in 1..Len(line[a]) : line[a][i].by # f
  BY FreeFlowHasNoCall
<1>2. \A a \in Begins : \A i \in 1..Len(line[a]) :
          line[a][i].by # Nobody => line[a][i].by \in Flows
  <2>1. \A a \in Begins : \A i \in 1..Len(line[a]) : line[a][i] \in Jobs
    BY LineElements DEF IInv
  <2>2. QED
    BY <2>1 DEF Jobs
<1>3. JobsOK'
  BY <1>1, <1>2, NobodyIsNoFlow DEF IInv, JobsOK, jobOK, settling
<1>4. OneEach' /\ \A a \in Begins : settleInLine(a)' <=> settleInLine(a)
  BY DEF IInv, OneEach, settleInLine
<1>5. QED
  BY <1>3, <1>4

\* It may enqueue a call and await it: a statement on any scope, and a commit or
\* cancel on one that nobody is settling.
LEMMA FreeFlowEnqueues ==
    ASSUME IInv, NEW f \in Flows, flow[f].at \in {"idle", "releasing", "acquiring", "holding"},
           NEW a \in Begins, NEW op \in {"statement", "commit", "cancel"},
           NEW t \in Transactions,
           enqueue(a, op, f, t),
           op # "statement" => ~settleInLine(a),
           \A g \in Flows : g # f => flow'[g] = flow[g],
           flow'[f].on = a,
           flow'[f].at = "statement" <=> op = "statement",
           flow'[f].at = "committing" <=> op = "commit",
           flow'[f].at \in {"statement", "committing", "aborting", "ending"}
    PROVE  JobsOK' /\ OneEach'
<1> DEFINE job == [op |-> op, by |-> f, for |-> t]
<1>1. job \in Jobs
  BY DEF Jobs
<1>2. /\ \A b \in Begins : b # a => line'[b] = line[b]
      /\ Len(line[a]) \in Nat
      /\ Len(line'[a]) = Len(line[a]) + 1
      /\ line'[a][Len(line[a]) + 1] = job
      /\ \A i \in 1..Len(line[a]) : line'[a][i] = line[a][i]
  <2>1. line' = [line EXCEPT ![a] = Append(@, job)]
    BY DEF enqueue
  <2> HIDE DEF job
  <2>2. QED
    BY <1>1, <2>1, Enqueued DEF IInv
<1>3. \A b \in Begins : \A i \in 1..Len(line'[b]) :
          \/ i \in 1..Len(line[b]) /\ line'[b][i] = line[b][i]
          \/ b = a /\ i = Len(line[a]) + 1 /\ line'[b][i] = job
  <2> HIDE DEF job
  <2>1. \A b \in Begins : b # a => \A i \in 1..Len(line'[b]) :
            i \in 1..Len(line[b]) /\ line'[b][i] = line[b][i]
    BY <1>2
  <2>2. \A i \in 1..Len(line'[a]) :
            \/ i \in 1..Len(line[a]) /\ line'[a][i] = line[a][i]
            \/ i = Len(line[a]) + 1 /\ line'[a][i] = job
    BY <1>2
  <2>3. TAKE b \in Begins
  <2>4. CASE b = a
    BY <2>2, <2>4
  <2>5. CASE b # a
    BY <2>1, <2>5
  <2>6. QED
    BY <2>4, <2>5
<1>4. \A b \in Begins : \A i \in 1..Len(line[b]) :
          /\ line[b][i].by # f
          /\ line[b][i].by # Nobody => line[b][i].by \in Flows
  <2>1. \A b \in Begins : \A i \in 1..Len(line[b]) : line[b][i] \in Jobs
    BY LineElements DEF IInv
  <2>2. QED
    BY <2>1, FreeFlowHasNoCall DEF Jobs
<1>5. JobsOK'
  <2> SUFFICES ASSUME NEW b \in Begins, NEW i \in 1..Len(line'[b])
               PROVE  jobOK(line[b][i], b)'
    BY DEF JobsOK
  <2>1. CASE i \in 1..Len(line[b]) /\ line'[b][i] = line[b][i]
    <3>1. line[b][i].by \in Flows => flow'[line[b][i].by] = flow[line[b][i].by]
      BY <2>1, <1>4
    <3>2. QED
      BY <2>1, <3>1, <1>4 DEF IInv, JobsOK, jobOK, settling
  <2>2. CASE b = a /\ i = Len(line[a]) + 1 /\ line'[b][i] = job
    BY <2>2 DEF jobOK, settling
  <2>3. QED
    BY <2>1, <2>2, <1>3
<1>6. OneEach'
  <2> SUFFICES ASSUME NEW b \in Begins, NEW i \in 1..Len(line'[b]),
                      NEW k \in 1..Len(line'[b]),
                      \/ line'[b][i].by = line'[b][k].by /\ line'[b][i].by # Nobody
                      \/ isSettle(line'[b][i]) /\ isSettle(line'[b][k])
               PROVE  i = k
    BY DEF OneEach, isSettle
  <2>1. CASE /\ i \in 1..Len(line[b]) /\ line'[b][i] = line[b][i]
             /\ k \in 1..Len(line[b]) /\ line'[b][k] = line[b][k]
    BY <2>1 DEF IInv, OneEach
  <2>2. CASE b = a /\ i = Len(line[a]) + 1 /\ k = Len(line[a]) + 1
    BY <2>2
  <2>3. ASSUME NEW m \in 1..Len(line[a]), isSettle(line[a][m]), isSettle(job)
        PROVE  FALSE
    BY <2>3 DEF settleInLine, isSettle
  <2>4. QED
    BY <2>1, <2>2, <2>3, <1>3, <1>4
<1>7. QED
  BY <1>5, <1>6

\* A call that is answered leaves none of its flow's behind, and a settle that is
\* answered no settle: so its flow may move.
LEMMA AnsweredFlowMoves ==
    ASSUME IInv, NEW a \in Begins, line[a] # << >>,
           line' = [line EXCEPT ![a] = Tail(@)],
           \A g \in Flows : g # Head(line[a]).by => flow'[g] = flow[g]
    PROVE  /\ JobsOK' /\ OneEach'
           /\ isSettle(Head(line[a])) => ~settleInLine(a)'
<1> DEFINE job == Head(line[a])
<1>1. /\ \A b \in Begins : b # a => line'[b] = line[b]
      /\ 1 \in 1..Len(line[a])
      /\ job = line[a][1]
      /\ job \in Jobs
      /\ \A i \in 1..Len(line'[a]) : i + 1 \in 1..Len(line[a])
                                     /\ line'[a][i] = line[a][i + 1]
  BY Answered DEF IInv
<1>2. \A b \in Begins : \A i \in 1..Len(line[b]) :
          line[b][i].by # Nobody => line[b][i].by \in Flows
  <2>1. \A b \in Begins : \A i \in 1..Len(line[b]) : line[b][i] \in Jobs
    BY LineElements DEF IInv
  <2>2. QED
    BY <2>1 DEF Jobs
<1>3. \A b \in Begins : \A i \in 1..Len(line'[b]) :
          /\ line'[b][i].by # Nobody => line'[b][i].by # job.by
          /\ \E k \in 1..Len(line[b]) : line'[b][i] = line[b][k]
                                        /\ k = IF b = a THEN i + 1 ELSE i
  <2> SUFFICES ASSUME NEW b \in Begins, NEW i \in 1..Len(line'[b])
               PROVE  /\ line'[b][i].by # Nobody => line'[b][i].by # job.by
                      /\ \E k \in 1..Len(line[b]) : line'[b][i] = line[b][k]
                                                    /\ k = IF b = a THEN i + 1 ELSE i
    OBVIOUS
  <2>1. CASE b = a
    <3>1. i + 1 \in 1..Len(line[a]) /\ line'[a][i] = line[a][i + 1] /\ i + 1 # 1
      BY <1>1, <2>1
    <3>2. line[a][i + 1].by # Nobody => line[a][i + 1].by # line[a][1].by
      BY <3>1, <1>1 DEF IInv, OneEach
    <3>3. QED
      BY <3>1, <3>2, <2>1, <1>1
  <2>2. CASE b # a
    <3>1. line'[b] = line[b]
      BY <1>1, <2>2
    <3>2. ASSUME line[b][i].by # Nobody, line[b][i].by = line[a][1].by PROVE FALSE
      <4>1. flow[line[b][i].by].on = b
        BY <3>1, <3>2 DEF IInv, JobsOK, jobOK
      <4>2. flow[line[a][1].by].on = a
        BY SMTT(30), <3>2, <1>1 DEF IInv, JobsOK, jobOK
      <4>3. QED
        BY <4>1, <4>2, <3>2, <2>2
    <3>3. QED
      BY <3>1, <3>2, <2>2, <1>1
  <2>3. QED
    BY <2>1, <2>2
<1>4. JobsOK'
  <2> SUFFICES ASSUME NEW b \in Begins, NEW i \in 1..Len(line'[b])
               PROVE  jobOK(line[b][i], b)'
    BY DEF JobsOK
  <2>1. PICK k \in 1..Len(line[b]) : line'[b][i] = line[b][k]
    BY <1>3
  <2>2. CASE line[b][k].by = Nobody
    BY <2>1, <2>2, NobodyIsNoFlow DEF IInv, JobsOK, jobOK
  <2>3. CASE line[b][k].by # Nobody
    <3>1. flow'[line[b][k].by] = flow[line[b][k].by]
      <4>1. line[b][k].by \in Flows
        BY <1>2, <2>3
      <4>2. line'[b][i].by # job.by
        BY <1>3, <2>1, <2>3
      <4>3. QED
        BY <4>1, <4>2, <2>1
    <3>2. jobOK(line[b][k], b)
      BY DEF IInv, JobsOK
    <3>3. QED
      BY <3>1, <3>2, <2>1, <2>3 DEF jobOK, settling
  <2>4. QED
    BY <2>2, <2>3
<1>5. OneEach'
  <2> SUFFICES ASSUME NEW b \in Begins, NEW i \in 1..Len(line'[b]),
                      NEW k \in 1..Len(line'[b]),
                      \/ line'[b][i].by = line'[b][k].by /\ line'[b][i].by # Nobody
                      \/ isSettle(line'[b][i]) /\ isSettle(line'[b][k])
               PROVE  i = k
    BY DEF OneEach, isSettle
  <2>1. CASE b = a
    <3>1. /\ i + 1 \in 1..Len(line[a]) /\ line'[a][i] = line[a][i + 1]
          /\ k + 1 \in 1..Len(line[a]) /\ line'[a][k] = line[a][k + 1]
      BY <1>1, <2>1
    <3>2. i + 1 = k + 1
      BY <3>1, <2>1 DEF IInv, OneEach
    <3>3. QED
      BY <3>2
  <2>2. CASE b # a
    BY <1>1, <2>2 DEF IInv, OneEach
  <2>3. QED
    BY <2>1, <2>2
<1>6. isSettle(job) => ~settleInLine(a)'
  <2> SUFFICES ASSUME isSettle(job), NEW i \in 1..Len(line'[a]), isSettle(line'[a][i])
               PROVE  FALSE
    BY DEF settleInLine, isSettle
  <2>1. i + 1 \in 1..Len(line[a]) /\ isSettle(line[a][i + 1]) /\ i + 1 # 1
    BY <1>1
  <2>2. QED
    BY <2>1, <1>1 DEF IInv, OneEach
<1>7. QED
  BY <1>4, <1>5, <1>6

-----------------------------------------------------------------------------
(* The steps of a flow that is not settling *)

USE DEF NoTransaction, StartingTransaction, TransactionInProgress,
        TransactionCommitted, TransactionCommittedEmpty, TransactionAborted

\* A flow that neither was settling nor is disturbs nothing the settles rest on.
LEMMA OthersSettle ==
    ASSUME IInv, NEW f \in Flows, ~settling(f), ~settling(f)',
           \A g \in Flows : g # f => flow'[g] = flow[g],
           \A a \in Begins : settleInLine(a)' <=> settleInLine(a),
           UNCHANGED <<transaction, state, scope, spent, server>>
    PROVE  /\ ActiveIsStarted'
           /\ ScopeIsOpen'
           /\ ScopeMatchesState'
           /\ SettleFindsLiveHandle'
           /\ NoOrphanedTransaction'
<1>1. \A g \in Flows : settling(g)' => settling(g) /\ flow'[g] = flow[g]
  BY DEF settling
<1>2. \A g \in Flows : settling(g) => settling(g)'
  BY DEF settling
<1>3. ActiveIsStarted' /\ ScopeIsOpen'
  BY DEF IInv, ActiveIsStarted, ScopeIsOpen, inTransaction, isActive
<1>4. ScopeMatchesState'
  <2>1. scope \in Begins \cup {undefined}
    BY DEF IInv, TypeOK
  <2>2. \A g \in Flows : settling(g)' => /\ state' = TransactionInProgress
                                         /\ scope' = undefined
                                         /\ flow'[g].for = transaction'
    BY <1>1 DEF IInv, ScopeMatchesState
  <2>3. scope' # undefined => /\ state' = TransactionInProgress
                              /\ ~spent'[scope']
                              /\ ~settleInLine(scope)'
    <3> SUFFICES ASSUME scope # undefined
                 PROVE  /\ state = TransactionInProgress
                        /\ ~spent[scope]
                        /\ ~settleInLine(scope)'
      OBVIOUS
    <3>1. PICK a \in Begins : a = scope
      BY <2>1
    <3>2. state = TransactionInProgress /\ ~spent[scope] /\ ~settleInLine(scope)
      BY DEF IInv, ScopeMatchesState
    <3>3. ~settleInLine(a)'
      BY <3>1, <3>2
    <3>4. settleInLine(a)' <=> settleInLine(scope)'
      BY <3>1 DEF settleInLine
    <3>5. QED
      BY <3>2, <3>3, <3>4
  <2>4. state' = TransactionInProgress /\ scope' = undefined =>
            \E g \in Flows : settling(g)' /\ \A h \in Flows : settling(h)' => h = g
    <3> SUFFICES ASSUME state = TransactionInProgress, scope = undefined
                 PROVE  \E g \in Flows : settling(g)' /\ \A h \in Flows : settling(h)' => h = g
      OBVIOUS
    <3>1. PICK g \in Flows : settling(g) /\ \A h \in Flows : settling(h) => h = g
      BY DEF IInv, ScopeMatchesState
    <3>2. settling(g)' /\ \A h \in Flows : settling(h)' => h = g
      BY <3>1, <1>1, <1>2
    <3>3. QED
      BY <3>2
  <2>5. QED
    BY <2>2, <2>3, <2>4 DEF ScopeMatchesState
<1>5. SettleFindsLiveHandle'
  BY DEF IInv, SettleFindsLiveHandle
<1>6. NoOrphanedTransaction'
  BY DEF IInv, NoOrphanedTransaction, isStarting
<1>7. QED
  BY <1>3, <1>4, <1>5, <1>6

\* The session as it is constructed.
LEMMA Initially == Init => IInv
<1> SUFFICES ASSUME Init PROVE IInv
  OBVIOUS
<1>1. TypeOK
  <2>1. flow \in [Flows -> FlowStates] /\ \A f \in Flows : flow[f].at = "idle"
    BY DEF Init, Idle, FlowStates
  <2>2. line \in [Begins -> Seq(Jobs)]
    <3>1. << >> \in Seq(Jobs)
      BY SMT
    <3>2. QED
      BY <3>1 DEF Init
  <2>3. state \in TransactionState /\ told \in [Transactions -> Outcomes]
    BY DEF Init, TransactionState, Outcomes
  <2>4. QED
    BY <2>1, <2>2, <2>3 DEF Init, TypeOK
<1>2. \A f \in Flows : flow[f].at = "idle"
  BY DEF Init, Idle
<1>3. \A a \in Begins : line[a] = << >> /\ Len(line[a]) = 0
  BY DEF Init
<1>4. \A a \in Begins : ~settleInLine(a)
  BY <1>3 DEF settleInLine
<1>5. JobsOK /\ OneEach
  BY <1>3 DEF JobsOK, OneEach
<1>6. undefined \notin Begins
  BY BoundsAreNat DEF undefined, Begins
<1>7. /\ ActiveIsStarted /\ FlowsOK /\ UnbegunIsBare /\ ScopeIsOpen
  BY <1>2, <1>3, <1>6
     DEF Init, ActiveIsStarted, FlowsOK, UnbegunIsBare, ScopeIsOpen, inTransaction,
         isActive, ACTIVE_STATES
<1>8. ScopeMatchesState /\ SettleFindsLiveHandle /\ NoOrphanedTransaction
  BY <1>2, <1>4
     DEF Init, ScopeMatchesState, SettleFindsLiveHandle, NoOrphanedTransaction,
         settling, isStarting
<1>9. QED
  BY <1>1, <1>5, <1>7, <1>8 DEF IInv

\* Starting forgets no handle: there is none outside a transaction.
LEMMA StartTransactionStep ==
    ASSUME IInv, NEW f \in Flows, startTransaction(f) PROVE IInv'
<1> USE DEF startTransaction, session, scopes, history
<1>1. state # TransactionInProgress /\ scope = undefined
  BY DEF IInv, ScopeMatchesState, inTransaction, isActive, ACTIVE_STATES
<1>2. \A g \in Flows : ~settling(g)
  BY <1>1 DEF IInv, ScopeMatchesState
<1>3. transaction' \in Transactions
  BY BoundsAreNat DEF IInv, TypeOK, Transactions, undefined
<1>4. TypeOK'
  BY <1>3 DEF IInv, TypeOK, TransactionState
<1>5. ActiveIsStarted' /\ FlowsOK'
  BY <1>3 DEF IInv, ActiveIsStarted, FlowsOK, begun
<1>6. JobsOK' /\ OneEach'
  BY DEF IInv, JobsOK, jobOK, OneEach, settling
<1>7. \A a \in Begins : settleInLine(a)' <=> settleInLine(a)
  BY DEF settleInLine
<1>8. undefined \notin Begins
  BY BoundsAreNat DEF undefined, Begins
<1>9. UnbegunIsBare' /\ ScopeIsOpen'
  BY <1>8 DEF IInv, UnbegunIsBare, ScopeIsOpen, begun
<1>10. ScopeMatchesState' /\ SettleFindsLiveHandle'
  BY <1>2, <1>7 DEF IInv, ScopeMatchesState, SettleFindsLiveHandle, settling
<1>11. NoOrphanedTransaction'
  BY <1>1, <1>7, <1>8 DEF IInv, NoOrphanedTransaction
<1>12. QED
  BY <1>4, <1>5, <1>6, <1>9, <1>10, <1>11 DEF IInv

\* An operation holds the session's handle, or awaits its acquisition.
LEMMA CallOperationStep ==
    ASSUME IInv, NEW f \in Flows, callOperation(f) PROVE IInv'
<1> USE DEF callOperation, scopes, history
<1>1. flow[f].at = "idle" /\ transaction \in Transactions
  BY DEF IInv, ActiveIsStarted, idle, Idle
<1>2. PICK at \in {"holding", "acquiring"}, a \in Begins :
          flow' = [flow EXCEPT ![f] = [at |-> at, on |-> a, for |-> transaction]]
          /\ (at = "holding" => scope = a)
  BY DEF IInv, TypeOK
<1>3. /\ flow' \in [Flows -> FlowStates]
      /\ flow'[f] = [at |-> at, on |-> a, for |-> transaction]
      /\ \A g \in Flows : g # f => flow'[g] = flow[g]
  BY <1>1, <1>2 DEF IInv, TypeOK, FlowStates
<1>4. /\ acquiring' \in Begins \cup {undefined}
      /\ begin' \in [Begins -> {"unused", "pending", "closing", "resolved", "rejected"}]
      /\ \A b \in Begins : begun(b)' <=> begun(b)
  BY DEF IInv, TypeOK, begun
<1>5. TypeOK'
  BY <1>3, <1>4 DEF IInv, TypeOK
<1>6. JobsOK' /\ OneEach' /\ \A b \in Begins : settleInLine(b)' <=> settleInLine(b)
  BY <1>1, <1>3, FreeFlowMoves
<1>7. at = "holding" => begun(a)
  BY <1>2 DEF IInv, UnbegunIsBare
<1>8. FlowsOK'
  BY <1>1, <1>3, <1>4, <1>7 DEF IInv, FlowsOK
<1>9. UnbegunIsBare'
  BY <1>4 DEF IInv, UnbegunIsBare
<1>10. ~settling(f) /\ ~settling(f)'
  BY <1>1, <1>3 DEF settling
<1>11. /\ ActiveIsStarted' /\ ScopeIsOpen' /\ ScopeMatchesState'
       /\ SettleFindsLiveHandle' /\ NoOrphanedTransaction'
  BY <1>3, <1>6, <1>10, OthersSettle
<1>12. QED
  BY <1>5, <1>6, <1>8, <1>9, <1>11 DEF IInv

\* An acquisition that ends gives its awaiters a handle that was begun, or nothing.
LEMMA AcquiredStep ==
    ASSUME IInv, NEW f \in Flows, acquired(f) PROVE IInv'
<1> USE DEF acquired, session, scopes, history
<1>1. flow[f].at = "acquiring" /\ flow[f].on \in Begins
  BY DEF IInv, FlowsOK
<1>2. /\ flow' \in [Flows -> FlowStates]
      /\ \A g \in Flows : g # f => flow'[g] = flow[g]
      /\ flow'[f].at = "idle" \/ /\ flow'[f].at = "holding"
                                 /\ flow'[f].on = flow[f].on
                                 /\ flow'[f].for = flow[f].for
                                 /\ begun(flow[f].on)
  <2>1. CASE begin[flow[f].on] = "resolved" /\ flow' = [flow EXCEPT ![f].at = "holding"]
    BY <1>1, <2>1 DEF IInv, TypeOK, FlowStates, begun
  <2>2. CASE flow' = [flow EXCEPT ![f] = Idle]
    BY <1>1, <2>2 DEF IInv, TypeOK, FlowStates, Idle
  <2>3. QED
    BY <2>1, <2>2
<1>3. TypeOK'
  BY <1>2 DEF IInv, TypeOK
<1>4. JobsOK' /\ OneEach' /\ \A b \in Begins : settleInLine(b)' <=> settleInLine(b)
  BY <1>1, <1>2, FreeFlowMoves
<1>5. FlowsOK'
  BY <1>1, <1>2 DEF IInv, FlowsOK, begun
<1>6. UnbegunIsBare'
  BY DEF IInv, UnbegunIsBare, begun
<1>7. ~settling(f) /\ ~settling(f)'
  BY <1>1, <1>2 DEF settling
<1>8. /\ ActiveIsStarted' /\ ScopeIsOpen' /\ ScopeMatchesState'
      /\ SettleFindsLiveHandle' /\ NoOrphanedTransaction'
  BY <1>2, <1>4, <1>7, OthersSettle
<1>9. QED
  BY <1>3, <1>4, <1>5, <1>6, <1>8 DEF IInv

\* An operation that returns lets its handle go.
LEMMA ReturnStep ==
    ASSUME IInv, NEW f \in Flows, returnFromOperation(f) PROVE IInv'
<1> USE DEF returnFromOperation, session, scopes, history
<1>1. /\ flow[f].at = "holding"
      /\ flow' \in [Flows -> FlowStates]
      /\ \A g \in Flows : g # f => flow'[g] = flow[g]
      /\ flow'[f].at = "idle"
  BY DEF IInv, TypeOK, FlowStates, Idle
<1>2. TypeOK'
  BY <1>1 DEF IInv, TypeOK
<1>3. JobsOK' /\ OneEach' /\ \A b \in Begins : settleInLine(b)' <=> settleInLine(b)
  BY <1>1, FreeFlowMoves
<1>4. FlowsOK' /\ UnbegunIsBare'
  BY <1>1 DEF IInv, FlowsOK, UnbegunIsBare, begun
<1>5. ~settling(f) /\ ~settling(f)'
  BY <1>1 DEF settling
<1>6. /\ ActiveIsStarted' /\ ScopeIsOpen' /\ ScopeMatchesState'
      /\ SettleFindsLiveHandle' /\ NoOrphanedTransaction'
  BY <1>1, <1>3, <1>5, OthersSettle
<1>7. QED
  BY <1>2, <1>3, <1>4, <1>6 DEF IInv

\* A statement joins the line of a handle that was begun.
LEMMA IssueStatementStep ==
    ASSUME IInv, NEW f \in Flows, issueStatement(f) PROVE IInv'
<1> USE DEF issueStatement, session, history
<1>1. flow[f].at = "holding" /\ begun(flow[f].on)
  BY DEF IInv, FlowsOK
<1>2. PICK a \in Begins, t \in Transactions : flow[f].on = a /\ flow[f].for = t
  BY <1>1 DEF IInv, FlowsOK
<1>3. /\ flow' \in [Flows -> FlowStates]
      /\ \A g \in Flows : g # f => flow'[g] = flow[g]
      /\ flow'[f].at = "statement" /\ flow'[f].on = a /\ flow'[f].for = t
  BY <1>1, <1>2 DEF IInv, TypeOK, FlowStates
<1>4. enqueue(a, "statement", f, t)
  BY <1>2
<1>5. JobsOK' /\ OneEach'
  BY <1>1, <1>3, <1>4, FreeFlowEnqueues
<1>6. /\ line' \in [Begins -> Seq(Jobs)]
      /\ \A b \in Begins : b # a => line'[b] = line[b]
      /\ \A b \in Begins : settleInLine(b)' <=> settleInLine(b)
  <2> DEFINE job == [op |-> "statement", by |-> f, for |-> t]
  <2>1. job \in Jobs /\ ~isSettle(job)
    BY DEF Jobs, isSettle
  <2>2. line' = [line EXCEPT ![a] = Append(@, job)]
    BY <1>4 DEF enqueue
  <2> HIDE DEF job
  <2>3. QED
    BY <2>1, <2>2, Enqueued DEF IInv
<1>7. TypeOK'
  BY <1>3, <1>6 DEF IInv, TypeOK
<1>8. FlowsOK'
  BY <1>1, <1>2, <1>3 DEF IInv, FlowsOK, begun
<1>9. UnbegunIsBare'
  BY <1>1, <1>2, <1>6 DEF IInv, UnbegunIsBare, begun
<1>10. ~settling(f) /\ ~settling(f)'
  BY <1>1, <1>3 DEF settling
<1>11. /\ ActiveIsStarted' /\ ScopeIsOpen' /\ ScopeMatchesState'
       /\ SettleFindsLiveHandle' /\ NoOrphanedTransaction'
  BY <1>3, <1>6, <1>10, OthersSettle
<1>12. QED
  BY <1>5, <1>7, <1>8, <1>9, <1>11 DEF IInv

-----------------------------------------------------------------------------
(* The steps of an acquisition *)

\* What is still pending has nothing, and is nobody's handle.
LEMMA PendingIsBare ==
    ASSUME IInv, NEW a \in Begins, begin[a] = "pending"
    PROVE  /\ ~begun(a) /\ line[a] = << >> /\ Len(line[a]) = 0
           /\ ~spent[a] /\ server[a] = "none" /\ scope # a /\ ~settleInLine(a)
<1>1. ~begun(a)
  BY DEF begun
<1>2. line[a] = << >> /\ ~spent[a] /\ server[a] = "none" /\ scope # a
  BY <1>1 DEF IInv, UnbegunIsBare
<1>3. Len(line[a]) = 0 /\ ~settleInLine(a)
  BY <1>2 DEF settleInLine
<1>4. QED
  BY <1>1, <1>2, <1>3

\* A session that is starting has no handle, so it loses none to the new one.
LEMMA BeginAdoptedStep ==
    ASSUME IInv, NEW a \in Begins, beginAdopted(a) PROVE IInv'
<1> USE DEF beginAdopted, transition, history
<1>1. state = StartingTransaction /\ scope = undefined
  BY DEF IInv, ScopeMatchesState, isStarting
<1>2. \A g \in Flows : ~settling(g)
  BY <1>1 DEF IInv, ScopeMatchesState
<1>3. ~begun(a) /\ line[a] = << >> /\ ~spent[a] /\ ~settleInLine(a)
  BY PendingIsBare
<1>4. begun(a)' /\ \A b \in Begins : b # a => (begun(b)' <=> begun(b))
  BY DEF IInv, TypeOK, begun
<1>5. undefined \notin Begins
  BY BoundsAreNat DEF undefined, Begins
<1>6. TypeOK'
  BY DEF IInv, TypeOK, TransactionState
<1>7. ActiveIsStarted'
  BY <1>1 DEF IInv, ActiveIsStarted, inTransaction, isActive, ACTIVE_STATES
<1>8. FlowsOK'
  BY <1>3, <1>4 DEF IInv, FlowsOK
<1>9. JobsOK' /\ OneEach'
  BY DEF IInv, JobsOK, jobOK, OneEach, settling
<1>10. \A b \in Begins : settleInLine(b)' <=> settleInLine(b)
  BY DEF settleInLine
<1>11. server'[a] = "open" /\ \A b \in Begins : b # a => server'[b] = server[b]
  BY DEF IInv, TypeOK
<1>12. UnbegunIsBare' /\ ScopeIsOpen'
  BY <1>1, <1>4, <1>5, <1>11 DEF IInv, UnbegunIsBare, ScopeIsOpen
<1>13. ScopeMatchesState'
  <2>1. \A g \in Flows : ~settling(g)'
    BY <1>2 DEF settling
  <2>2. ~spent'[scope'] /\ ~settleInLine(a)'
    BY <1>3, <1>10
  <2>3. ScopeMatchesState' <=> /\ \A g \in Flows : ~settling(g)'
                               /\ a # undefined => ~spent[a] /\ ~settleInLine(a)'
    BY <2>1, <1>5 DEF ScopeMatchesState, settleInLine
  <2>4. QED
    BY <2>1, <2>2, <2>3
<1>14. SettleFindsLiveHandle'
  BY <1>3, <1>10, <1>11 DEF IInv, SettleFindsLiveHandle
<1>15. NoOrphanedTransaction'
  BY <1>1, <1>5, <1>10, <1>11 DEF IInv, NoOrphanedTransaction
<1>16. QED
  BY <1>6, <1>7, <1>8, <1>9, <1>12, <1>13, <1>14, <1>15 DEF IInv

\* A handle that nobody wants has its own cancel before it has anything else.
LEMMA BeginDiscardedStep ==
    ASSUME IInv, NEW a \in Begins, beginDiscarded(a) PROVE IInv'
<1> USE DEF beginDiscarded, session, history
<1> DEFINE job == [op |-> "cancel", by |-> Nobody, for |-> undefined]
<1>1. ~begun(a) /\ Len(line[a]) = 0 /\ ~spent[a] /\ scope # a
  BY PendingIsBare
<1>2. begun(a)' /\ \A b \in Begins : b # a => (begun(b)' <=> begun(b))
  BY DEF IInv, TypeOK, begun
<1>3. job \in Jobs /\ isSettle(job) /\ job.op = "cancel" /\ job.by = Nobody
  BY DEF Jobs, isSettle
<1>4. /\ line' \in [Begins -> Seq(Jobs)]
      /\ \A b \in Begins : b # a => line'[b] = line[b]
      /\ Len(line'[a]) = 1
      /\ line'[a][1] = job
      /\ \A b \in Begins : b # a => (settleInLine(b)' <=> settleInLine(b))
      /\ settleInLine(a)'
  <2>1. line' = [line EXCEPT ![a] = Append(@, job)]
    BY DEF enqueue
  <2> HIDE DEF job
  <2>2. /\ line' \in [Begins -> Seq(Jobs)]
        /\ \A b \in Begins : b # a => line'[b] = line[b]
        /\ Len(line'[a]) = Len(line[a]) + 1
        /\ line'[a][Len(line[a]) + 1] = job
        /\ \A b \in Begins : b # a => (settleInLine(b)' <=> settleInLine(b))
        /\ settleInLine(a)' <=> settleInLine(a) \/ isSettle(job)
    BY <1>3, <2>1, Enqueued DEF IInv
  <2>3. Len(line[a]) + 1 = 1
    BY <1>1
  <2>4. QED
    BY <1>3, <2>2, <2>3
<1> HIDE DEF job
<1>5. server'[a] = "open" /\ \A b \in Begins : b # a => server'[b] = server[b]
  BY DEF IInv, TypeOK
<1>6. TypeOK'
  BY <1>4 DEF IInv, TypeOK
<1>7. ActiveIsStarted'
  BY DEF IInv, ActiveIsStarted, inTransaction, isActive
<1>8. FlowsOK'
  BY <1>1, <1>2 DEF IInv, FlowsOK
<1>9. JobsOK'
  <2> SUFFICES ASSUME NEW b \in Begins, NEW i \in 1..Len(line'[b])
               PROVE  jobOK(line[b][i], b)'
    BY DEF JobsOK
  <2>1. CASE b = a
    BY <2>1, <1>3, <1>4 DEF jobOK
  <2>2. CASE b # a
    BY <2>2, <1>4 DEF IInv, JobsOK, jobOK, settling
  <2>3. QED
    BY <2>1, <2>2
<1>10. OneEach'
  <2> SUFFICES ASSUME NEW b \in Begins, NEW i \in 1..Len(line'[b]),
                      NEW k \in 1..Len(line'[b]),
                      \/ line'[b][i].by = line'[b][k].by /\ line'[b][i].by # Nobody
                      \/ isSettle(line'[b][i]) /\ isSettle(line'[b][k])
               PROVE  i = k
    BY DEF OneEach, isSettle
  <2>1. CASE b = a
    BY <2>1, <1>4
  <2>2. CASE b # a
    BY <2>2, <1>4 DEF IInv, OneEach
  <2>3. QED
    BY <2>1, <2>2
<1>11. UnbegunIsBare'
  BY <1>2, <1>4, <1>5 DEF IInv, UnbegunIsBare
<1>12. ScopeIsOpen'
  BY <1>1, <1>5 DEF IInv, TypeOK, ScopeIsOpen
<1>13. ScopeMatchesState'
  <2>1. scope # undefined => ~settleInLine(scope)'
    <3>1. scope # undefined => scope \in Begins /\ scope # a /\ ~settleInLine(scope)
      BY <1>1 DEF IInv, TypeOK, ScopeMatchesState
    <3>2. scope # undefined => line'[scope] = line[scope]
      BY <3>1, <1>4
    <3>3. QED
      BY <3>1, <3>2 DEF settleInLine
  <2>2. QED
    BY <2>1 DEF IInv, ScopeMatchesState, settling
<1>14. SettleFindsLiveHandle'
  BY <1>1, <1>4, <1>5 DEF IInv, SettleFindsLiveHandle
<1>15. NoOrphanedTransaction'
  BY <1>4, <1>5 DEF IInv, NoOrphanedTransaction, isStarting
<1>16. QED
  BY <1>6, <1>7, <1>8, <1>9, <1>10, <1>11, <1>12, <1>13, <1>14, <1>15 DEF IInv

\* A rejected acquisition leaves nothing that has to be settled.
LEMMA BeginRejectedStep ==
    ASSUME IInv, NEW a \in Begins, beginRejected(a) PROVE IInv'
<1> USE DEF beginRejected, scopes, history
<1>1. \A b \in Begins : begun(b)' <=> begun(b)
  BY DEF IInv, TypeOK, begun
<1>2. TypeOK'
  BY DEF IInv, TypeOK
<1>3. ActiveIsStarted' /\ FlowsOK' /\ UnbegunIsBare' /\ ScopeIsOpen'
  BY <1>1 DEF IInv, ActiveIsStarted, FlowsOK, UnbegunIsBare, ScopeIsOpen, inTransaction,
              isActive
<1>4. JobsOK' /\ OneEach'
  BY DEF IInv, JobsOK, jobOK, OneEach, settling
<1>5. ScopeMatchesState' /\ SettleFindsLiveHandle' /\ NoOrphanedTransaction'
  BY DEF IInv, ScopeMatchesState, SettleFindsLiveHandle, NoOrphanedTransaction, settling,
         settleInLine, isStarting
<1>6. QED
  BY <1>2, <1>3, <1>4, <1>5 DEF IInv

-----------------------------------------------------------------------------
(* The calls that settle or end *)

\* Outside a transaction in progress there is no handle and nobody settles.
LEMMA NotInProgress ==
    ASSUME IInv, state # TransactionInProgress
    PROVE  scope = undefined /\ \A g \in Flows : ~settling(g)
  BY DEF IInv, ScopeMatchesState

\* A transaction that has begun nothing ends without a word to the server.
LEMMA EndsEmpty ==
    ASSUME IInv, state # TransactionInProgress,
           NEW next \in {TransactionCommittedEmpty, TransactionAborted}, state' = next,
           NEW f \in Flows, flow[f].at = "idle", flow'[f].at \in {"idle", "releasing"},
           flow' \in [Flows -> FlowStates], \A g \in Flows : g # f => flow'[g] = flow[g],
           told' \in [Transactions -> Outcomes],
           UNCHANGED <<transaction, scope, acquiring, commitFailure, hasEnded, begin,
                       scopes, applied, acked>>
    PROVE  IInv'
<1> USE DEF scopes
<1>1. scope = undefined /\ \A g \in Flows : ~settling(g)
  BY NotInProgress
<1>2. TypeOK'
  BY DEF IInv, TypeOK, TransactionState
<1>3. ActiveIsStarted' /\ FlowsOK' /\ UnbegunIsBare' /\ ScopeIsOpen'
  BY DEF IInv, ActiveIsStarted, FlowsOK, UnbegunIsBare, ScopeIsOpen, inTransaction,
         isActive, ACTIVE_STATES, begun
<1>4. JobsOK' /\ OneEach' /\ \A a \in Begins : settleInLine(a)' <=> settleInLine(a)
  BY FreeFlowMoves
<1>5. \A g \in Flows : ~settling(g)'
  BY <1>1 DEF settling
<1>6. ScopeMatchesState' /\ SettleFindsLiveHandle' /\ NoOrphanedTransaction'
  BY <1>1, <1>4, <1>5 DEF IInv, ScopeMatchesState, SettleFindsLiveHandle,
                          NoOrphanedTransaction
<1>7. QED
  BY <1>2, <1>3, <1>4, <1>6 DEF IInv

\* A flow at rest, before its call or in the `finally` of endSession, moves alone.
LEMMA RestingFlowMoves ==
    ASSUME IInv, NEW f \in Flows, flow[f].at \in {"idle", "releasing"},
           flow'[f].at \in {"idle", "releasing"}, flow' \in [Flows -> FlowStates],
           \A g \in Flows : g # f => flow'[g] = flow[g], hasEnded' \in BOOLEAN,
           UNCHANGED <<transaction, state, scope, acquiring, commitFailure, begin, scopes,
                       history>>
    PROVE  IInv'
<1> USE DEF scopes, history
<1>1. TypeOK'
  BY DEF IInv, TypeOK
<1>2. JobsOK' /\ OneEach' /\ \A b \in Begins : settleInLine(b)' <=> settleInLine(b)
  BY FreeFlowMoves
<1>3. FlowsOK' /\ UnbegunIsBare'
  BY DEF IInv, FlowsOK, UnbegunIsBare, begun
<1>4. ~settling(f) /\ ~settling(f)'
  BY DEF settling
<1>5. /\ ActiveIsStarted' /\ ScopeIsOpen' /\ ScopeMatchesState'
      /\ SettleFindsLiveHandle' /\ NoOrphanedTransaction'
  BY <1>2, <1>4, OthersSettle
<1>6. QED
  BY <1>1, <1>2, <1>3, <1>5 DEF IInv

\* Whoever finds the handle is the only one to settle it.
LEMMA TakeScopeStep ==
    ASSUME IInv, NEW f \in Flows, idle(f),
           NEW op \in {"commit", "cancel"},
           NEW at \in {"committing", "aborting", "ending"},
           op = "commit" <=> at = "committing",
           takeScope(f, op, at),
           UNCHANGED <<transaction, commitFailure, begin, spent, server, applied, acked>>
    PROVE  IInv'
<1> USE DEF takeScope
<1>1. PICK a \in Begins : scope = a
  BY DEF IInv, TypeOK
<1>2. PICK t \in Transactions : transaction = t
  BY DEF IInv, ActiveIsStarted, inTransaction, isActive, ACTIVE_STATES
<1>3. /\ flow[f].at = "idle"
      /\ \A g \in Flows : ~settling(g)
      /\ ~settleInLine(a) /\ ~spent[a] /\ server[a] = "open" /\ begun(a)
  <2>1. ~settleInLine(a) /\ ~spent[a]
    <3>1. ~settleInLine(scope) /\ ~spent[scope]
      BY DEF IInv, ScopeMatchesState
    <3>2. QED
      BY <3>1, <1>1 DEF settleInLine
  <2>2. QED
    BY <2>1, <1>1 DEF IInv, ScopeMatchesState, ScopeIsOpen, UnbegunIsBare, idle, Idle
<1>4. /\ flow' \in [Flows -> FlowStates]
      /\ flow'[f] = [at |-> at, on |-> a, for |-> t]
      /\ \A g \in Flows : g # f => flow'[g] = flow[g]
  BY <1>1, <1>2 DEF IInv, TypeOK, FlowStates
<1>5. enqueue(a, op, f, t)
  BY <1>1, <1>2
<1>6. JobsOK' /\ OneEach'
  BY <1>3, <1>4, <1>5, FreeFlowEnqueues
<1>7. /\ line' \in [Begins -> Seq(Jobs)]
      /\ \A b \in Begins : b # a => line'[b] = line[b]
      /\ \A b \in Begins : b # a => (settleInLine(b)' <=> settleInLine(b))
      /\ settleInLine(a)'
  <2> DEFINE job == [op |-> op, by |-> f, for |-> t]
  <2>1. job \in Jobs /\ isSettle(job)
    BY DEF Jobs, isSettle
  <2>2. line' = [line EXCEPT ![a] = Append(@, job)]
    BY <1>5 DEF enqueue
  <2> HIDE DEF job
  <2>3. QED
    BY <2>1, <2>2, Enqueued DEF IInv
<1>8. TypeOK'
  BY <1>4, <1>7 DEF IInv, TypeOK
<1>9. ActiveIsStarted' /\ ScopeIsOpen'
  BY DEF IInv, ActiveIsStarted, ScopeIsOpen, inTransaction, isActive
<1>10. FlowsOK'
  BY <1>3, <1>4 DEF IInv, FlowsOK, begun
<1>11. undefined \notin Begins
  BY BoundsAreNat DEF undefined, Begins
<1>12. UnbegunIsBare'
  BY <1>3, <1>7, <1>11 DEF IInv, UnbegunIsBare, begun
<1>13. ScopeMatchesState'
  <2>1. settling(f)' /\ \A g \in Flows : settling(g)' => g = f
    BY <1>3, <1>4 DEF settling
  <2>2. state' = TransactionInProgress /\ scope' = undefined /\ flow'[f].for = transaction'
    BY <1>2, <1>4
  <2>3. QED
    BY <2>1, <2>2 DEF ScopeMatchesState
<1>14. SettleFindsLiveHandle'
  BY <1>3, <1>7 DEF IInv, SettleFindsLiveHandle
<1>15. NoOrphanedTransaction'
  BY <1>1, <1>7 DEF IInv, NoOrphanedTransaction, isStarting
<1>16. QED
  BY <1>6, <1>8, <1>9, <1>10, <1>12, <1>13, <1>14, <1>15 DEF IInv

\* A commit begins nothing, or takes the handle.
LEMMA CommitStep ==
    ASSUME IInv, NEW f \in Flows, commitTransaction(f) PROVE IInv'
<1> USE DEF commitTransaction
<1>1. CASE state \in {StartingTransaction, TransactionCommittedEmpty}
           /\ transition(TransactionCommittedEmpty) /\ tell(transaction, "empty")
           /\ UNCHANGED <<scope, acquiring, hasEnded, line, flow>>
  <2>1. told' \in [Transactions -> Outcomes]
    BY <1>1 DEF IInv, TypeOK, tell, Outcomes
  <2>2. flow' \in [Flows -> FlowStates] /\ flow[f].at = "idle" /\ flow'[f].at = "idle"
    BY <1>1 DEF IInv, TypeOK, idle, Idle
  <2>3. state # TransactionInProgress /\ state' = TransactionCommittedEmpty
    BY <1>1 DEF transition
  <2>4. QED
    BY <1>1, <2>1, <2>2, <2>3, EndsEmpty DEF scopes
<1>2. CASE takeScope(f, "commit", "committing")
  BY <1>2, TakeScopeStep
<1>3. QED
  BY <1>1, <1>2

\* Aborting what has not begun.
LEMMA AbortStartingStep ==
    ASSUME IInv, abortStarting,
           NEW f \in Flows, flow[f].at = "idle", flow'[f].at \in {"idle", "releasing"},
           flow' \in [Flows -> FlowStates], \A g \in Flows : g # f => flow'[g] = flow[g],
           UNCHANGED <<transaction, commitFailure, begin, spent, server, applied, acked>>
    PROVE  IInv'
<1>1. told' \in [Transactions -> Outcomes]
  BY DEF IInv, TypeOK, abortStarting, tell, Outcomes
<1>2. QED
  BY <1>1, EndsEmpty DEF scopes, abortStarting, transition

\* An abort begins nothing, or takes the handle.
LEMMA AbortStep ==
    ASSUME IInv, NEW f \in Flows, abortTransaction(f) PROVE IInv'
<1> USE DEF abortTransaction
<1>1. CASE abortStarting /\ UNCHANGED flow
  <2>1. flow' \in [Flows -> FlowStates] /\ flow[f].at = "idle" /\ flow'[f].at = "idle"
    BY <1>1 DEF IInv, TypeOK, idle, Idle
  <2>2. QED
    BY <1>1, <2>1, AbortStartingStep
<1>2. CASE takeScope(f, "cancel", "aborting")
  BY <1>2, TakeScopeStep
<1>3. QED
  BY <1>1, <1>2

\* A flow that ends a session awaits the cancel of the handle, or only the
\* `finally`, or nothing.
LEMMA EndSessionStep ==
    ASSUME IInv, NEW f \in Flows, endSession(f) PROVE IInv'
<1> USE DEF endSession
<1>1. flow[f].at = "idle"
  BY DEF idle, Idle
<1>2. CASE ~inTransaction /\ released
           /\ UNCHANGED <<state, scope, acquiring, line, flow, told>>
  <2>1. hasEnded' \in BOOLEAN /\ flow' \in [Flows -> FlowStates]
    BY <1>2 DEF IInv, TypeOK, released
  <2>2. QED
    BY <1>1, <1>2, <2>1, RestingFlowMoves DEF scopes, history
<1>3. ASSUME flow' = [flow EXCEPT ![f] = Releasing]
      PROVE  /\ flow' \in [Flows -> FlowStates] /\ flow'[f].at = "releasing"
             /\ \A g \in Flows : g # f => flow'[g] = flow[g]
  BY <1>3 DEF IInv, TypeOK, FlowStates, Releasing
<1>4. CASE abortStarting /\ flow' = [flow EXCEPT ![f] = Releasing]
  BY <1>1, <1>3, <1>4, AbortStartingStep
<1>5. CASE flow' = [flow EXCEPT ![f] = Releasing]
           /\ UNCHANGED <<state, scope, acquiring, hasEnded, line, told>>
  <2>1. hasEnded' \in BOOLEAN
    BY <1>5 DEF IInv, TypeOK
  <2>2. QED
    BY <1>1, <1>3, <1>5, <2>1, RestingFlowMoves DEF scopes, history
<1>6. CASE takeScope(f, "cancel", "ending")
  BY <1>6, TakeScopeStep
<1>7. QED
  BY <1>2, <1>4, <1>5, <1>6

\* The `finally` marks the session and leaves what it holds alone.
LEMMA SessionReleasedStep ==
    ASSUME IInv, NEW f \in Flows, sessionReleased(f) PROVE IInv'
<1> USE DEF sessionReleased, released
<1>1. /\ flow[f].at = "releasing" /\ flow'[f].at = "idle"
      /\ flow' \in [Flows -> FlowStates]
      /\ \A g \in Flows : g # f => flow'[g] = flow[g]
  BY DEF IInv, TypeOK, FlowStates, Idle, Releasing
<1>2. QED
  BY <1>1, RestingFlowMoves

\* The one flow that settles, when one does.
LEMMA SettlesAlone ==
    ASSUME IInv, NEW f \in Flows, settling(f)
    PROVE  /\ state = TransactionInProgress /\ scope = undefined
           /\ \A g \in Flows : settling(g) => g = f
  BY DEF IInv, ScopeMatchesState

\* A commit whose budget runs out stays in its line, awaited by nobody.
LEMMA CommitBudgetStep ==
    ASSUME IInv, NEW f \in Flows, withCommitBudget(f) PROVE IInv'
<1> USE DEF withCommitBudget, transition, tell
<1>1. PICK a \in Begins, t \in Transactions : flow[f].on = a /\ flow[f].for = t
  BY DEF IInv, FlowsOK
<1>2. PICK i \in 1..Len(line[a]) :
          line[a][i].by = f /\ line' = [line EXCEPT ![a][i].by = Nobody]
  BY <1>1
<1>3. settling(f) /\ flow[f].at = "committing"
  BY DEF settling
<1>4. /\ state = TransactionInProgress /\ scope = undefined
      /\ \A g \in Flows : settling(g) => g = f
  BY <1>3, SettlesAlone
<1>5. line[a] \in Seq(Jobs) /\ line[a][i] \in Jobs
  BY LineElements DEF IInv
<1>6. line[a][i].op = "commit"
  BY <1>2, <1>3, NobodyIsNoFlow DEF IInv, JobsOK, jobOK
<1>7. /\ \A b \in Begins : b # a => line'[b] = line[b]
      /\ line'[a] = [line[a] EXCEPT ![i].by = Nobody]
  BY <1>2 DEF IInv, TypeOK
<1>8. [line[a][i] EXCEPT !.by = Nobody] \in Jobs
  BY <1>5 DEF Jobs
<1>9. /\ line'[a] \in Seq(Jobs)
      /\ Len(line'[a]) = Len(line[a])
      /\ line'[a][i] = [line[a][i] EXCEPT !.by = Nobody]
      /\ \A k \in 1..Len(line[a]) : k # i => line'[a][k] = line[a][k]
  <2> DEFINE new == [line[a][i] EXCEPT !.by = Nobody]
  <2>1. line'[a] = [line[a] EXCEPT ![i] = new]
    BY <1>7
  <2> HIDE DEF new
  <2>2. new \in Jobs
    BY <1>8 DEF new
  <2>3. /\ [line[a] EXCEPT ![i] = new] \in Seq(Jobs)
        /\ Len([line[a] EXCEPT ![i] = new]) = Len(line[a])
        /\ [line[a] EXCEPT ![i] = new][i] = new
        /\ \A k \in 1..Len(line[a]) : k # i => [line[a] EXCEPT ![i] = new][k] = line[a][k]
    BY <1>5, <2>2, ReplacedElements
  <2>4. QED
    BY <2>1, <2>3 DEF new
<1>10. /\ line'[a][i].op = "commit" /\ line'[a][i].by = Nobody
       /\ \A k \in 1..Len(line[a]) : line'[a][k].op = line[a][k].op
  BY <1>5, <1>6, <1>9 DEF Jobs
<1>11. line' \in [Begins -> Seq(Jobs)]
  BY <1>2, <1>7, <1>9 DEF IInv, TypeOK
<1>12. /\ flow' \in [Flows -> FlowStates]
       /\ flow'[f].at = "idle"
       /\ \A g \in Flows : g # f => flow'[g] = flow[g]
  BY DEF IInv, TypeOK, FlowStates, Idle
<1>13. \A b \in Begins : \A k \in 1..Len(line'[b]) :
           line'[b][k].by # Nobody =>
               /\ k \in 1..Len(line[b])
               /\ line'[b][k] = line[b][k]
               /\ line[b][k].by # f
               /\ line[b][k].by \in Flows
  <2> SUFFICES ASSUME NEW b \in Begins, NEW k \in 1..Len(line'[b]),
                      line'[b][k].by # Nobody
               PROVE  /\ k \in 1..Len(line[b])
                      /\ line'[b][k] = line[b][k]
                      /\ line[b][k].by # f
                      /\ line[b][k].by \in Flows
    OBVIOUS
  <2>1. k \in 1..Len(line[b]) /\ line'[b][k] = line[b][k] /\ (b = a => k # i)
    <3>1. CASE b = a
      BY <3>1, <1>9, <1>10
    <3>2. CASE b # a
      BY <3>2, <1>7
    <3>3. QED
      BY <3>1, <3>2
  <2>2. line[b][k].by \in Flows
    <3>1. line[b][k] \in Jobs
      BY <2>1, LineElements DEF IInv
    <3>2. QED
      BY <2>1, <3>1 DEF Jobs
  <2>3. ASSUME line[b][k].by = f PROVE FALSE
    <3>1. flow[f].on = b
      BY <2>1, <2>3, NobodyIsNoFlow DEF IInv, JobsOK, jobOK
    <3>2. b = a
      BY <3>1, <1>1
    <3>3. QED
      BY <2>1, <2>3, <3>2, <1>2, NobodyIsNoFlow DEF IInv, OneEach
  <2>4. QED
    BY <2>1, <2>2, <2>3
<1>14. \A b \in Begins : \A k \in 1..Len(line'[b]) :
           k \in 1..Len(line[b]) /\ line'[b][k].op = line[b][k].op
  <2> SUFFICES ASSUME NEW b \in Begins, NEW k \in 1..Len(line'[b])
               PROVE  k \in 1..Len(line[b]) /\ line'[b][k].op = line[b][k].op
    OBVIOUS
  <2>1. CASE b = a
    BY <2>1, <1>9, <1>10
  <2>2. CASE b # a
    BY <2>2, <1>7
  <2>3. QED
    BY <2>1, <2>2
<1>15. TypeOK'
  <2>1. told' \in [Transactions -> Outcomes] /\ state' \in TransactionState
    BY DEF IInv, TypeOK, Outcomes, TransactionState
  <2>2. QED
    BY <1>11, <1>12, <2>1 DEF IInv, TypeOK
<1>16. ActiveIsStarted' /\ ScopeIsOpen'
  BY DEF IInv, ActiveIsStarted, ScopeIsOpen, inTransaction, isActive, ACTIVE_STATES
<1>17. FlowsOK'
  BY <1>12 DEF IInv, FlowsOK, begun
<1>18. JobsOK'
  <2> SUFFICES ASSUME NEW b \in Begins, NEW k \in 1..Len(line'[b])
               PROVE  jobOK(line[b][k], b)'
    BY DEF JobsOK
  <2>1. CASE line'[b][k].by = Nobody
    <3>1. line[b][k].op # "statement"
      <4>1. CASE b = a /\ k = i
        BY <4>1, <1>6
      <4>2. CASE ~(b = a /\ k = i)
        <5>1. line'[b][k] = line[b][k]
          BY <4>2, <1>7, <1>9, <1>14
        <5>2. QED
          BY <5>1, <2>1, <1>14, NobodyIsNoFlow DEF IInv, JobsOK, jobOK
      <4>3. QED
        BY <4>1, <4>2
    <3>2. QED
      BY <2>1, <3>1, <1>14 DEF jobOK
  <2>2. CASE line'[b][k].by # Nobody
    <3>1. flow'[line[b][k].by] = flow[line[b][k].by]
      BY <2>2, <1>12, <1>13
    <3>2. k \in 1..Len(line[b]) /\ line'[b][k] = line[b][k]
      BY <2>2, <1>13
    <3>3. jobOK(line[b][k], b)
      BY <3>2 DEF IInv, JobsOK
    <3>4. QED
      BY <3>1, <3>2, <3>3, <1>13, <2>2 DEF jobOK, settling
  <2>3. QED
    BY <2>1, <2>2
<1>19. OneEach'
  <2> SUFFICES ASSUME NEW b \in Begins, NEW m \in 1..Len(line'[b]),
                      NEW k \in 1..Len(line'[b]),
                      \/ line'[b][m].by = line'[b][k].by /\ line'[b][m].by # Nobody
                      \/ isSettle(line'[b][m]) /\ isSettle(line'[b][k])
               PROVE  m = k
    BY DEF OneEach, isSettle
  <2>1. CASE line'[b][m].by = line'[b][k].by /\ line'[b][m].by # Nobody
    <3>1. /\ m \in 1..Len(line[b]) /\ k \in 1..Len(line[b])
          /\ line'[b][m] = line[b][m] /\ line'[b][k] = line[b][k]
      BY <2>1, <1>13
    <3>2. line[b][m].by = line[b][k].by /\ line[b][m].by # Nobody
      BY <2>1, <3>1
    <3>3. OneEach
      BY DEF IInv
    <3>4. QED
      BY <3>1, <3>2, <3>3 DEF OneEach
  <2>2. CASE isSettle(line'[b][m]) /\ isSettle(line'[b][k])
    <3>1. /\ m \in 1..Len(line[b]) /\ k \in 1..Len(line[b])
          /\ isSettle(line[b][m]) /\ isSettle(line[b][k])
      BY <2>2, <1>14 DEF isSettle
    <3>2. OneEach
      BY DEF IInv
    <3>3. QED
      BY <3>1, <3>2 DEF OneEach
  <2>3. QED
    BY <2>1, <2>2
<1>20. \A b \in Begins : settleInLine(b)' <=> settleInLine(b)
  <2> TAKE b \in Begins
  <2>1. CASE b = a
    BY <2>1, <1>9, <1>10 DEF settleInLine, isSettle
  <2>2. CASE b # a
    BY <2>2, <1>7 DEF settleInLine
  <2>3. QED
    BY <2>1, <2>2
<1>21. UnbegunIsBare'
  <2>1. line[a] # << >>
    BY <1>2, <1>5, SMT
  <2>2. QED
    BY <2>1, <1>7 DEF IInv, UnbegunIsBare, begun
<1>22. ScopeMatchesState'
  <2>1. \A g \in Flows : ~settling(g)'
    BY <1>4, <1>12 DEF settling
  <2>2. QED
    BY <2>1, <1>4 DEF ScopeMatchesState
<1>23. SettleFindsLiveHandle' /\ NoOrphanedTransaction'
  BY <1>4, <1>20 DEF IInv, SettleFindsLiveHandle, NoOrphanedTransaction, isStarting
<1>24. QED
  BY <1>15, <1>16, <1>17, <1>18, <1>19, <1>21, <1>22, <1>23 DEF IInv
-----------------------------------------------------------------------------
(* The answers *)

\* A statement's flow gets its handle back.
LEMMA AnswerStatementStep ==
    ASSUME IInv, NEW a \in Begins, answerStatement(a) PROVE IInv'
<1> DEFINE job == Head(line[a])
<1> USE DEF answerStatement, answers, session
<1>1. line[a] # << >> /\ line' = [line EXCEPT ![a] = Tail(@)] /\ job.op = "statement"
  OBVIOUS
<1>2. /\ line' \in [Begins -> Seq(Jobs)]
      /\ \A b \in Begins : b # a => line'[b] = line[b]
      /\ 1 \in 1..Len(line[a])
      /\ job = line[a][1]
      /\ \A b \in Begins : b # a => (settleInLine(b)' <=> settleInLine(b))
      /\ settleInLine(a)' => settleInLine(a)
      /\ settleInLine(a) => settleInLine(a)' \/ isSettle(job)
  BY <1>1, Answered DEF IInv
<1>3. PICK f \in Flows, t \in Transactions :
          /\ job.by = f /\ job.for = t
          /\ flow[f].at = "statement" /\ flow[f].on = a
  BY <1>1, <1>2 DEF IInv, JobsOK, jobOK
<1>4. /\ flow' \in [Flows -> FlowStates]
      /\ flow'[f].at = "holding" /\ flow'[f].on = flow[f].on /\ flow'[f].for = flow[f].for
      /\ \A g \in Flows : g # f => flow'[g] = flow[g]
  BY <1>3 DEF IInv, TypeOK, FlowStates
<1>5. JobsOK' /\ OneEach'
  <2>1. \A g \in Flows : g # Head(line[a]).by => flow'[g] = flow[g]
    BY <1>3, <1>4
  <2>2. QED
    BY <1>1, <2>1, AnsweredFlowMoves
<1>6. applied' \in [Begins -> SUBSET Transactions] /\ acked' \subseteq Transactions \X Begins
  <2>1. applied \in [Begins -> SUBSET Transactions] /\ acked \subseteq Transactions \X Begins
    BY DEF IInv, TypeOK
  <2>2. \/ applied' = applied
        \/ applied' = [applied EXCEPT ![a] = @ \cup {t}]
    BY <1>3
  <2>3. \/ acked' = acked
        \/ acked' = acked \cup {<<t, a>>}
    BY <1>3
  <2>4. applied' \in [Begins -> SUBSET Transactions]
    BY <2>1, <2>2
  <2>5. acked' \subseteq Transactions \X Begins
    BY <2>1, <2>3
  <2>6. QED
    BY <2>4, <2>5
<1>7. TypeOK'
  BY <1>2, <1>4, <1>6 DEF IInv, TypeOK
<1>8. FlowsOK'
  BY <1>3, <1>4 DEF IInv, FlowsOK, begun
<1>9. UnbegunIsBare'
  BY <1>1, <1>2 DEF IInv, UnbegunIsBare, begun
<1>10. \A b \in Begins : settleInLine(b)' <=> settleInLine(b)
  <2>1. ~isSettle(job)
    BY <1>1 DEF isSettle
  <2>2. QED
    BY <2>1, <1>2
<1>11. ~settling(f) /\ ~settling(f)'
  BY <1>3, <1>4 DEF settling
<1>12. /\ ActiveIsStarted' /\ ScopeIsOpen' /\ ScopeMatchesState'
       /\ SettleFindsLiveHandle' /\ NoOrphanedTransaction'
  BY <1>4, <1>10, <1>11, OthersSettle
<1>13. QED
  BY <1>5, <1>7, <1>8, <1>9, <1>12 DEF IInv

\* A settle that is answered spends its scope, and the transaction is over if
\* somebody still awaited it.
LEMMA SettleAnswered ==
    ASSUME IInv, NEW a \in Begins, line[a] # << >>, isSettle(Head(line[a])),
           line' = [line EXCEPT ![a] = Tail(@)],
           spent' = [spent EXCEPT ![a] = TRUE],
           \A b \in Begins : b # a => server'[b] = server[b],
           \A b \in Begins : b # a => begin'[b] = begin[b],
           begun(a) => begun(a)',
           UNCHANGED <<transaction, scope>>, NEW rest \in {Idle, Releasing},
           \/ /\ Head(line[a]).by = Nobody
              /\ UNCHANGED <<state, flow>>
           \/ /\ Head(line[a]).by # Nobody
              /\ flow' = [flow EXCEPT ![Head(line[a]).by] = rest]
              /\ state' \in {TransactionCommitted, TransactionAborted}
    PROVE  /\ line' \in [Begins -> Seq(Jobs)]
           /\ flow' \in [Flows -> FlowStates]
           /\ ActiveIsStarted' /\ FlowsOK' /\ JobsOK' /\ OneEach'
           /\ UnbegunIsBare' /\ ScopeIsOpen' /\ ScopeMatchesState'
           /\ SettleFindsLiveHandle' /\ NoOrphanedTransaction'
<1> DEFINE job == Head(line[a])
<1>1. /\ line' \in [Begins -> Seq(Jobs)]
      /\ \A b \in Begins : b # a => line'[b] = line[b]
      /\ 1 \in 1..Len(line[a])
      /\ job = line[a][1]
      /\ \A b \in Begins : b # a => (settleInLine(b)' <=> settleInLine(b))
  BY Answered DEF IInv
<1>2. begun(a)
  BY DEF IInv, UnbegunIsBare
<1>3. settleInLine(a)
  BY <1>1 DEF settleInLine
<1>4. scope # a
  <2>1. ASSUME scope = a PROVE FALSE
    <3>1. a # undefined
      BY BoundsAreNat DEF undefined, Begins
    <3>2. ~settleInLine(scope)
      BY <2>1, <3>1 DEF IInv, ScopeMatchesState
    <3>3. QED
      BY <2>1, <3>2, <1>3 DEF settleInLine
  <2>2. QED
    BY <2>1
<1>5. \A b \in Begins : begun(b) => begun(b)'
  BY DEF begun
<1>6. \A b \in Begins : b # a => (begun(b)' <=> begun(b)) /\ spent'[b] = spent[b]
  BY DEF IInv, TypeOK, begun
<1>7. spent'[a] = TRUE
  BY DEF IInv, TypeOK
<1>8. job.by # Nobody => job.by \in Flows /\ settling(job.by)
  <2>1. job \in Jobs
    BY <1>1, LineElements DEF IInv
  <2>2. QED
    BY <2>1, <1>1 DEF IInv, JobsOK, jobOK, Jobs, isSettle
<1>9. /\ flow' \in [Flows -> FlowStates]
      /\ \A g \in Flows : flow'[g] # flow[g] => g = job.by /\ flow'[g] = rest
      /\ \A g \in Flows : g # Head(line[a]).by => flow'[g] = flow[g]
  <2>1. flow \in [Flows -> FlowStates] /\ rest \in FlowStates
    BY DEF IInv, TypeOK, FlowStates, Idle, Releasing
  <2>2. CASE UNCHANGED flow
    BY <2>1, <2>2
  <2>3. CASE flow' = [flow EXCEPT ![Head(line[a]).by] = rest]
    BY <2>1, <2>3
  <2>4. QED
    BY <2>2, <2>3
<1>10. (JobsOK' /\ OneEach') /\ ~settleInLine(a)'
  BY <1>9, AnsweredFlowMoves
<1>11. ActiveIsStarted'
  BY DEF IInv, ActiveIsStarted, inTransaction, isActive, ACTIVE_STATES
<1>12. FlowsOK'
  BY <1>5, <1>9 DEF IInv, FlowsOK, Idle, Releasing
<1>13. UnbegunIsBare' /\ ScopeIsOpen'
  BY <1>1, <1>2, <1>4, <1>5, <1>6 DEF IInv, TypeOK, UnbegunIsBare, ScopeIsOpen
<1>14. ScopeMatchesState'
  <2>1. CASE job.by = Nobody
    <3>1. flow' = flow /\ state' = state
      BY <2>1
    <3>2. scope # undefined => ~settleInLine(scope)' /\ ~spent'[scope]
      <4>1. scope # undefined => /\ scope \in Begins /\ scope # a
                                 /\ ~settleInLine(scope) /\ ~spent[scope]
        BY <1>4 DEF IInv, TypeOK, ScopeMatchesState
      <4>2. scope # undefined => line'[scope] = line[scope]
        BY <4>1, <1>1
      <4>3. QED
        BY <4>1, <4>2, <1>6 DEF settleInLine
    <3>3. QED
      BY <3>1, <3>2 DEF IInv, ScopeMatchesState, settling
  <2>2. CASE job.by # Nobody
    <3> PICK f \in Flows : f = job.by
      BY <2>2, <1>8
    <3>1. scope = undefined /\ \A g \in Flows : settling(g) => g = f
      BY <1>8, <2>2, SettlesAlone
    <3>2. \A g \in Flows : ~settling(g)'
      <4>1. flow'[f].at \in {"idle", "releasing"}
        BY <2>2 DEF IInv, TypeOK, Idle, Releasing
      <4>2. \A g \in Flows : g # f => ~settling(g)'
        BY <3>1, <1>9 DEF settling
      <4>3. QED
        BY <4>1, <4>2 DEF settling
    <3>3. QED
      BY <2>2, <3>1, <3>2 DEF ScopeMatchesState
  <2>3. QED
    BY <2>1, <2>2
<1>15. SettleFindsLiveHandle'
  BY <1>1, <1>6, <1>10 DEF IInv, SettleFindsLiveHandle
<1>16. NoOrphanedTransaction'
  BY <1>1, <1>6, <1>7, <1>8, SettlesAlone DEF IInv, NoOrphanedTransaction, isStarting
<1>17. QED
  BY <1>1, <1>9, <1>10, <1>11, <1>12, <1>13, <1>14, <1>15, <1>16

\* A commit that is answered, or whose answer is lost.
LEMMA AnswerCommitStep ==
    ASSUME IInv, NEW a \in Begins, answerCommit(a) PROVE IInv'
<1> DEFINE job == Head(line[a])
<1> USE DEF answerCommit, answers, commitSettled, transition, tell
<1>1. PICK did \in CommitAnswers :
          server' = [server EXCEPT ![a] = did[1]] /\ commitSettled(job, did[2])
  OBVIOUS
<1>2. did[1] \in {"open", "committed", "cancelled"} /\ did[2] \in Outcomes
  BY <1>1 DEF CommitAnswers, Outcomes
<1>3. /\ server' \in [Begins -> {"none", "open", "committed", "cancelled"}]
      /\ \A b \in Begins : b # a => server'[b] = server[b]
  BY <1>1, <1>2 DEF IInv, TypeOK
<1>4. \/ job.by = Nobody /\ UNCHANGED <<state, flow>>
      \/ /\ job.by # Nobody
         /\ flow' = [flow EXCEPT ![job.by] = Idle]
         /\ state' \in {TransactionCommitted, TransactionAborted}
  BY <1>1
<1>5. isSettle(job) /\ (begun(a) => begun(a)')
  BY DEF isSettle, begun
<1>6. /\ line' \in [Begins -> Seq(Jobs)]
      /\ flow' \in [Flows -> FlowStates]
      /\ ActiveIsStarted' /\ FlowsOK' /\ JobsOK' /\ OneEach'
      /\ UnbegunIsBare' /\ ScopeIsOpen' /\ ScopeMatchesState'
      /\ SettleFindsLiveHandle' /\ NoOrphanedTransaction'
  BY <1>3, <1>4, <1>5, SettleAnswered
<1>7. /\ state' \in TransactionState /\ commitFailure' \in BOOLEAN
      /\ told' \in [Transactions -> Outcomes]
  BY <1>1, <1>2 DEF IInv, TypeOK, TransactionState
<1>8. TypeOK'
  BY <1>3, <1>6, <1>7 DEF IInv, TypeOK
<1>9. QED
  BY <1>6, <1>8 DEF IInv

\* A cancel that is answered, or whose failure is swallowed.
LEMMA AnswerCancelStep ==
    ASSUME IInv, NEW a \in Begins, answerCancel(a) PROVE IInv'
<1> DEFINE job == Head(line[a])
<1> USE DEF answerCancel, answers, transition, tell
<1>1. /\ server' \in [Begins -> {"none", "open", "committed", "cancelled"}]
      /\ \A b \in Begins : b # a => server'[b] = server[b]
  BY DEF IInv, TypeOK
<1>2. /\ begin' \in [Begins -> {"unused", "pending", "closing", "resolved", "rejected"}]
      /\ \A b \in Begins : b # a => begin'[b] = begin[b]
      /\ begun(a) => begun(a)'
  BY DEF IInv, TypeOK, begun
<1>3. PICK rest \in {Idle, Releasing} :
          \/ job.by = Nobody /\ UNCHANGED <<state, flow>>
          \/ /\ job.by # Nobody
             /\ flow' = [flow EXCEPT ![job.by] = rest]
             /\ state' \in {TransactionCommitted, TransactionAborted}
  <2> DEFINE next == IF flow[job.by].at = "ending" THEN Releasing ELSE Idle
  <2>1. next \in {Idle, Releasing}
    OBVIOUS
  <2>2. \/ job.by = Nobody /\ UNCHANGED <<state, flow>>
        \/ /\ job.by # Nobody
           /\ flow' = [flow EXCEPT ![job.by] = next]
           /\ state' = TransactionAborted
    OBVIOUS
  <2> HIDE DEF next
  <2>3. QED
    BY <2>1, <2>2
<1>4. isSettle(job)
  BY DEF isSettle
<1>5. /\ line' \in [Begins -> Seq(Jobs)]
      /\ flow' \in [Flows -> FlowStates]
      /\ ActiveIsStarted' /\ FlowsOK' /\ JobsOK' /\ OneEach'
      /\ UnbegunIsBare' /\ ScopeIsOpen' /\ ScopeMatchesState'
      /\ SettleFindsLiveHandle' /\ NoOrphanedTransaction'
  BY <1>1, <1>2, <1>3, <1>4, SettleAnswered
<1>6. /\ state' \in TransactionState /\ hasEnded' \in BOOLEAN
      /\ told' \in [Transactions -> Outcomes]
  BY DEF IInv, TypeOK, TransactionState, Outcomes
<1>7. TypeOK'
  BY <1>1, <1>2, <1>5, <1>6 DEF IInv, TypeOK
<1>8. QED
  BY <1>5, <1>7 DEF IInv
-----------------------------------------------------------------------------
(* The invariant, and what follows from it *)

\* A step that changes nothing keeps the invariant.
LEMMA Stuttering ==
    ASSUME IInv, UNCHANGED vars PROVE IInv'
<1> USE DEF vars, session, scopes, history
<1>1. TypeOK' /\ ActiveIsStarted' /\ FlowsOK' /\ UnbegunIsBare' /\ ScopeIsOpen'
  BY DEF IInv, TypeOK, ActiveIsStarted, FlowsOK, UnbegunIsBare, ScopeIsOpen,
         inTransaction, isActive, begun
<1>2. JobsOK' /\ OneEach'
  BY DEF IInv, JobsOK, jobOK, OneEach, settling
<1>3. ScopeMatchesState' /\ SettleFindsLiveHandle' /\ NoOrphanedTransaction'
  BY DEF IInv, ScopeMatchesState, SettleFindsLiveHandle, NoOrphanedTransaction,
         settling, settleInLine, isStarting
<1>4. QED
  BY <1>1, <1>2, <1>3 DEF IInv

\* Every step of the session keeps its bookkeeping.
LEMMA StepKeepsInvariant ==
    ASSUME IInv, [Next]_vars PROVE IInv'
<1>1. ASSUME NEW f \in Flows, startTransaction(f) PROVE IInv'
  BY <1>1, StartTransactionStep
<1>2. ASSUME NEW f \in Flows, callOperation(f) PROVE IInv'
  BY <1>2, CallOperationStep
<1>3. ASSUME NEW f \in Flows, acquired(f) PROVE IInv'
  BY <1>3, AcquiredStep
<1>4. ASSUME NEW f \in Flows, issueStatement(f) PROVE IInv'
  BY <1>4, IssueStatementStep
<1>5. ASSUME NEW f \in Flows, returnFromOperation(f) PROVE IInv'
  BY <1>5, ReturnStep
<1>6. ASSUME NEW f \in Flows, commitTransaction(f) PROVE IInv'
  BY <1>6, CommitStep
<1>7. ASSUME NEW f \in Flows, abortTransaction(f) PROVE IInv'
  BY <1>7, AbortStep
<1>8. ASSUME NEW f \in Flows, endSession(f) PROVE IInv'
  BY <1>8, EndSessionStep
<1>9. ASSUME NEW f \in Flows, withCommitBudget(f) \/ sessionReleased(f) PROVE IInv'
  BY <1>9, CommitBudgetStep, SessionReleasedStep
<1>10. ASSUME NEW a \in Begins, beginSettles(a) PROVE IInv'
  BY <1>10, BeginAdoptedStep, BeginDiscardedStep, BeginRejectedStep DEF beginSettles
<1>11. ASSUME NEW a \in Begins, answer(a) PROVE IInv'
  BY <1>11, AnswerStatementStep, AnswerCommitStep, AnswerCancelStep DEF answer
<1>12. CASE UNCHANGED vars
  BY <1>12, Stuttering
<1>13. QED
  BY <1>1, <1>2, <1>3, <1>4, <1>5, <1>6, <1>7, <1>8, <1>9, <1>10, <1>11, <1>12 DEF Next

\* The session's bookkeeping holds in every behaviour, however its calls overlap.
THEOREM Invariance == Spec => []IInv
<1>1. Init => IInv
  BY Initially
<1>2. IInv /\ [Next]_vars => IInv'
  BY StepKeepsInvariant
<1>3. QED
  BY <1>1, <1>2, PTL DEF Spec

\* Every field of the session, every flow and every scope keeps its type.
THEOREM TypeCorrect == Spec => []TypeOK
<1>1. IInv => TypeOK
  BY DEF IInv
<1>2. QED
  BY <1>1, Invariance, PTL

\* The handle, the state and the one call that is settling agree.
THEOREM FieldsAgree == Spec => []ScopeMatchesState
<1>1. IInv => ScopeMatchesState
  BY DEF IInv
<1>2. QED
  BY <1>1, Invariance, PTL

\* No scope is asked to settle a second time.
THEOREM SettledOnce == Spec => []SettleFindsLiveHandle
<1>1. IInv => SettleFindsLiveHandle
  BY DEF IInv
<1>2. QED
  BY <1>1, Invariance, PTL

\* No server transaction is left without an owner or a settle on its way.
THEOREM NothingLeftOpen == Spec => []NoOrphanedTransaction
<1>1. IInv => NoOrphanedTransaction
  BY DEF IInv
<1>2. QED
  BY <1>1, Invariance, PTL

\* A flow's settle moves the state from where its call left it, although every
\* other flow ran in between; so transition() never has to throw.
LEMMA StepIsLegal ==
    ASSUME IInv, Next, transaction' = transaction, state' # state
    PROVE  state' \in TRANSITIONS[state]
<1> USE DEF transition
<1>1. state \in TransactionState
  BY DEF IInv, TypeOK
<1>2. /\ TRANSITIONS[StartingTransaction] =
            {TransactionInProgress, TransactionCommittedEmpty, TransactionAborted}
      /\ TRANSITIONS[TransactionInProgress] = {TransactionCommitted, TransactionAborted}
  BY DEF TRANSITIONS, TransactionState
<1>3. ASSUME NEW f \in Flows, startTransaction(f) PROVE FALSE
  BY <1>3, BoundsAreNat DEF startTransaction, IInv, TypeOK, Transactions, undefined
<1>4. ASSUME NEW f \in Flows,
             \/ callOperation(f) \/ acquired(f) \/ issueStatement(f)
             \/ returnFromOperation(f) \/ sessionReleased(f)
      PROVE  FALSE
  BY <1>4 DEF callOperation, acquired, issueStatement, returnFromOperation,
              sessionReleased, session
<1>5. ASSUME NEW f \in Flows,
             commitTransaction(f) \/ abortTransaction(f) \/ endSession(f)
      PROVE  state' \in TRANSITIONS[state]
  BY <1>2, <1>5
     DEF commitTransaction, abortTransaction, endSession, abortStarting, takeScope
<1>6. ASSUME NEW f \in Flows, withCommitBudget(f) PROVE state' \in TRANSITIONS[state]
  <2>1. state = TransactionInProgress
    BY <1>6, SettlesAlone DEF withCommitBudget, settling
  <2>2. QED
    BY <1>2, <1>6, <2>1 DEF withCommitBudget
<1>7. ASSUME NEW a \in Begins, beginSettles(a) PROVE state' \in TRANSITIONS[state]
  BY <1>2, <1>7
     DEF beginSettles, beginAdopted, beginDiscarded, beginRejected, isStarting, session
<1>8. ASSUME NEW a \in Begins, answerStatement(a) PROVE FALSE
  BY <1>8 DEF answerStatement, session
<1>9. ASSUME NEW a \in Begins, answerCommit(a) \/ answerCancel(a)
      PROVE  state' \in TRANSITIONS[state]
  <2>1. /\ line[a] # << >> /\ isSettle(Head(line[a])) /\ Head(line[a]).by # Nobody
        /\ state' \in {TransactionCommitted, TransactionAborted}
    BY <1>9 DEF answerCommit, answerCancel, answers, commitSettled, isSettle
  <2>2. 1 \in 1..Len(line[a]) /\ Head(line[a]) = line[a][1] /\ Head(line[a]) \in Jobs
    <3>1. line[a] \in Seq(Jobs)
      BY LineElements DEF IInv
    <3>2. QED
      BY <2>1, <3>1, TailElements
  <2>3. Head(line[a]).by \in Flows /\ settling(Head(line[a]).by)
    BY <2>1, <2>2 DEF IInv, JobsOK, jobOK, Jobs, isSettle
  <2>4. state = TransactionInProgress
    BY <2>3, SettlesAlone
  <2>5. QED
    BY <1>2, <2>1, <2>4
<1>10. QED
  BY <1>3, <1>4, <1>5, <1>6, <1>7, <1>8, <1>9 DEF Next, answer

\* Within one transaction the state only moves as the table of transitions allows.
THEOREM LegalTransitions == Spec => TransitionsAreLegal
<1>1. IInv /\ [Next]_vars
      => [transaction' = transaction /\ state' # state
          => state' \in TRANSITIONS[state]]_<<transaction, state>>
  BY StepIsLegal DEF vars, session
<1>2. QED
  BY <1>1, Invariance, PTL DEF Spec, TransitionsAreLegal
-----------------------------------------------------------------------------
(* Transactions whose calls do not overlap: which scope a transaction has  *)

\* A flow holds a scope once its acquisition is over, and a scope is reached while
\* a statement can still be made to take effect there.
holds(f) ==
    \/ flow[f].at \in {"holding", "statement", "committing", "aborting", "ending"}
    \/ flow[f].at = "acquiring" /\ begin[flow[f].on] = "resolved"

reached(a) == ~spent[a] /\ (scope = a \/ \E f \in Flows : holds(f) /\ flow[f].on = a)

\* Whatever is under way and awaited is of the transaction that is current.
OfTheCurrent ==
    /\ \A f \in Flows :
          flow[f].at \notin {"idle", "releasing"} => flow[f].for = transaction
    /\ \A a \in Begins : \A i \in 1..Len(line[a]) :
          line[a][i].by # Nobody => line[a][i].for = transaction

\* The history is of transactions that were started, in scopes that were acquired.
HistoryOfTheStarted ==
    /\ \A a \in Begins : \A t \in applied[a] : t <= transaction
    /\ \A a \in Begins : begin[a] # "resolved" => applied[a] = {}
    /\ \A t \in Transactions, a \in Begins : <<t, a>> \in acked => t \in applied[a]
    /\ \A t \in Transactions : t > transaction => told[t] = "open"

\* One scope at most is reached; it is the current transaction's alone, and that
\* transaction has no other, as long as nothing final was said of it.
OneHome ==
    /\ \A a \in Begins : reached(a) =>
          /\ begin[a] = "resolved"
          /\ applied[a] \subseteq {transaction}
          /\ told[transaction] \in {"open", "unknown"}
    /\ \A a, b \in Begins : reached(a) /\ (reached(b) \/ transaction \in applied[b]) => a = b

\* A transaction that has begun nothing has taken effect nowhere.
NoneYet ==
    /\ state = StartingTransaction => told[transaction] = "open"
    /\ state \in {StartingTransaction, TransactionCommittedEmpty} =>
          /\ transaction \in Transactions
          /\ \A a \in Begins : ~reached(a) /\ transaction \notin applied[a]

\* An acquisition that was adopted is the session's scope until that is spent.
AcquiredIsScope ==
    acquiring # undefined /\ begin[acquiring] = "resolved" /\ ~spent[acquiring]
    => scope = acquiring

\* A commit that its caller gave up on has a scope of its own transaction, of
\* which it was said that the outcome is unknown and nothing is said any more.
LeftBehind ==
    \A a \in Begins : \A i \in 1..Len(line[a]) :
        line[a][i].op = "commit" /\ line[a][i].by = Nobody =>
            /\ line[a][i].for \in Transactions
            /\ line[a][i].for <= transaction
            /\ told[line[a][i].for] = "unknown"
            /\ applied[a] \subseteq {line[a][i].for}
            /\ line[a][i].for = transaction => state = TransactionCommitted
            /\ reached(a) => line[a][i].for = transaction

Whole ==
    /\ OfTheCurrent
    /\ HistoryOfTheStarted
    /\ OneHome
    /\ NoneYet
    /\ AcquiredIsScope
    /\ LeftBehind
    /\ CommitsWhole
    /\ DiscardedIsNeverDurable

-----------------------------------------------------------------------------
(* Facts about scopes and lines *)

\* Whoever awaits a call holds the scope it is made on, and reaches it while a
\* settle waits there or it is not spent.
LEMMA CallIsHeld ==
    ASSUME IInv, NEW a \in Begins, NEW i \in 1..Len(line[a]), line[a][i].by # Nobody
    PROVE  /\ line[a][i].by \in Flows
           /\ flow[line[a][i].by].on = a
           /\ flow[line[a][i].by].at \notin {"idle", "releasing"}
           /\ holds(line[a][i].by)
           /\ ~spent[a] \/ isSettle(line[a][i]) => reached(a)
<1>1. line[a][i] \in Jobs
  BY LineElements DEF IInv
<1>2. jobOK(line[a][i], a)
  BY DEF IInv, JobsOK
<1>3. line[a][i].by \in Flows
  BY <1>1 DEF Jobs
<1>4. /\ flow[line[a][i].by].on = a
      /\ flow[line[a][i].by].at \in {"statement", "committing", "aborting", "ending"}
  BY <1>2, <1>3 DEF jobOK, settling
<1>5. isSettle(line[a][i]) => ~spent[a]
  BY DEF IInv, SettleFindsLiveHandle, settleInLine
<1>6. QED
  BY <1>3, <1>4, <1>5 DEF holds, reached

\* What a step can add to the lines: calls that are awaited, of the current
\* transaction, and cancels that are not.
linesGrow ==
    \A b \in Begins : \A i \in 1..Len(line'[b]) :
        \/ \E k \in 1..Len(line[b]) : line'[b][i] = line[b][k]
        \/ line'[b][i].by # Nobody /\ line'[b][i].for = transaction
        \/ line'[b][i].by = Nobody /\ line'[b][i].op # "commit"

LEMMA LinesStay == ASSUME UNCHANGED line PROVE linesGrow
BY DEF linesGrow

LEMMA LinesShrink ==
    ASSUME IInv, NEW a \in Begins, line[a] # << >>, line' = [line EXCEPT ![a] = Tail(@)]
    PROVE  linesGrow
<1>1. /\ \A b \in Begins : b # a => line'[b] = line[b]
      /\ \A i \in 1..Len(line'[a]) : i + 1 \in 1..Len(line[a])
                                     /\ line'[a][i] = line[a][i + 1]
  BY Answered DEF IInv
<1>2. QED
  BY <1>1 DEF linesGrow

LEMMA LinesGetCall ==
    ASSUME IInv, NEW a \in Begins, NEW op \in {"statement", "commit", "cancel"},
           NEW f \in Flows \cup {Nobody}, NEW t \in Transactions \cup {undefined},
           enqueue(a, op, f, t),
           IF f = Nobody THEN op # "commit" ELSE t = transaction
    PROVE  linesGrow
<1> DEFINE job == [op |-> op, by |-> f, for |-> t]
<1>1. job \in Jobs /\ line' = [line EXCEPT ![a] = Append(@, job)]
  BY DEF Jobs, enqueue
<1>2. \/ job.by # Nobody /\ job.for = transaction
      \/ job.by = Nobody /\ job.op # "commit"
  OBVIOUS
<1> HIDE DEF job
<1>3. /\ \A b \in Begins : b # a => line'[b] = line[b]
      /\ Len(line[a]) \in Nat
      /\ Len(line'[a]) = Len(line[a]) + 1
      /\ line'[a][Len(line[a]) + 1] = job
      /\ \A i \in 1..Len(line[a]) : line'[a][i] = line[a][i]
  BY <1>1, Enqueued DEF IInv
<1>4. \A b \in Begins : b # a => \A i \in 1..Len(line'[b]) :
          i \in 1..Len(line[b]) /\ line'[b][i] = line[b][i]
  BY <1>3
<1>5. \A i \in 1..Len(line'[a]) :
          \/ i \in 1..Len(line[a]) /\ line'[a][i] = line[a][i]
          \/ line'[a][i] = job
  BY <1>3
<1>6. QED
  BY <1>2, <1>4, <1>5 DEF linesGrow

\* A scope comes within reach only by being adopted: what a flow comes to hold, or
\* to wait for, was the session's.
LEMMA NothingNewReached ==
    ASSUME IInv,
           \A a \in Begins : spent[a] => spent'[a],
           \A a \in Begins : begin'[a] = "resolved" /\ ~spent'[a] => begin[a] = "resolved",
           scope' = scope \/ scope' = undefined,
           \A f \in Flows :
               \/ flow'[f].on = flow[f].on /\ (holds(f)' => holds(f))
               \/ ~holds(f)'
               \/ flow'[f].on = scope
               \/ spent'[flow'[f].on]
    PROVE  \A a \in Begins : reached(a)' => reached(a)
<1>1. undefined \notin Begins
  BY BoundsAreNat DEF undefined, Begins
<1>2. SUFFICES ASSUME NEW a \in Begins, reached(a)' PROVE reached(a)
  OBVIOUS
<1>3. ~spent'[a] /\ ~spent[a] /\ (scope' = a \/ \E f \in Flows : holds(f)' /\ flow'[f].on = a)
  BY <1>2 DEF reached
<1>4. CASE scope' = a
  BY <1>1, <1>3, <1>4 DEF reached
<1>5. ASSUME NEW f \in Flows, holds(f)', flow'[f].on = a PROVE reached(a)
  BY <1>3, <1>5 DEF reached
<1>6. QED
  BY <1>3, <1>4, <1>5

\* What a step leaves as it was, whatever it does to the flows and the scopes:
\* nothing new is reached, and what is under way is the current transaction's.
sameTransaction ==
    /\ UNCHANGED transaction
    /\ \A a \in Begins : reached(a)' => reached(a)
    /\ \A a \in Begins : begin'[a] # "resolved" => begin[a] # "resolved"
    /\ \A f \in Flows :
          flow'[f].at \notin {"idle", "releasing"} => flow'[f].for = transaction
    /\ linesGrow
    /\ AcquiredIsScope'

\* Under these, what the flows and the lines are of is kept.
LEMMA CurrentKept ==
    ASSUME IInv, Whole, sameTransaction PROVE OfTheCurrent'
<1>1. \A b \in Begins : \A i \in 1..Len(line'[b]) :
          line'[b][i].by # Nobody => line'[b][i].for = transaction
  BY DEF sameTransaction, linesGrow, Whole, OfTheCurrent
<1>2. QED
  BY <1>1 DEF sameTransaction, OfTheCurrent

\* A step that neither takes effect nor tells anybody anything. A commit that it
\* answers is one that nobody awaits.
LEMMA QuietStep ==
    ASSUME IInv, Whole, sameTransaction,
           UNCHANGED <<state, history>>,
           \A a \in Begins : server[a] = "committed" => server'[a] = "committed",
           \A a \in Begins : server'[a] = "committed" =>
               \/ server[a] = "committed"
               \/ \A t \in applied[a] : told[t] = "unknown"
    PROVE  Whole'
<1> USE DEF sameTransaction, history
<1>1. OfTheCurrent'
  BY CurrentKept
<1>2. HistoryOfTheStarted'
  BY DEF Whole, HistoryOfTheStarted
<1>3. OneHome' /\ NoneYet'
  BY DEF Whole, OneHome, NoneYet
<1>4. LeftBehind'
  BY DEF Whole, LeftBehind, linesGrow
<1>5. CommitsWhole'
  BY DEF Whole, CommitsWhole
<1>6. DiscardedIsNeverDurable'
  BY DEF Whole, DiscardedIsNeverDurable
<1>7. QED
  BY <1>1, <1>2, <1>3, <1>4, <1>5, <1>6 DEF Whole

\* What a step may tell, and when: nothing is reached any more, and where the
\* transaction took effect the server did what is told.
LEMMA TellingStep ==
    ASSUME IInv, Whole, sameTransaction, transaction \in Transactions,
           UNCHANGED <<applied, acked>>,
           state # TransactionCommitted,
           state' # StartingTransaction,
           state' = TransactionCommittedEmpty =>
               state \in {StartingTransaction, TransactionCommittedEmpty},
           NEW outcome \in Outcomes \ {"open"}, tell(transaction, outcome),
           \A a \in Begins : ~reached(a)',
           \A a \in Begins : transaction \in applied[a] =>
               /\ outcome \in {"aborted", "empty", "failed"} => server'[a] # "committed"
               /\ outcome = "committed" => server'[a] = "committed",
           \A a \in Begins : server[a] = "committed" => server'[a] = "committed",
           \A a \in Begins : server'[a] = "committed" =>
               server[a] = "committed" \/ applied[a] \subseteq {transaction}
    PROVE  Whole'
<1> USE DEF sameTransaction
<1>1. /\ told'[transaction] = outcome
      /\ \A t \in Transactions : t # transaction => told'[t] = told[t]
  BY DEF IInv, TypeOK, tell
<1>2. OfTheCurrent'
  BY CurrentKept
<1>3. HistoryOfTheStarted'
  BY <1>1 DEF Whole, HistoryOfTheStarted, Transactions
<1>4. OneHome' /\ NoneYet'
  BY DEF Whole, OneHome, NoneYet
<1>5. LeftBehind'
  BY <1>1 DEF Whole, LeftBehind, linesGrow
<1>6. CommitsWhole'
  <2>1. \A a \in Begins : \A t, u \in applied'[a] : t = u
    BY DEF Whole, CommitsWhole
  <2>2. \A a, b \in Begins : applied'[a] \cap applied'[b] # {} => a = b
    BY DEF Whole, CommitsWhole
  <2>3. \A t \in Transactions, a \in Begins :
            told'[t] = "committed" /\ <<t, a>> \in acked' => server'[a] = "committed"
    BY <1>1 DEF Whole, CommitsWhole, HistoryOfTheStarted
  <2>4. QED
    BY <2>1, <2>2, <2>3 DEF CommitsWhole
<1>7. DiscardedIsNeverDurable'
  BY <1>1 DEF Whole, DiscardedIsNeverDurable
<1>8. QED
  BY <1>2, <1>3, <1>4, <1>5, <1>6, <1>7 DEF Whole

-----------------------------------------------------------------------------
(* The steps, one by one *)

\* A transaction that starts when nothing is under way finds nothing in reach.
LEMMA StartWhole ==
    ASSUME IInv, Whole, ~OverlapsStart, NEW f \in Flows, startTransaction(f) PROVE Whole'
<1> USE DEF startTransaction, session, scopes, history
<1>1. \A g \in Flows : flow[g].at = "idle"
  BY DEF idle, Idle
<1>2. \A a \in Begins : \A i \in 1..Len(line[a]) : line[a][i].by = Nobody
  BY <1>1, CallIsHeld
<1>3. \A a \in Begins : ~reached(a)'
  <2>1. undefined \notin Begins
    BY BoundsAreNat DEF undefined, Begins
  <2>2. QED
    BY <1>1, <2>1 DEF reached, holds
<1>4. transaction' \in Transactions /\ transaction' > transaction
  BY BoundsAreNat DEF IInv, TypeOK, Transactions, undefined
<1>5. \A t \in Transactions : t <= transaction => t <= transaction' /\ t # transaction'
  BY <1>4, BoundsAreNat DEF IInv, TypeOK, Transactions, undefined
<1>6. \A a \in Begins : transaction' \notin applied[a]
  BY <1>4, <1>5 DEF Whole, HistoryOfTheStarted
<1>7. OfTheCurrent'
  BY <1>1, <1>2 DEF OfTheCurrent
<1>8. HistoryOfTheStarted'
  <2>1. \A a \in Begins : \A t \in applied[a] : t \in Transactions
    BY DEF IInv, TypeOK
  <2>2. \A t \in Transactions : t > transaction' => t > transaction
    BY <1>4, BoundsAreNat DEF IInv, TypeOK, Transactions, undefined
  <2>3. QED
    BY <1>5, <2>1, <2>2 DEF Whole, HistoryOfTheStarted
<1>9. OneHome' /\ NoneYet'
  BY <1>3, <1>4, <1>6 DEF Whole, OneHome, NoneYet, HistoryOfTheStarted
<1>10. AcquiredIsScope'
  BY DEF AcquiredIsScope
<1>11. LeftBehind'
  BY <1>3, <1>5 DEF Whole, LeftBehind
<1>12. CommitsWhole' /\ DiscardedIsNeverDurable'
  BY DEF Whole, CommitsWhole, DiscardedIsNeverDurable
<1>13. QED
  BY <1>7, <1>8, <1>9, <1>10, <1>11, <1>12 DEF Whole

\* An operation that asks for the executor gets what the session has.
LEMMA CallWhole ==
    ASSUME IInv, Whole, NEW f \in Flows, callOperation(f) PROVE Whole'
<1> USE DEF callOperation, scopes, history
<1>1. PICK at \in {"holding", "acquiring"}, a \in Begins :
          /\ flow' = [flow EXCEPT ![f] = [at |-> at, on |-> a, for |-> transaction]]
          /\ \/ scope = a
             \/ at = "acquiring" /\ (begin'[a] = "resolved" => spent'[a])
  BY DEF IInv, TypeOK, Whole, AcquiredIsScope
<1>2. /\ flow'[f].at = at /\ flow'[f].on = a /\ flow'[f].for = transaction
      /\ \A g \in Flows : g # f => flow'[g] = flow[g]
  BY <1>1 DEF IInv, TypeOK
<1>3. \A b \in Begins : begin'[b] = "resolved" <=> begin[b] = "resolved"
  BY DEF IInv, TypeOK
<1>4. \A g \in Flows :
          \/ flow'[g].on = flow[g].on /\ (holds(g)' => holds(g))
          \/ ~holds(g)'
          \/ flow'[g].on = scope
          \/ spent'[flow'[g].on]
  <2>1. \A g \in Flows : g # f => (holds(g)' => holds(g))
    BY <1>2, <1>3 DEF IInv, FlowsOK, holds
  <2>2. \/ ~holds(f)'
        \/ flow'[f].on = scope
        \/ spent'[flow'[f].on]
    BY <1>1, <1>2 DEF holds
  <2>3. QED
    BY <1>2, <2>1, <2>2
<1>5. \A b \in Begins : reached(b)' => reached(b)
  BY <1>3, <1>4, NothingNewReached
<1>6. AcquiredIsScope'
  BY <1>3 DEF IInv, TypeOK, Whole, AcquiredIsScope
<1>7. sameTransaction
  BY <1>2, <1>3, <1>5, <1>6, LinesStay DEF Whole, OfTheCurrent, sameTransaction
<1>8. QED
  BY <1>7, QuietStep

\* An acquisition that is over gives what was acquired, or nothing.
LEMMA AcquiredWhole ==
    ASSUME IInv, Whole, NEW f \in Flows, acquired(f) PROVE Whole'
<1> USE DEF acquired, session, scopes, history
<1>1. /\ \A g \in Flows : g # f => flow'[g] = flow[g]
      /\ \/ flow'[f].at = "idle"
         \/ flow'[f].on = flow[f].on /\ flow'[f].for = flow[f].for /\ holds(f)
  BY DEF IInv, TypeOK, FlowStates, Idle, holds
<1>2. \A g \in Flows :
          \/ flow'[g].on = flow[g].on /\ (holds(g)' => holds(g))
          \/ ~holds(g)'
  BY <1>1 DEF holds
<1>3. \A b \in Begins : reached(b)' => reached(b)
  BY <1>2, NothingNewReached
<1>4. sameTransaction
  BY <1>1, <1>3, LinesStay DEF Whole, OfTheCurrent, AcquiredIsScope, sameTransaction
<1>5. QED
  BY <1>4, QuietStep

\* A statement goes to the scope that its operation holds.
LEMMA IssueWhole ==
    ASSUME IInv, Whole, NEW f \in Flows, issueStatement(f) PROVE Whole'
<1> USE DEF issueStatement, session, history
<1>1. flow[f].at = "holding" /\ flow[f].on \in Begins /\ flow[f].for \in Transactions
      /\ flow[f].for = transaction
  BY DEF IInv, FlowsOK, Whole, OfTheCurrent
<1>2. /\ \A g \in Flows : g # f => flow'[g] = flow[g]
      /\ flow'[f].on = flow[f].on /\ flow'[f].for = flow[f].for
  BY DEF IInv, TypeOK, FlowStates
<1>3. \A g \in Flows : flow'[g].on = flow[g].on /\ (holds(g)' => holds(g))
  BY <1>1, <1>2 DEF holds
<1>4. \A b \in Begins : reached(b)' => reached(b)
  BY <1>3, NothingNewReached
<1>5. linesGrow
  <2>1. f # Nobody
    BY NobodyIsNoFlow
  <2>2. QED
    BY <1>1, <2>1, LinesGetCall
<1>6. sameTransaction
  BY <1>1, <1>2, <1>4, <1>5 DEF Whole, OfTheCurrent, AcquiredIsScope, sameTransaction
<1>7. QED
  BY <1>6, QuietStep

\* An operation that returns lets its scope go.
LEMMA ReturnWhole ==
    ASSUME IInv, Whole, NEW f \in Flows, returnFromOperation(f) PROVE Whole'
<1> USE DEF returnFromOperation, session, scopes, history
<1>1. flow'[f].at = "idle" /\ \A g \in Flows : g # f => flow'[g] = flow[g]
  BY DEF IInv, TypeOK, Idle
<1>2. \A g \in Flows : holds(g)' => flow'[g].on = flow[g].on /\ holds(g)
  BY <1>1 DEF holds
<1>3. \A b \in Begins : reached(b)' => reached(b)
  BY <1>2, NothingNewReached
<1>4. sameTransaction
  BY <1>1, <1>3, LinesStay DEF Whole, OfTheCurrent, AcquiredIsScope, sameTransaction
<1>5. QED
  BY <1>4, QuietStep

\* Who takes the session's scope holds it from then on.
LEMMA TakeScopeWhole ==
    ASSUME IInv, Whole, NEW f \in Flows, NEW op \in {"commit", "cancel"},
           NEW at \in {"committing", "aborting", "ending"},
           takeScope(f, op, at),
           UNCHANGED <<transaction, begin, spent, server, applied, acked>>
    PROVE  Whole'
<1> USE DEF takeScope
<1>1. scope \in Begins /\ transaction \in Transactions
  BY DEF IInv, TypeOK, ActiveIsStarted, inTransaction, isActive, ACTIVE_STATES
<1>2. /\ \A g \in Flows : g # f => flow'[g] = flow[g]
      /\ flow'[f].on = scope /\ flow'[f].for = transaction
  BY DEF IInv, TypeOK
<1>3. \A g \in Flows :
          \/ flow'[g].on = flow[g].on /\ (holds(g)' => holds(g))
          \/ flow'[g].on = scope
  BY <1>2 DEF holds
<1>4. \A b \in Begins : reached(b)' => reached(b)
  BY <1>3, NothingNewReached
<1>5. linesGrow
  <2>1. f # Nobody
    BY NobodyIsNoFlow
  <2>2. QED
    BY <1>1, <2>1, LinesGetCall
<1>6. AcquiredIsScope'
  BY DEF AcquiredIsScope
<1>7. sameTransaction
  BY <1>2, <1>4, <1>5, <1>6 DEF Whole, OfTheCurrent, sameTransaction
<1>8. QED
  BY <1>7, QuietStep DEF history

\* A flow at rest holds nothing, before and after it moves.
LEMMA RestingWhole ==
    ASSUME IInv, Whole, NEW f \in Flows,
           flow[f].at \in {"idle", "releasing"}, flow'[f].at \in {"idle", "releasing"},
           \A g \in Flows : g # f => flow'[g] = flow[g],
           UNCHANGED <<transaction, scope, acquiring, begin, scopes>>
    PROVE  sameTransaction
<1> USE DEF scopes
<1>1. \A g \in Flows : holds(g)' => flow'[g].on = flow[g].on /\ holds(g)
  BY DEF holds
<1>2. \A b \in Begins : reached(b)' => reached(b)
  BY <1>1, NothingNewReached
<1>3. QED
  BY <1>2, LinesStay DEF Whole, OfTheCurrent, AcquiredIsScope, sameTransaction

\* What is ended before it has begun anything has taken effect nowhere.
LEMMA EmptyWhole ==
    ASSUME IInv, Whole, state \in {StartingTransaction, TransactionCommittedEmpty},
           NEW next \in {TransactionCommittedEmpty, TransactionAborted}, state' = next,
           NEW outcome \in {"empty", "aborted"}, tell(transaction, outcome),
           NEW f \in Flows,
           flow[f].at \in {"idle", "releasing"}, flow'[f].at \in {"idle", "releasing"},
           \A g \in Flows : g # f => flow'[g] = flow[g],
           UNCHANGED <<transaction, scope, acquiring, begin, scopes, applied, acked>>
    PROVE  Whole'
<1>1. transaction \in Transactions
      /\ \A a \in Begins : ~reached(a) /\ transaction \notin applied[a]
  BY DEF Whole, NoneYet
<1>2. sameTransaction
  BY RestingWhole
<1>3. \A a \in Begins : ~reached(a)'
  BY <1>1, <1>2 DEF sameTransaction
<1>4. outcome \in Outcomes \ {"open"}
  BY DEF Outcomes
<1>5. QED
  BY <1>1, <1>2, <1>3, <1>4, TellingStep DEF scopes

\* A commit, whichever way it goes.
LEMMA CommitWhole ==
    ASSUME IInv, Whole, NEW f \in Flows, commitTransaction(f) PROVE Whole'
<1> USE DEF commitTransaction
<1>1. flow[f].at = "idle"
  BY DEF idle, Idle
<1>2. CASE takeScope(f, "commit", "committing")
  BY <1>2, TakeScopeWhole
<1>3. CASE ~takeScope(f, "commit", "committing")
  BY <1>1, <1>3, EmptyWhole DEF transition, scopes
<1>4. QED
  BY <1>2, <1>3

\* An abort of what has not begun.
LEMMA AbortStartingWhole ==
    ASSUME IInv, Whole, abortStarting, NEW f \in Flows,
           flow[f].at = "idle", flow'[f].at \in {"idle", "releasing"},
           \A g \in Flows : g # f => flow'[g] = flow[g],
           UNCHANGED <<transaction, commitFailure, begin, spent, server, applied, acked>>
    PROVE  Whole'
  BY EmptyWhole DEF abortStarting, transition, scopes

\* An abort, whichever way it goes.
LEMMA AbortWhole ==
    ASSUME IInv, Whole, NEW f \in Flows, abortTransaction(f) PROVE Whole'
<1> USE DEF abortTransaction
<1>1. flow[f].at = "idle"
  BY DEF idle, Idle
<1>2. CASE takeScope(f, "cancel", "aborting")
  BY <1>2, TakeScopeWhole
<1>3. CASE abortStarting /\ UNCHANGED flow
  BY <1>1, <1>3, AbortStartingWhole
<1>4. QED
  BY <1>2, <1>3

\* The end of the session, and its `finally`.
LEMMA EndWhole ==
    ASSUME IInv, Whole, NEW f \in Flows, endSession(f) \/ sessionReleased(f) PROVE Whole'
<1>1. /\ flow[f].at \in {"idle", "releasing"}
      /\ endSession(f) => flow[f].at = "idle"
  BY DEF endSession, sessionReleased, idle, Idle, Releasing
<1>2. flow' = [flow EXCEPT ![f] = Releasing] \/ flow' = [flow EXCEPT ![f] = Idle]
      => /\ flow'[f].at \in {"idle", "releasing"}
         /\ \A g \in Flows : g # f => flow'[g] = flow[g]
  BY DEF IInv, TypeOK, Idle, Releasing
<1>3. CASE endSession(f) /\ takeScope(f, "cancel", "ending")
  BY <1>3, TakeScopeWhole DEF endSession
<1>4. CASE endSession(f) /\ abortStarting /\ flow' = [flow EXCEPT ![f] = Releasing]
  BY <1>1, <1>2, <1>4, AbortStartingWhole DEF endSession
<1>5. ASSUME UNCHANGED <<transaction, state, scope, acquiring, begin, scopes, history>>,
             \/ UNCHANGED flow
             \/ flow' = [flow EXCEPT ![f] = Releasing]
             \/ flow' = [flow EXCEPT ![f] = Idle]
      PROVE  Whole'
  <2>1. sameTransaction
    BY <1>1, <1>2, <1>5, RestingWhole
  <2>2. QED
    BY <1>5, <2>1, QuietStep DEF scopes
<1>6. QED
  BY <1>3, <1>4, <1>5 DEF endSession, sessionReleased, scopes, history

\* The scope that is adopted is fresh, and it is the first of its transaction.
LEMMA AdoptedWhole ==
    ASSUME IInv, Whole, NEW a \in Begins, beginAdopted(a) PROVE Whole'
<1> USE DEF beginAdopted, transition, history
<1>1. state = StartingTransaction /\ scope = undefined
  BY DEF IInv, ScopeMatchesState, isStarting
<1>2. /\ transaction \in Transactions /\ told[transaction] = "open"
      /\ \A b \in Begins : ~reached(b) /\ transaction \notin applied[b]
  BY <1>1 DEF Whole, NoneYet
<1>3. line[a] = << >> /\ Len(line[a]) = 0 /\ ~spent[a] /\ server[a] = "none"
  BY PendingIsBare
<1>4. begin'[a] = "resolved" /\ \A b \in Begins : b # a => begin'[b] = begin[b]
  BY DEF IInv, TypeOK
<1>5. server'[a] = "open" /\ \A b \in Begins : b # a => server'[b] = server[b]
  BY DEF IInv, TypeOK
<1>6. \A b \in Begins : reached(b)' => b = a
  <2> SUFFICES ASSUME NEW b \in Begins, reached(b)', b # a PROVE FALSE
    OBVIOUS
  <2>1. PICK g \in Flows : holds(g)' /\ flow[g].on = b
    BY DEF reached
  <2>2. holds(g)
    BY <1>4, <2>1 DEF holds
  <2>3. QED
    BY <1>2, <2>1, <2>2 DEF reached
<1>7. applied[a] = {}
  BY DEF Whole, HistoryOfTheStarted
<1>8. OfTheCurrent'
  BY DEF Whole, OfTheCurrent
<1>9. HistoryOfTheStarted'
  BY <1>4 DEF Whole, HistoryOfTheStarted
<1>10. OneHome'
  BY <1>2, <1>4, <1>6, <1>7 DEF OneHome
<1>11. NoneYet'
  BY DEF NoneYet
<1>12. AcquiredIsScope'
  BY <1>1, <1>4 DEF IInv, TypeOK, Whole, AcquiredIsScope
<1>13. LeftBehind'
  BY <1>1, <1>3, <1>6 DEF Whole, LeftBehind
<1>14. CommitsWhole' /\ DiscardedIsNeverDurable'
  BY <1>3, <1>5 DEF Whole, CommitsWhole, DiscardedIsNeverDurable
<1>15. QED
  BY <1>8, <1>9, <1>10, <1>11, <1>12, <1>13, <1>14 DEF Whole

\* A scope that nobody wants is given to nobody before it is spent.
LEMMA DiscardedWhole ==
    ASSUME IInv, Whole, NEW a \in Begins, beginDiscarded(a) PROVE Whole'
<1> USE DEF beginDiscarded, session, history
<1>1. begin'[a] = "closing" /\ \A b \in Begins : b # a => begin'[b] = begin[b]
  BY DEF IInv, TypeOK
<1>2. server[a] = "none" /\ server'[a] = "open"
      /\ \A b \in Begins : b # a => server'[b] = server[b]
  BY PendingIsBare DEF IInv, TypeOK
<1>3. \A b \in Begins : begin'[b] = "resolved" <=> begin[b] = "resolved"
  BY <1>1
<1>4. \A g \in Flows : holds(g)' => holds(g)
  BY <1>3 DEF IInv, FlowsOK, holds
<1>5. \A b \in Begins : reached(b)' => reached(b)
  BY <1>3, <1>4, NothingNewReached
<1>6. linesGrow
  BY LinesGetCall
<1>7. AcquiredIsScope'
  BY <1>3 DEF IInv, TypeOK, Whole, AcquiredIsScope
<1>8. sameTransaction
  BY <1>3, <1>5, <1>6, <1>7 DEF Whole, OfTheCurrent, sameTransaction
<1>9. QED
  BY <1>2, <1>8, QuietStep

\* Nor is one whose acquisition is rejected.
LEMMA RejectedWhole ==
    ASSUME IInv, Whole, NEW a \in Begins, beginRejected(a) PROVE Whole'
<1> USE DEF beginRejected, scopes, history
<1>1. \A b \in Begins : begin'[b] = "resolved" <=> begin[b] = "resolved"
  BY DEF IInv, TypeOK
<1>2. \A g \in Flows : holds(g)' => holds(g)
  BY <1>1 DEF IInv, FlowsOK, holds
<1>3. \A b \in Begins : reached(b)' => reached(b)
  BY <1>1, <1>2, NothingNewReached
<1>4. AcquiredIsScope'
  BY DEF AcquiredIsScope
<1>5. sameTransaction
  BY <1>1, <1>3, <1>4, LinesStay DEF Whole, OfTheCurrent, sameTransaction
<1>6. QED
  BY <1>5, QuietStep

\* A commit whose budget runs out is left behind in the scope of its transaction.
LEMMA BudgetWhole ==
    ASSUME IInv, Whole, NEW f \in Flows, withCommitBudget(f) PROVE Whole'
<1> USE DEF withCommitBudget, transition, tell
<1>1. PICK a \in Begins, t \in Transactions : flow[f].on = a /\ flow[f].for = t
  BY DEF IInv, FlowsOK
<1>2. PICK i \in 1..Len(line[a]) :
          line[a][i].by = f /\ line' = [line EXCEPT ![a][i].by = Nobody]
  BY <1>1
<1>3. f # Nobody /\ t = transaction /\ state = TransactionInProgress
  <2>1. settling(f)
    BY DEF settling
  <2>2. QED
    BY <1>1, <2>1, SettlesAlone, NobodyIsNoFlow DEF Whole, OfTheCurrent
<1>4. line[a] \in Seq(Jobs) /\ line[a][i] \in Jobs /\ line[a][i].for = t
      /\ line[a][i].op = "commit"
  <2>1. line[a] \in Seq(Jobs) /\ line[a][i] \in Jobs
    BY LineElements DEF IInv
  <2>2. line[a][i].op = "commit"
    BY <1>2, <1>3, <2>1 DEF IInv, JobsOK, jobOK
  <2>3. QED
    BY <1>2, <1>3, <2>1, <2>2 DEF Whole, OfTheCurrent
<1>5. reached(a)
  <2>1. isSettle(line[a][i])
    BY <1>4 DEF isSettle
  <2>2. QED
    BY <1>2, <1>3, <2>1, CallIsHeld
<1>6. applied[a] \subseteq {t}
  BY <1>3, <1>5 DEF Whole, OneHome
<1>7. \A b \in Begins : \A k \in 1..Len(line'[b]) :
          /\ k \in 1..Len(line[b])
          /\ \/ line'[b][k] = line[b][k]
             \/ b = a /\ line'[b][k].by = Nobody /\ line'[b][k].for = t
  <2> DEFINE new == [line[a][i] EXCEPT !.by = Nobody]
  <2>1. /\ \A b \in Begins : b # a => line'[b] = line[b]
        /\ line'[a] = [line[a] EXCEPT ![i] = new]
    BY <1>2 DEF IInv, TypeOK
  <2>2. new \in Jobs /\ new.by = Nobody /\ new.for = t
    BY <1>4 DEF Jobs
  <2> HIDE DEF new
  <2>3. /\ Len([line[a] EXCEPT ![i] = new]) = Len(line[a])
        /\ [line[a] EXCEPT ![i] = new][i] = new
        /\ \A k \in 1..Len(line[a]) :
              k # i => [line[a] EXCEPT ![i] = new][k] = line[a][k]
    BY <1>4, <2>2, ReplacedElements
  <2>4. \A k \in 1..Len(line'[a]) :
            k \in 1..Len(line[a]) /\ (line'[a][k] = line[a][k] \/ line'[a][k] = new)
    BY <2>1, <2>3
  <2>5. TAKE b \in Begins
  <2>6. CASE b = a
    BY <2>2, <2>4, <2>6
  <2>7. CASE b # a
    BY <2>1, <2>7
  <2>8. QED
    BY <2>6, <2>7
<1>8. flow'[f].at = "idle" /\ \A g \in Flows : g # f => flow'[g] = flow[g]
  BY DEF IInv, TypeOK, Idle
<1>9. /\ told'[t] = "unknown"
      /\ \A u \in Transactions : u # t => told'[u] = told[u]
  BY <1>1 DEF IInv, TypeOK
<1>10. \A b \in Begins : reached(b)' => reached(b)
  <2>1. \A g \in Flows : holds(g)' => flow'[g].on = flow[g].on /\ holds(g)
    BY <1>8 DEF holds
  <2>2. QED
    BY <2>1, NothingNewReached
<1>11. \A b \in Begins : transaction \in applied[b] => b = a
  BY <1>5 DEF Whole, OneHome
<1>12. \A b \in Begins : reached(b)' => b = a
  BY <1>5, <1>10 DEF Whole, OneHome
<1>13. OfTheCurrent'
  BY SMTT(90), <1>3, <1>7, <1>8 DEF Whole, OfTheCurrent
<1>14. HistoryOfTheStarted'
  BY <1>3, <1>9 DEF Whole, HistoryOfTheStarted, Transactions
<1>15. OneHome' /\ NoneYet'
  BY <1>3, <1>9, <1>10 DEF Whole, OneHome, NoneYet
<1>16. AcquiredIsScope'
  BY DEF Whole, AcquiredIsScope
<1>17. LeftBehind'
  <2> SUFFICES ASSUME NEW b \in Begins, NEW k \in 1..Len(line'[b]),
                      line'[b][k].op = "commit", line'[b][k].by = Nobody
               PROVE  /\ line'[b][k].for \in Transactions
                      /\ line'[b][k].for <= transaction
                      /\ told'[line'[b][k].for] = "unknown"
                      /\ applied[b] \subseteq {line'[b][k].for}
                      /\ reached(b)' => line'[b][k].for = transaction
    BY DEF LeftBehind
  <2>1. CASE line'[b][k] = line[b][k]
    <3>1. k \in 1..Len(line[b]) /\ line[b][k].op = "commit" /\ line[b][k].by = Nobody
      BY <1>7, <2>1
    <3>2. /\ line[b][k].for \in Transactions
          /\ line[b][k].for <= transaction
          /\ told[line[b][k].for] = "unknown"
          /\ applied[b] \subseteq {line[b][k].for}
          /\ reached(b) => line[b][k].for = transaction
      BY <3>1 DEF Whole, LeftBehind
    <3>3. QED
      BY <1>9, <1>10, <2>1, <3>2
  <2>2. CASE b = a /\ line'[b][k].for = t
    <3>1. t <= transaction
      BY <1>3, BoundsAreNat DEF Transactions
    <3>2. QED
      BY <1>3, <1>6, <1>9, <2>2, <3>1
  <2>3. QED
    BY <1>7, <2>1, <2>2
<1>18. CommitsWhole'
  BY <1>3, <1>9 DEF Whole, CommitsWhole
<1>19. DiscardedIsNeverDurable'
  BY <1>9 DEF Whole, DiscardedIsNeverDurable
<1>20. QED
  BY <1>13, <1>14, <1>15, <1>16, <1>17, <1>18, <1>19 DEF Whole

\* A statement that takes effect is the current transaction's, in its one scope.
LEMMA StatementWhole ==
    ASSUME IInv, Whole, NEW a \in Begins, answerStatement(a) PROVE Whole'
<1> DEFINE job == Head(line[a])
<1> USE DEF answerStatement, answers, session
<1>1. /\ line[a] # << >> /\ line' = [line EXCEPT ![a] = Tail(@)]
      /\ 1 \in 1..Len(line[a]) /\ job = line[a][1] /\ job.op = "statement"
  BY Answered DEF IInv
<1>2. PICK f \in Flows, t \in Transactions :
          /\ job.by = f /\ job.for = t /\ t = transaction
          /\ flow[f].at = "statement" /\ flow[f].on = a
  BY <1>1, NobodyIsNoFlow DEF IInv, JobsOK, jobOK, Whole, OfTheCurrent
<1> HIDE DEF job
<1>3. /\ flow'[f].at = "holding" /\ flow'[f].on = flow[f].on /\ flow'[f].for = flow[f].for
      /\ \A g \in Flows : g # f => flow'[g] = flow[g]
  BY <1>2 DEF IInv, TypeOK, FlowStates, job
<1>4. \A g \in Flows : flow'[g].on = flow[g].on /\ (holds(g)' => holds(g))
  BY <1>2, <1>3 DEF holds
<1>5. \A b \in Begins : reached(b)' => reached(b)
  BY <1>4, NothingNewReached
<1>6. sameTransaction
  BY ZenonT(60), <1>1, <1>2, <1>3, <1>5, LinesShrink
     DEF Whole, OfTheCurrent, AcquiredIsScope, sameTransaction
<1>7. CASE UNCHANGED <<applied, acked>>
  BY <1>6, <1>7, QuietStep DEF history
<1>8. CASE /\ ~spent[a]
           /\ applied' = [applied EXCEPT ![a] = @ \cup {t}]
           /\ acked' \in {acked, acked \cup {<<t, a>>}}
  <2> USE DEF sameTransaction
  <2>1. reached(a)
    BY <1>2, <1>8 DEF reached, holds
  <2>2. applied'[a] = applied[a] \cup {t} /\ \A b \in Begins : b # a => applied'[b] = applied[b]
    BY <1>8 DEF IInv, TypeOK
  <2>3. /\ applied[a] \subseteq {t} /\ told[t] \in {"open", "unknown"}
        /\ \A b \in Begins : reached(b) \/ t \in applied[b] => b = a
    BY <1>2, <2>1 DEF Whole, OneHome
  <2>4. begin[a] = "resolved"
    BY <2>1 DEF Whole, OneHome
  <2>5. OfTheCurrent'
    BY <1>6, CurrentKept
  <2>6. HistoryOfTheStarted'
    BY <1>2, <1>6, <1>8, <2>2, <2>4 DEF Whole, HistoryOfTheStarted, Transactions
  <2>7. OneHome'
    BY <1>2, <1>6, <2>2, <2>3 DEF Whole, OneHome
  <2>8. NoneYet'
    BY <1>6, <2>1, <2>2 DEF Whole, NoneYet
  <2>9. LeftBehind'
    BY SMTT(30), <1>2, <1>6, <2>1, <2>2 DEF Whole, LeftBehind, linesGrow
  <2>10. CommitsWhole'
    BY <1>8, <2>2, <2>3 DEF Whole, CommitsWhole
  <2>11. DiscardedIsNeverDurable'
    BY <1>8, <2>2, <2>3 DEF Whole, DiscardedIsNeverDurable
  <2>12. QED
    BY <1>6, <2>5, <2>6, <2>7, <2>8, <2>9, <2>10, <2>11 DEF Whole
<1>9. QED
  BY <1>2, <1>7, <1>8 DEF job

\* A settle that is answered puts its scope, and with it every scope, out of reach;
\* and if somebody awaited it, all that his transaction did was done there.
LEMMA SettledOutOfReach ==
    ASSUME IInv, Whole, NEW a \in Begins, line[a] # << >>, isSettle(Head(line[a])),
           line' = [line EXCEPT ![a] = Tail(@)],
           spent' = [spent EXCEPT ![a] = TRUE],
           UNCHANGED <<transaction, scope, acquiring>>,
           \A b \in Begins : b # a => begin'[b] = begin[b],
           begin[a] = "resolved" => begin'[a] = "resolved",
           NEW rest \in {Idle, Releasing},
           \/ Head(line[a]).by = Nobody /\ UNCHANGED flow
           \/ Head(line[a]).by # Nobody
              /\ flow' = [flow EXCEPT ![Head(line[a]).by] = rest]
    PROVE  /\ 1 \in 1..Len(line[a]) /\ Head(line[a]) = line[a][1]
           /\ server[a] = "open"
           /\ sameTransaction
           /\ Head(line[a]).by # Nobody =>
                 /\ state = TransactionInProgress
                 /\ transaction \in Transactions
                 /\ Head(line[a]).for = transaction
                 /\ \A b \in Begins : ~reached(b)'
                 /\ \A b \in Begins : transaction \in applied[b] => b = a
                 /\ applied[a] \subseteq {transaction}
<1> DEFINE job == Head(line[a])
<1>1. 1 \in 1..Len(line[a]) /\ job = line[a][1]
  BY Answered DEF IInv
<1>2. server[a] = "open"
  BY <1>1 DEF IInv, SettleFindsLiveHandle, settleInLine
<1>3. spent'[a] /\ \A b \in Begins : b # a => spent'[b] = spent[b]
  BY DEF IInv, TypeOK
<1>4. \A g \in Flows : flow'[g] = flow[g] \/ flow'[g] = rest
  BY DEF IInv, TypeOK
<1> HIDE DEF job
<1>5. \A g \in Flows :
          \/ flow'[g].on = flow[g].on /\ (holds(g)' => holds(g))
          \/ ~holds(g)'
          \/ spent'[flow'[g].on]
  <2>1. \A g \in Flows : flow'[g] = rest => ~holds(g)'
    BY DEF holds, Idle, Releasing
  <2>2. \A g \in Flows : flow'[g] = flow[g] =>
            \/ flow'[g].on = flow[g].on /\ (holds(g)' => holds(g))
            \/ spent'[flow'[g].on]
    BY <1>3 DEF IInv, FlowsOK, holds
  <2>3. QED
    BY <1>4, <2>1, <2>2
<1>6. \A b \in Begins : reached(b)' => reached(b)
  BY <1>3, <1>5, NothingNewReached
<1>7. sameTransaction
  <2>1. linesGrow
    BY LinesShrink
  <2>2. AcquiredIsScope'
    BY <1>3 DEF IInv, TypeOK, Whole, AcquiredIsScope
  <2>3. \A g \in Flows :
            flow'[g].at \notin {"idle", "releasing"} => flow'[g].for = transaction
    BY <1>4 DEF Whole, OfTheCurrent, Idle, Releasing
  <2>4. QED
    BY <1>6, <2>1, <2>2, <2>3 DEF sameTransaction
<1>8. ASSUME job.by # Nobody
      PROVE  /\ state = TransactionInProgress
             /\ transaction \in Transactions
             /\ job.for = transaction
             /\ \A b \in Begins : ~reached(b)'
             /\ \A b \in Begins : transaction \in applied[b] => b = a
             /\ applied[a] \subseteq {transaction}
  <2>1. job.by \in Flows /\ reached(a) /\ settling(job.by)
    <3>1. job.by \in Flows /\ reached(a)
      BY <1>1, <1>8, CallIsHeld DEF job
    <3>2. jobOK(job, a)
      BY <1>1 DEF IInv, JobsOK
    <3>3. QED
      BY <1>8, <3>1, <3>2 DEF jobOK, isSettle, job
  <2>2. state = TransactionInProgress
    BY <2>1, SettlesAlone
  <2>3. transaction \in Transactions
    BY <2>2 DEF IInv, ActiveIsStarted, inTransaction, isActive, ACTIVE_STATES
  <2>4. job.for = transaction
    BY <1>1, <1>8 DEF Whole, OfTheCurrent
  <2>5. \A b \in Begins : reached(b) \/ transaction \in applied[b] => b = a
    BY <2>1 DEF Whole, OneHome
  <2>6. \A b \in Begins : ~reached(b)'
    BY <1>3, <1>6, <2>5 DEF reached
  <2>7. applied[a] \subseteq {transaction}
    BY <2>1 DEF Whole, OneHome
  <2>8. QED
    BY <2>2, <2>3, <2>4, <2>5, <2>6, <2>7
<1>9. QED
  BY <1>1, <1>2, <1>7, <1>8 DEF job

\* What is told of a commit is true wherever the transaction took effect.
LEMMA CommitAnsweredWhole ==
    ASSUME IInv, Whole, NEW a \in Begins, answerCommit(a) PROVE Whole'
<1> DEFINE job == Head(line[a])
<1>1. /\ line[a] # << >> /\ job.op = "commit"
      /\ line' = [line EXCEPT ![a] = Tail(@)]
      /\ spent' = [spent EXCEPT ![a] = TRUE]
      /\ UNCHANGED <<transaction, scope, acquiring, hasEnded, begin, applied, acked>>
  BY DEF answerCommit, answers
<1>2. PICK did \in CommitAnswers :
          server' = [server EXCEPT ![a] = did[1]] /\ commitSettled(job, did[2])
  BY DEF answerCommit
<1>3. /\ did[2] \in Outcomes \ {"open"}
      /\ did[2] \in {"aborted", "empty", "failed"} => did[1] # "committed"
      /\ did[2] = "committed" => did[1] = "committed"
  BY DEF CommitAnswers, Outcomes
<1>4. server'[a] = did[1] /\ \A b \in Begins : b # a => server'[b] = server[b]
  BY <1>2 DEF IInv, TypeOK
<1>5. CASE job.by = Nobody
  <2>1. UNCHANGED <<state, flow, told>>
    BY <1>2, <1>5 DEF commitSettled
  <2>2. /\ 1 \in 1..Len(line[a]) /\ job = line[a][1]
        /\ server[a] = "open" /\ sameTransaction
    BY <1>1, <1>5, <2>1, SettledOutOfReach DEF isSettle
  <2>3. \A t \in applied[a] : told[t] = "unknown"
    BY <1>1, <1>5, <2>2 DEF Whole, LeftBehind
  <2>4. QED
    BY <1>1, <1>4, <2>1, <2>2, <2>3, QuietStep DEF history
<1>6. CASE job.by # Nobody
  <2>1. /\ state' = TransactionCommitted
        /\ tell(job.for, did[2])
        /\ flow' = [flow EXCEPT ![job.by] = Idle]
    BY <1>2, <1>6 DEF commitSettled, transition
  <2>2. /\ server[a] = "open" /\ sameTransaction
        /\ state = TransactionInProgress
        /\ transaction \in Transactions
        /\ job.for = transaction
        /\ \A b \in Begins : ~reached(b)'
        /\ \A b \in Begins : transaction \in applied[b] => b = a
        /\ applied[a] \subseteq {transaction}
    BY <1>1, <1>6, <2>1, SettledOutOfReach DEF isSettle
  <2>3. tell(transaction, did[2])
    BY <2>1, <2>2
  <2>4. \A b \in Begins : transaction \in applied[b] =>
            /\ did[2] \in {"aborted", "empty", "failed"} => server'[b] # "committed"
            /\ did[2] = "committed" => server'[b] = "committed"
    BY <1>3, <1>4, <2>2
  <2>5. /\ \A b \in Begins : server[b] = "committed" => server'[b] = "committed"
        /\ \A b \in Begins : server'[b] = "committed" =>
               server[b] = "committed" \/ applied[b] \subseteq {transaction}
    BY <1>4, <2>2
  <2>6. /\ UNCHANGED <<applied, acked>>
        /\ state # TransactionCommitted
        /\ state' \notin {StartingTransaction, TransactionCommittedEmpty}
    BY <1>1, <2>1, <2>2
  <2> DEFINE outcome == did[2]
  <2>7. outcome \in Outcomes \ {"open"} /\ tell(transaction, outcome)
    BY <1>3, <2>3
  <2>8. \A b \in Begins : transaction \in applied[b] =>
            /\ outcome \in {"aborted", "empty", "failed"} => server'[b] # "committed"
            /\ outcome = "committed" => server'[b] = "committed"
    BY <2>4
  <2> HIDE DEF outcome
  <2>9. QED
    BY <2>2, <2>5, <2>6, <2>7, <2>8, TellingStep
<1>7. QED
  BY <1>5, <1>6

\* What is aborted stays undone, whether or not its cancel reached the server.
LEMMA CancelAnsweredWhole ==
    ASSUME IInv, Whole, NEW a \in Begins, answerCancel(a) PROVE Whole'
<1> DEFINE job == Head(line[a])
<1>1. /\ line[a] # << >> /\ job.op = "cancel"
      /\ line' = [line EXCEPT ![a] = Tail(@)]
      /\ spent' = [spent EXCEPT ![a] = TRUE]
      /\ UNCHANGED <<transaction, scope, acquiring, commitFailure, applied, acked>>
  BY DEF answerCancel, answers
<1>2. /\ server'[a] # "committed"
      /\ \A b \in Begins : b # a => server'[b] = server[b]
  BY DEF answerCancel, IInv, TypeOK
<1>3. /\ \A b \in Begins : b # a => begin'[b] = begin[b]
      /\ begin[a] = "resolved" => begin'[a] = "resolved"
  BY DEF answerCancel, IInv, TypeOK
<1>4. CASE job.by = Nobody
  <2>1. UNCHANGED <<state, flow, told>>
    BY <1>4 DEF answerCancel
  <2>2. server[a] = "open" /\ sameTransaction
    BY <1>1, <1>3, <1>4, <2>1, SettledOutOfReach DEF isSettle
  <2>3. QED
    BY <1>1, <1>2, <2>1, <2>2, QuietStep DEF history
<1>5. CASE job.by # Nobody
  <2> DEFINE next == IF flow[job.by].at = "ending" THEN Releasing ELSE Idle
  <2>1. /\ state' = TransactionAborted
        /\ tell(job.for, "aborted")
        /\ flow' = [flow EXCEPT ![job.by] = next]
        /\ next \in {Idle, Releasing}
    BY <1>5 DEF answerCancel, transition
  <2> HIDE DEF next
  <2>2. /\ server[a] = "open" /\ sameTransaction
        /\ state = TransactionInProgress
        /\ transaction \in Transactions
        /\ job.for = transaction
        /\ \A b \in Begins : ~reached(b)'
        /\ \A b \in Begins : transaction \in applied[b] => b = a
    BY <1>1, <1>3, <1>5, <2>1, SettledOutOfReach DEF isSettle
  <2>3. tell(transaction, "aborted") /\ "aborted" \in Outcomes \ {"open"}
    BY <2>1, <2>2 DEF Outcomes
  <2>4. /\ UNCHANGED <<applied, acked>>
        /\ state # TransactionCommitted
        /\ state' \notin {StartingTransaction, TransactionCommittedEmpty}
    BY <1>1, <2>1, <2>2
  <2>5. \A b \in Begins : transaction \in applied[b] =>
            /\ "aborted" \in {"aborted", "empty", "failed"} => server'[b] # "committed"
            /\ "aborted" = "committed" => server'[b] = "committed"
    BY <1>2, <2>2
  <2>6. /\ \A b \in Begins : server[b] = "committed" => server'[b] = "committed"
        /\ \A b \in Begins : server'[b] = "committed" =>
               server[b] = "committed" \/ applied[b] \subseteq {transaction}
    BY <1>2, <2>2
  <2>7. QED
    BY <2>2, <2>3, <2>4, <2>5, <2>6, TellingStep
<1>6. QED
  BY <1>4, <1>5

\* A step that changes nothing.
LEMMA StutterWhole == ASSUME IInv, Whole, UNCHANGED vars PROVE Whole'
<1> USE DEF vars, session, scopes, history
<1>1. \A g \in Flows : holds(g)' <=> holds(g)
  BY DEF holds
<1>2. \A b \in Begins : reached(b)' <=> reached(b)
  BY <1>1 DEF reached
<1>3. sameTransaction
  BY <1>2, LinesStay DEF Whole, OfTheCurrent, AcquiredIsScope, sameTransaction
<1>4. QED
  BY <1>3, QuietStep

\* The session as it is constructed: nothing has begun and nothing was told.
LEMMA WholeInitially == Init => Whole
<1> SUFFICES ASSUME Init PROVE Whole
  OBVIOUS
<1>1. \A f \in Flows : flow[f].at = "idle"
  BY DEF Init, Idle
<1>2. \A a \in Begins : line[a] = << >> /\ Len(line[a]) = 0 /\ applied[a] = {}
  BY DEF Init
<1>3. \A a \in Begins : ~reached(a)
  <2>1. undefined \notin Begins
    BY BoundsAreNat DEF undefined, Begins
  <2>2. QED
    BY <1>1, <2>1 DEF Init, reached, holds
<1>4. OfTheCurrent /\ LeftBehind
  BY <1>1, <1>2 DEF OfTheCurrent, LeftBehind
<1>5. HistoryOfTheStarted /\ OneHome /\ NoneYet /\ AcquiredIsScope
  BY <1>2, <1>3 DEF Init, HistoryOfTheStarted, OneHome, NoneYet, AcquiredIsScope
<1>6. CommitsWhole /\ DiscardedIsNeverDurable
  BY <1>2 DEF Init, CommitsWhole, DiscardedIsNeverDurable
<1>7. QED
  BY <1>4, <1>5, <1>6 DEF Whole

\* Every step keeps a transaction whole when transactions do not overlap.
LEMMA StepKeepsWhole ==
    ASSUME IInv, Whole, ~OverlapsStart, [Next]_vars PROVE Whole'
<1>1. ASSUME NEW f \in Flows, startTransaction(f) PROVE Whole'
  BY <1>1, StartWhole
<1>2. ASSUME NEW f \in Flows, callOperation(f) PROVE Whole'
  BY <1>2, CallWhole
<1>3. ASSUME NEW f \in Flows, acquired(f) PROVE Whole'
  BY <1>3, AcquiredWhole
<1>4. ASSUME NEW f \in Flows, issueStatement(f) PROVE Whole'
  BY <1>4, IssueWhole
<1>5. ASSUME NEW f \in Flows, returnFromOperation(f) PROVE Whole'
  BY <1>5, ReturnWhole
<1>6. ASSUME NEW f \in Flows,
             \/ commitTransaction(f) \/ abortTransaction(f)
             \/ endSession(f) \/ sessionReleased(f)
      PROVE  Whole'
  BY <1>6, CommitWhole, AbortWhole, EndWhole
<1>7. ASSUME NEW f \in Flows, withCommitBudget(f) PROVE Whole'
  BY <1>7, BudgetWhole
<1>8. ASSUME NEW a \in Begins, beginSettles(a) PROVE Whole'
  BY <1>8, AdoptedWhole, DiscardedWhole, RejectedWhole DEF beginSettles
<1>9. ASSUME NEW a \in Begins, answer(a) PROVE Whole'
  BY <1>9, StatementWhole, CommitAnsweredWhole, CancelAnsweredWhole DEF answer
<1>10. CASE UNCHANGED vars
  BY <1>10, StutterWhole
<1>11. QED
  BY <1>1, <1>2, <1>3, <1>4, <1>5, <1>6, <1>7, <1>8, <1>9, <1>10 DEF Next

\* In every behaviour whose transactions do not overlap one another's calls.
LEMMA WholeInvariance == ASSUME ~OverlapsStart PROVE Spec => []Whole
<1>1. Init => Whole
  BY WholeInitially
<1>2. IInv /\ Whole /\ [Next]_vars => Whole'
  BY StepKeepsWhole
<1>3. QED
  BY <1>1, <1>2, Invariance, PTL DEF Spec

\* When no transaction is started while calls of the last are under way, each has
\* its statements take effect in one server transaction that is its alone, and an
\* acknowledged commit makes every acknowledged statement durable.
THEOREM CommittedWhole == ASSUME ~OverlapsStart PROVE Spec => []CommitsWhole
<1>1. Whole => CommitsWhole
  BY DEF Whole
<1>2. QED
  BY <1>1, WholeInvariance, PTL

\* And what was aborted, committed empty, or rejected at its commit never becomes
\* durable, not even by a commit that ran out of its budget and was left behind.
THEOREM DiscardedForGood == ASSUME ~OverlapsStart PROVE Spec => []DiscardedIsNeverDurable
<1>1. Whole => DiscardedIsNeverDurable
  BY DEF Whole
<1>2. QED
  BY <1>1, WholeInvariance, PTL
-----------------------------------------------------------------------------
(* An ended session, when no transaction is started while it is ended *)

\* A session that was ended, or whose end has only its `finally` to come.
ended == hasEnded \/ \E f \in Flows : flow[f] = Releasing

\* It has no transaction, or one that another call is settling.
EndedHoldsNone == ended => scope = undefined /\ ~isStarting(state)

\* A step that gives the session no handle and starts no transaction, and by which
\* nobody comes to end it.
LEMMA EndedKept ==
    ASSUME EndedHoldsNone, ended' => ended,
           scope' = scope \/ scope' = undefined, isStarting(state)' => isStarting(state)
    PROVE  EndedHoldsNone'
  BY DEF EndedHoldsNone

\* A flow that moves without coming to the `finally` of endSession ends nothing.
LEMMA NobodyEnds ==
    ASSUME UNCHANGED hasEnded, \A f \in Flows : flow'[f] = flow[f] \/ flow'[f] # Releasing
    PROVE  ended' => ended
  BY DEF ended

\* An end that leaves the handle to its `finally` finds none, or has just aborted
\* what was starting; nothing can be started before it is marked.
LEMMA StepKeepsEnded ==
    ASSUME IInv, EndedHoldsNone, ~OverlapsStart, [Next]_vars PROVE EndedHoldsNone'
<1> USE DEF transition
<1>1. ASSUME NEW f \in Flows, startTransaction(f) PROVE EndedHoldsNone'
  <2>1. ~ended /\ \A g \in Flows : flow[g] # Releasing
    BY <1>1 DEF startTransaction, idle, Idle, Releasing, ended
  <2>2. ~ended'
    BY <1>1, <2>1 DEF startTransaction, ended
  <2>3. QED
    BY <2>2 DEF EndedHoldsNone
<1>2. ASSUME NEW f \in Flows,
             \/ callOperation(f) \/ acquired(f) \/ issueStatement(f)
             \/ returnFromOperation(f)
      PROVE  EndedHoldsNone'
  <2>1. UNCHANGED <<state, scope, hasEnded>>
    BY <1>2 DEF callOperation, acquired, issueStatement, returnFromOperation, session
  <2>2. \A g \in Flows : flow'[g] = flow[g] \/ flow'[g] # Releasing
    BY <1>2 DEF IInv, TypeOK, FlowStates, callOperation, acquired, issueStatement,
                returnFromOperation, Idle, Releasing
  <2>3. QED
    BY <2>1, <2>2, NobodyEnds, EndedKept DEF isStarting
<1>3. ASSUME NEW f \in Flows, NEW op \in {"commit", "cancel"},
             NEW at \in {"committing", "aborting", "ending"}, takeScope(f, op, at)
      PROVE  EndedHoldsNone'
  <2>1. scope' = undefined /\ ~isStarting(state)'
    BY <1>3 DEF takeScope, isStarting
  <2>2. QED
    BY <2>1 DEF EndedHoldsNone
<1>4. ASSUME NEW f \in Flows, commitTransaction(f) \/ abortTransaction(f) \/ endSession(f)
      PROVE  EndedHoldsNone'
  <2>1. ASSUME state # TransactionInProgress, UNCHANGED scope, ~isStarting(state)'
        PROVE  EndedHoldsNone'
    <3>1. scope = undefined
      BY <2>1, NotInProgress
    <3>2. QED
      BY <2>1, <3>1 DEF EndedHoldsNone
  <2>2. CASE commitTransaction(f)
    BY <1>3, <2>1, <2>2 DEF commitTransaction, isStarting
  <2>3. CASE abortTransaction(f)
    BY <1>3, <2>1, <2>3 DEF abortTransaction, abortStarting, isStarting
  <2>4. CASE endSession(f)
    <3>1. CASE ~inTransaction /\ UNCHANGED <<state, scope>>
      BY <2>1, <3>1 DEF inTransaction, isActive, ACTIVE_STATES, isStarting
    <3>2. CASE abortStarting
      BY <2>1, <3>2 DEF abortStarting, isStarting
    <3>3. CASE state = TransactionInProgress /\ scope = undefined
               /\ UNCHANGED <<state, scope>>
      BY <3>3 DEF EndedHoldsNone, isStarting
    <3>4. CASE takeScope(f, "cancel", "ending")
      BY <1>3, <3>4
    <3>5. QED
      BY <2>4, <3>1, <3>2, <3>3, <3>4 DEF endSession
  <2>5. QED
    BY <1>4, <2>2, <2>3, <2>4
<1>5. ASSUME NEW f \in Flows, withCommitBudget(f) PROVE EndedHoldsNone'
  <2>1. scope = undefined
    BY <1>5, SettlesAlone DEF withCommitBudget, settling
  <2>2. QED
    BY <1>5, <2>1 DEF withCommitBudget, EndedHoldsNone, isStarting
<1>6. ASSUME NEW f \in Flows, sessionReleased(f) PROVE EndedHoldsNone'
  BY <1>6 DEF sessionReleased, released, EndedHoldsNone, ended, isStarting
<1>7. ASSUME NEW a \in Begins, beginSettles(a) PROVE EndedHoldsNone'
  <2>1. UNCHANGED <<hasEnded, flow>>
    BY <1>7 DEF beginSettles, beginAdopted, beginDiscarded, beginRejected, session
  <2>2. ended' => ended
    BY <2>1, NobodyEnds
  <2>3. CASE beginAdopted(a)
    BY <2>2, <2>3 DEF beginAdopted, EndedHoldsNone
  <2>4. CASE beginDiscarded(a) \/ beginRejected(a)
    BY <2>2, <2>4, EndedKept DEF beginDiscarded, beginRejected, session, isStarting
  <2>5. QED
    BY <1>7, <2>3, <2>4 DEF beginSettles
<1>8. ASSUME NEW a \in Begins, answerStatement(a) PROVE EndedHoldsNone'
  <2>1. \A g \in Flows : flow'[g] = flow[g] \/ flow'[g] # Releasing
    BY <1>8 DEF answerStatement, IInv, TypeOK, FlowStates, Releasing
  <2>2. QED
    BY <1>8, <2>1, NobodyEnds, EndedKept DEF answerStatement, session, isStarting
<1>9. ASSUME NEW a \in Begins, answerCommit(a) \/ answerCancel(a) PROVE EndedHoldsNone'
  <2>1. line[a] # << >> /\ isSettle(Head(line[a]))
    BY <1>9 DEF answerCommit, answerCancel, answers, isSettle
  <2>2. 1 \in 1..Len(line[a]) /\ Head(line[a]) = line[a][1] /\ Head(line[a]) \in Jobs
    <3>1. line[a] \in Seq(Jobs)
      BY LineElements DEF IInv
    <3>2. QED
      BY <2>1, <3>1, TailElements
  <2>3. CASE Head(line[a]).by = Nobody
    <3>1. UNCHANGED <<state, scope, hasEnded, flow>>
      BY <1>9, <2>3 DEF answerCommit, answerCancel, commitSettled
    <3>2. QED
      BY <3>1, NobodyEnds, EndedKept DEF isStarting
  <2>4. CASE Head(line[a]).by # Nobody
    <3>1. settling(Head(line[a]).by) /\ Head(line[a]).by \in Flows
      BY <2>1, <2>2, <2>4 DEF IInv, JobsOK, jobOK, Jobs, isSettle
    <3>2. scope = undefined
      BY <3>1, SettlesAlone
    <3>3. scope' = undefined /\ ~isStarting(state)'
      BY <1>9, <2>4, <3>2 DEF answerCommit, answerCancel, commitSettled, isStarting
    <3>4. QED
      BY <3>3 DEF EndedHoldsNone
  <2>5. QED
    BY <2>3, <2>4
<1>10. CASE UNCHANGED vars
  <2>1. UNCHANGED <<state, scope, hasEnded, flow>>
    BY <1>10 DEF vars, session
  <2>2. QED
    BY <2>1, NobodyEnds, EndedKept DEF isStarting
<1>11. QED
  BY <1>1, <1>2, <1>4, <1>5, <1>6, <1>7, <1>8, <1>9, <1>10 DEF Next, answer

\* A session that has ended has no transaction and will be given none, when no
\* transaction is started while calls of the session, its end among them, are under
\* way. Nothing is assumed of the rest: the end may meet an acquisition in flight, a
\* commit, an abort or another end.
THEOREM EndedForGood == ASSUME ~OverlapsStart PROVE Spec => []EndedSessionHoldsNone
<1>1. Init => EndedHoldsNone
  BY DEF Init, EndedHoldsNone, isStarting
<1>2. IInv /\ EndedHoldsNone /\ [Next]_vars => EndedHoldsNone'
  BY StepKeepsEnded
<1>3. EndedHoldsNone => EndedSessionHoldsNone
  BY DEF EndedHoldsNone, ended, EndedSessionHoldsNone
<1>4. QED
  BY <1>1, <1>2, <1>3, Invariance, PTL DEF Spec
=============================================================================
