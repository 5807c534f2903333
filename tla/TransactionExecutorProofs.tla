---------------------- MODULE TransactionExecutorProofs ----------------------
(***************************************************************************)
(* The serial queue of a transaction, for any number of statements,        *)
(* commits and cancels. IInv says what the chain on `tail` establishes:    *)
(* the unsettled calls are on it in call order, only its head can be with  *)
(* the handle, and whatever has started finds all its predecessors settled.*)
(***************************************************************************)
EXTENDS TransactionExecutor, TLAPS

settled(c)   == phase[c] \in {"ok", "failed", "refused"}
unsettled(c) == phase[c] \notin {"idle", "ok", "failed", "refused"}

TicketsOK ==
    /\ \A c \in Calls : ticket[c] <= made /\ (ticket[c] = 0 <=> phase[c] = "idle")
    /\ \A c, d \in Calls : ticket[c] = ticket[d] /\ c # d => ticket[c] = 0

\* The chain holds the unsettled calls, in call order.
TailOK ==
    /\ \A i, j \in 1..Len(tail) : i < j => ticket[tail[i]] < ticket[tail[j]]
    /\ \A i \in 1..Len(tail) : unsettled(tail[i])
    /\ \A c \in Calls : unsettled(c) => \E i \in 1..Len(tail) : tail[i] = c

OnlyHeadStarted == \A c \in Calls : onHandle(c) => atHead(c)

\* A call that has started, or has settled, has only settled predecessors.
PredecessorsSettled ==
    \A c, d \in Calls :
        phase[c] \notin {"idle", "queued"} /\ 0 < ticket[d] /\ ticket[d] < ticket[c]
        => settled(d)

LiveMeansOpen ==
    /\ isLive => server = "open"
    /\ \A c \in Statements : onHandle(c) => isLive
    /\ \A c \in Calls : phase[c] = "sent" => server = "open"

\* A settle spends the handle as soon as it is with it.
SettlesSpend == \A c \in Settles : onHandle(c) => ~isLive

AppliedOK ==
    /\ \A i \in 1..Len(applied) : phase[applied[i]] \in {"performed", "ok", "failed"}
    /\ AppliedInCallOrder

IInv == /\ TypeOK
        /\ TicketsOK
        /\ TailOK
        /\ OnlyHeadStarted
        /\ PredecessorsSettled
        /\ LiveMeansOpen
        /\ SettlesSpend
        /\ AppliedOK

-----------------------------------------------------------------------------
(* Facts about the chain *)

\* The head of the chain that is not empty is one of its calls, and leaving the
\* chain by its head makes it one shorter.
LEMMA TailElements ==
    ASSUME NEW S, NEW q \in Seq(S), q # << >>
    PROVE  /\ Tail(q) \in Seq(S)
           /\ Head(q) = q[1]
           /\ Head(q) \in S
           /\ Len(q) \in Nat /\ Len(q) >= 1
           /\ Len(Tail(q)) = Len(q) - 1
           /\ \A i \in 1..Len(Tail(q)) : i + 1 \in 1..Len(q) /\ Tail(q)[i] = q[i + 1]
<1>1. Len(q) \in Nat /\ Len(q) >= 1
  BY SMT
<1>2. Len(Tail(q)) = Len(q) - 1 /\ Tail(q) \in Seq(S)
  BY SMT
<1>3. Head(q) = q[1] /\ q[1] \in S
  BY <1>1, SMT
<1>4. \A i \in 1..Len(Tail(q)) : i + 1 \in 1..Len(q) /\ Tail(q)[i] = q[i + 1]
  BY <1>1, <1>2, SMT
<1>5. QED
  BY <1>1, <1>2, <1>3, <1>4

\* A call that joins the chain stands at its end, and moves no other.
LEMMA AppendElements ==
    ASSUME NEW S, NEW q \in Seq(S), NEW e \in S
    PROVE  /\ Append(q, e) \in Seq(S)
           /\ Len(q) \in Nat
           /\ Len(Append(q, e)) = Len(q) + 1
           /\ Append(q, e)[Len(q) + 1] = e
           /\ \A i \in 1..Len(q) : Append(q, e)[i] = q[i]
  BY SMT

\* The calls are the statements and the settles, and no call is both.
LEMMA KindsOfCalls ==
    /\ Calls = Statements \cup Settles
    /\ Statements \cap Settles = {}
  BY KindsDisjoint DEF Calls, Settles

\* The invariant holds of the steps a call takes without joining or leaving the
\* chain: it has to be kept only by the phase and by what the server did.
LEMMA MovesKeepChain ==
    ASSUME IInv, NEW c \in Calls, NEW p \in {"sent", "performed", "rejected"},
           atHead(c), unsettled(c),
           phase' = [phase EXCEPT ![c] = p],
           UNCHANGED <<tail, made, ticket>>
    PROVE  /\ TicketsOK'
           /\ TailOK'
           /\ OnlyHeadStarted'
           /\ PredecessorsSettled'
           /\ phase' \in [Calls -> Phases]
<1> USE DEF IInv, unsettled, settled, onHandle
<1>1. phase' \in [Calls -> Phases]
  BY DEF TypeOK, Phases
<1>2. /\ \A d \in Calls : d # c => phase'[d] = phase[d]
      /\ phase'[c] = p /\ p \notin {"idle", "queued", "ok", "failed", "refused"}
      /\ phase[c] \notin {"idle", "ok", "failed", "refused"}
  BY DEF TypeOK
<1>3. TicketsOK'
  BY <1>2 DEF TicketsOK
<1>4. tail \in Seq(Calls) /\ \A i \in 1..Len(tail) : tail[i] \in Calls
  BY SMT DEF TypeOK
<1>5. TailOK'
  BY <1>2, <1>4 DEF TailOK
<1>6. OnlyHeadStarted'
  BY <1>2 DEF OnlyHeadStarted, atHead
<1>7. PredecessorsSettled'
  <2> SUFFICES ASSUME NEW x \in Calls, NEW d \in Calls,
                      phase'[x] \notin {"idle", "queued"},
                      0 < ticket[d], ticket[d] < ticket[x]
               PROVE  settled(d)'
    BY DEF PredecessorsSettled
  <2>1. settled(d)
    <3>1. CASE x # c
      BY <3>1, <1>2 DEF PredecessorsSettled
    <3>2. CASE x = c
      <4>1. c = tail[1] /\ Len(tail) \in Nat
        BY <1>4, TailElements DEF atHead
      <4>2. ASSUME unsettled(d) PROVE FALSE
        <5>1. PICK i \in 1..Len(tail) : tail[i] = d
          BY <4>2 DEF TailOK
        <5>2. i # 1
          BY <5>1, <4>1, <3>2 DEF TypeOK
        <5>3. ticket[c] < ticket[d]
          BY <5>1, <5>2, <4>1 DEF TailOK
        <5>4. QED
          BY <5>3, <3>2 DEF TypeOK
      <4>3. phase[d] # "idle"
        BY DEF TicketsOK, TypeOK
      <4>4. QED
        BY <4>2, <4>3
    <3>3. QED
      BY <3>1, <3>2
  <2>2. d # c
    BY <2>1, <1>2
  <2>3. QED
    BY <2>1, <2>2, <1>2
<1>8. QED
  BY <1>1, <1>3, <1>5, <1>6, <1>7

\* And of the steps with which the head of the chain settles.
LEMMA SettlesKeepChain ==
    ASSUME IInv, NEW c \in Calls, NEW p \in {"ok", "failed", "refused"},
           atHead(c), unsettled(c),
           settle(c, p),
           UNCHANGED <<made, ticket>>
    PROVE  /\ TicketsOK'
           /\ TailOK'
           /\ OnlyHeadStarted'
           /\ PredecessorsSettled'
           /\ phase' \in [Calls -> Phases]
           /\ tail' \in Seq(Calls)
           /\ \A d \in Calls : ~onHandle(d)'
<1> USE DEF IInv, unsettled, settled, onHandle
<1>1. phase' \in [Calls -> Phases]
  BY DEF TypeOK, Phases, settle
<1>2. /\ \A d \in Calls : d # c => phase'[d] = phase[d]
      /\ phase'[c] = p /\ p \notin {"idle", "queued", "sent", "performed", "rejected"}
      /\ phase[c] \notin {"idle", "ok", "failed", "refused"}
  BY DEF TypeOK, settle
<1>3. TicketsOK'
  BY <1>2 DEF TicketsOK
<1>4. /\ tail' = Tail(tail) /\ tail' \in Seq(Calls)
      /\ Len(tail) \in Nat /\ Len(tail) >= 1 /\ c = tail[1]
      /\ Len(tail') = Len(tail) - 1
      /\ \A i \in 1..Len(tail') : i + 1 \in 1..Len(tail) /\ tail'[i] = tail[i + 1]
  <2>1. tail \in Seq(Calls) /\ tail # << >> /\ c = Head(tail) /\ tail' = Tail(tail)
    BY DEF TypeOK, atHead, settle
  <2>2. QED
    BY <2>1, TailElements
<1>5. \A i \in 1..Len(tail) : tail[i] \in Calls
  BY SMT DEF TypeOK
<1>6. \A i \in 1..Len(tail) : i # 1 => ticket[c] < ticket[tail[i]]
  BY <1>4, <1>5 DEF TailOK
<1>7. TailOK'
  <2>1. \A i, j \in 1..Len(tail') : i < j => ticket'[tail'[i]] < ticket'[tail'[j]]
    <3> SUFFICES ASSUME NEW i \in 1..Len(tail'), NEW j \in 1..Len(tail'), i < j
                 PROVE  ticket[tail'[i]] < ticket[tail'[j]]
      OBVIOUS
    <3>1. i + 1 \in 1..Len(tail) /\ j + 1 \in 1..Len(tail) /\ i + 1 < j + 1
      BY <1>4
    <3>2. QED
      BY <3>1, <1>4 DEF TailOK
  <2>2. \A i \in 1..Len(tail') :
             phase'[tail'[i]] \notin {"idle", "ok", "failed", "refused"}
    <3> SUFFICES ASSUME NEW i \in 1..Len(tail')
                 PROVE  phase'[tail'[i]] \notin {"idle", "ok", "failed", "refused"}
      OBVIOUS
    <3>1. /\ i + 1 \in 1..Len(tail) /\ i + 1 # 1 /\ tail'[i] = tail[i + 1]
          /\ tail[i + 1] \in Calls
      BY <1>4, <1>5
    <3>2. ticket[c] < ticket[tail[i + 1]]
      BY <3>1, <1>6
    <3>3. tail[i + 1] # c
      BY <3>2 DEF TypeOK
    <3>4. phase'[tail[i + 1]] = phase[tail[i + 1]]
      BY <3>3, <3>1, <1>2
    <3>5. unsettled(tail[i + 1])
      BY <3>1 DEF TailOK
    <3>6. QED
      BY <3>1, <3>4, <3>5
  <2>3. \A d \in Calls : unsettled(d)' => \E i \in 1..Len(tail') : tail'[i] = d
    <3> SUFFICES ASSUME NEW d \in Calls, unsettled(d)'
                 PROVE  \E i \in 1..Len(tail') : tail'[i] = d
      OBVIOUS
    <3>1. d # c /\ unsettled(d)
      BY <1>2
    <3>2. PICK j \in 1..Len(tail) : tail[j] = d
      BY <3>1 DEF TailOK
    <3>3. j - 1 \in 1..Len(tail') /\ j = (j - 1) + 1
      BY <3>1, <3>2, <1>4
    <3>4. tail'[j - 1] = d
      BY <3>2, <3>3, <1>4
    <3>5. QED
      BY <3>3, <3>4
  <2>4. QED
    BY <2>1, <2>2, <2>3 DEF TailOK
<1>8. \A d \in Calls : ~onHandle(d)'
  BY <1>2 DEF OnlyHeadStarted, atHead
<1>9. OnlyHeadStarted'
  BY <1>8 DEF OnlyHeadStarted
<1>10. PredecessorsSettled'
  <2> SUFFICES ASSUME NEW x \in Calls, NEW d \in Calls,
                      phase'[x] \notin {"idle", "queued"},
                      0 < ticket[d], ticket[d] < ticket[x]
               PROVE  settled(d)'
    BY DEF PredecessorsSettled
  <2>1. CASE x # c
    BY <2>1, <1>2 DEF PredecessorsSettled
  <2>2. CASE x = c
    <3>1. ASSUME unsettled(d) PROVE FALSE
      <4>1. PICK i \in 1..Len(tail) : tail[i] = d
        BY <3>1 DEF TailOK
      <4>2. d # c
        BY <2>2 DEF TypeOK
      <4>3. ticket[c] < ticket[d]
        BY <4>1, <4>2, <1>4, <1>6
      <4>4. QED
        BY <4>3, <2>2 DEF TypeOK
    <3>2. phase[d] # "idle"
      BY DEF TicketsOK, TypeOK
    <3>3. settled(d) /\ d # c
      BY <3>1, <3>2, <2>2 DEF TypeOK
    <3>4. QED
      BY <3>3, <1>2
  <2>3. QED
    BY <2>1, <2>2
<1>11. QED
  BY <1>1, <1>3, <1>4, <1>7, <1>8, <1>9, <1>10

-----------------------------------------------------------------------------
(* The invariant *)

\* The invariant holds of a handle nothing has been asked of yet.
LEMMA InitIInv == Init => IInv
<1> SUFFICES ASSUME Init PROVE IInv
  OBVIOUS
<1> USE DEF Init, unsettled, settled, onHandle
<1>1. TypeOK
  BY DEF TypeOK, Phases
<1>2. TicketsOK /\ TailOK /\ OnlyHeadStarted /\ PredecessorsSettled
  BY DEF TicketsOK, TailOK, OnlyHeadStarted, PredecessorsSettled
<1>3. LiveMeansOpen /\ SettlesSpend /\ AppliedOK
  BY DEF LiveMeansOpen, SettlesSpend, AppliedOK, AppliedInCallOrder, Calls, Settles
<1>4. QED
  BY <1>1, <1>2, <1>3 DEF IInv

\* A statement that takes effect is the newest one that has.
LEMMA AppliedGrows ==
    ASSUME IInv, NEW c \in Statements,
           phase[c] = "sent", atHead(c),
           phase' = [phase EXCEPT ![c] = "performed"],
           applied' = Append(applied, c),
           UNCHANGED ticket
    PROVE  AppliedOK' /\ applied' \in Seq(Statements)
<1> USE DEF IInv, settled
<1>1. c \in Calls
  BY DEF Calls
<1>2. /\ applied' \in Seq(Statements)
      /\ Len(applied) \in Nat
      /\ Len(applied') = Len(applied) + 1
      /\ applied'[Len(applied) + 1] = c
      /\ \A i \in 1..Len(applied) : applied'[i] = applied[i]
  BY AppendElements DEF TypeOK
<1>3. \A i \in 1..Len(applied) : applied[i] \in Statements /\ applied[i] \in Calls
  BY SMT DEF TypeOK, Calls
<1>4. \A i \in 1..Len(applied) :
          /\ applied[i] # c
          /\ phase'[applied[i]] \in {"performed", "ok", "failed"}
          /\ ticket[applied[i]] < ticket[c]
  <2> SUFFICES ASSUME NEW i \in 1..Len(applied), NEW x, x = applied[i], x \in Calls
               PROVE  /\ x # c
                      /\ phase'[x] \in {"performed", "ok", "failed"}
                      /\ ticket[x] < ticket[c]
    BY <1>3
  <2>1. phase[x] \in {"performed", "ok", "failed"}
    BY DEF AppliedOK
  <2>2. x # c /\ phase'[x] = phase[x]
    BY <2>1, <1>1 DEF TypeOK
  <2>3. ticket[c] > 0 /\ ticket[x] \in Nat /\ ticket[c] \in Nat
    BY <1>1 DEF TicketsOK, TypeOK
  <2>4. ~(ticket[c] < ticket[x])
    BY <2>1, <2>3, <1>1 DEF PredecessorsSettled
  <2>5. ticket[c] # ticket[x]
    BY <2>2, <2>3, <1>1 DEF TicketsOK
  <2>6. QED
    BY <2>1, <2>2, <2>3, <2>4, <2>5
<1>5. phase'[c] = "performed"
  BY <1>1 DEF TypeOK
<1>6. AppliedInCallOrder'
  <2> SUFFICES ASSUME NEW i \in 1..Len(applied'), NEW j \in 1..Len(applied'), i < j
               PROVE  ticket[applied'[i]] < ticket[applied'[j]]
    BY DEF AppliedInCallOrder
  <2>1. i \in 1..Len(applied) /\ (j \in 1..Len(applied) \/ j = Len(applied) + 1)
    BY <1>2
  <2>2. CASE j \in 1..Len(applied)
    BY <2>1, <2>2, <1>2 DEF AppliedOK, AppliedInCallOrder
  <2>3. CASE j = Len(applied) + 1
    BY <2>1, <2>3, <1>2, <1>4
  <2>4. QED
    BY <2>1, <2>2, <2>3
<1>7. \A i \in 1..Len(applied') : phase'[applied'[i]] \in {"performed", "ok", "failed"}
  <2> SUFFICES ASSUME NEW i \in 1..Len(applied')
               PROVE  phase'[applied'[i]] \in {"performed", "ok", "failed"}
    OBVIOUS
  <2>1. i \in 1..Len(applied) \/ i = Len(applied) + 1
    BY <1>2
  <2>2. QED
    BY <2>1, <1>2, <1>4, <1>5
<1>8. QED
  BY <1>2, <1>6, <1>7 DEF AppliedOK

\* Nor does any other move of a call that is not settled disturb what took effect.
LEMMA AppliedStays ==
    ASSUME IInv, NEW c \in Calls, NEW p \in Phases,
           phase' = [phase EXCEPT ![c] = p],
           \/ phase[c] \in {"queued", "sent", "rejected"}
           \/ p \in {"performed", "ok", "failed"},
           UNCHANGED <<applied, ticket>>
    PROVE  AppliedOK'
<1> USE DEF IInv
<1>1. \A i \in 1..Len(applied) : applied[i] \in Calls
  BY SMT DEF TypeOK, Calls
<1>2. \A i \in 1..Len(applied) : phase'[applied[i]] \in {"performed", "ok", "failed"}
  BY <1>1 DEF AppliedOK, TypeOK
<1>3. AppliedInCallOrder'
  BY DEF AppliedOK, AppliedInCallOrder
<1>4. QED
  BY <1>2, <1>3 DEF AppliedOK

\* A call that joins the chain (the executor's enqueue) keeps the invariant: its
\* ticket is the next one, and it stands behind everything unsettled.
LEMMA EnqueueIInv ==
    ASSUME IInv, NEW c \in Calls, enqueue(c)
    PROVE  IInv'
<1> USE DEF IInv, enqueue, unsettled, settled, onHandle
<1>1. /\ tail' \in Seq(Calls)
      /\ Len(tail) \in Nat
      /\ Len(tail') = Len(tail) + 1
      /\ tail'[Len(tail) + 1] = c
      /\ \A i \in 1..Len(tail) : tail'[i] = tail[i]
  BY AppendElements DEF TypeOK
<1>2. TypeOK'
  BY <1>1 DEF TypeOK, Phases
<1>3. /\ \A d \in Calls : d # c => phase'[d] = phase[d] /\ ticket'[d] = ticket[d]
      /\ phase[c] = "idle" /\ phase'[c] = "queued"
      /\ ticket[c] = 0 /\ ticket'[c] = made + 1
      /\ \A d \in Calls : ticket[d] \in Nat /\ ticket[d] <= made
  BY DEF TypeOK, TicketsOK
<1>4. \A i \in 1..Len(tail) : tail[i] \in Calls /\ tail[i] # c
  <2>1. \A i \in 1..Len(tail) : tail[i] \in Calls
    BY SMT DEF TypeOK
  <2>2. QED
    BY <2>1, <1>3 DEF TailOK
<1>5. TicketsOK'
  BY <1>2, <1>3 DEF TicketsOK, TypeOK
<1>6. TailOK'
  <2>1. \A i, j \in 1..Len(tail') : i < j => ticket'[tail'[i]] < ticket'[tail'[j]]
    <3> SUFFICES ASSUME NEW i \in 1..Len(tail'), NEW j \in 1..Len(tail'), i < j
                 PROVE  ticket'[tail'[i]] < ticket'[tail'[j]]
      OBVIOUS
    <3>1. i \in 1..Len(tail) /\ (j \in 1..Len(tail) \/ j = Len(tail) + 1)
      <4>1. /\ Len(tail) \in Nat /\ Len(tail') = Len(tail) + 1
            /\ i \in 1..Len(tail') /\ j \in 1..Len(tail') /\ i < j
        BY <1>1
      <4> HIDE DEF IInv, enqueue
      <4>2. QED
        BY <4>1
    <3>2. ticket'[tail'[i]] = ticket[tail[i]] /\ ticket[tail[i]] <= made
      BY <3>1, <1>1, <1>3, <1>4
    <3>3. CASE j \in 1..Len(tail)
      BY <3>1, <3>3, <1>1, <1>3, <1>4 DEF TailOK
    <3>4. CASE j = Len(tail) + 1
      BY <3>2, <3>4, <1>1, <1>3, <1>4, <3>1 DEF TypeOK
    <3>5. QED
      BY <3>1, <3>3, <3>4
  <2>2. \A i \in 1..Len(tail') :
            phase'[tail'[i]] \notin {"idle", "ok", "failed", "refused"}
    <3> SUFFICES ASSUME NEW i \in 1..Len(tail')
                 PROVE  phase'[tail'[i]] \notin {"idle", "ok", "failed", "refused"}
      OBVIOUS
    <3>1. CASE i \in 1..Len(tail)
      BY <3>1, <1>1, <1>3, <1>4 DEF TailOK
    <3>2. CASE i = Len(tail) + 1
      BY <3>2, <1>1, <1>3
    <3>3. QED
      BY <3>1, <3>2, <1>1
  <2>3. \A d \in Calls : unsettled(d)' => \E i \in 1..Len(tail') : tail'[i] = d
    <3> SUFFICES ASSUME NEW d \in Calls, unsettled(d)'
                 PROVE  \E i \in 1..Len(tail') : tail'[i] = d
      OBVIOUS
    <3>1. CASE d = c
      BY <3>1, <1>1
    <3>2. CASE d # c
      <4>1. PICK i \in 1..Len(tail) : tail[i] = d
        BY <3>2, <1>3 DEF TailOK
      <4>2. i \in 1..Len(tail') /\ tail'[i] = d
        BY <4>1, <1>1
      <4>3. QED
        BY <4>2
    <3>3. QED
      BY <3>1, <3>2
  <2>4. QED
    BY <2>1, <2>2, <2>3 DEF TailOK
<1>7. OnlyHeadStarted'
  <2> SUFFICES ASSUME NEW d \in Calls, onHandle(d)'
               PROVE  atHead(d)'
    BY DEF OnlyHeadStarted
  <2>1. d # c /\ onHandle(d)
    BY <1>3
  <2>2. tail # << >> /\ d = Head(tail)
    BY <2>1 DEF OnlyHeadStarted, atHead
  <2>3. tail' # << >> /\ Head(tail') = Head(tail)
    BY <2>2, SMT DEF TypeOK
  <2>4. QED
    BY <2>2, <2>3 DEF atHead
<1>8. PredecessorsSettled'
  <2> SUFFICES ASSUME NEW x \in Calls, NEW d \in Calls,
                      phase'[x] \notin {"idle", "queued"},
                      0 < ticket'[d], ticket'[d] < ticket'[x]
               PROVE  settled(d)'
    BY DEF PredecessorsSettled
  <2>1. x # c /\ d # c
    BY <1>3 DEF TypeOK
  <2>2. QED
    BY <2>1, <1>3 DEF PredecessorsSettled
<1>9. LiveMeansOpen' /\ SettlesSpend'
  BY <1>3 DEF LiveMeansOpen, SettlesSpend, Calls, Settles
<1>10. AppliedOK'
  <2>1. \A i \in 1..Len(applied) : applied[i] \in Calls
    BY SMT DEF TypeOK, Calls
  <2>2. \A i \in 1..Len(applied) : applied[i] # c
    BY <1>3 DEF AppliedOK
  <2>3. QED
    BY <2>1, <2>2, <1>3 DEF AppliedOK, AppliedInCallOrder
<1>11. QED
  BY <1>2, <1>5, <1>6, <1>7, <1>8, <1>9, <1>10

\* The head's start keeps the invariant: whatever it sends to the handle finds
\* every call made before it settled, and a settle spends the handle.
LEMMA DispatchIInv ==
    ASSUME IInv, NEW c \in Calls, dispatch(c)
    PROVE  IInv'
<1> USE DEF IInv, dispatch
<1>1. /\ TicketsOK' /\ TailOK' /\ OnlyHeadStarted' /\ PredecessorsSettled'
      /\ phase' \in [Calls -> Phases]
  BY MovesKeepChain DEF unsettled
<1>2. TypeOK'
  BY <1>1 DEF TypeOK
<1>3. \A d \in Calls : d # c => ~onHandle(d) /\ phase'[d] = phase[d]
  BY DEF OnlyHeadStarted, atHead, onHandle, TypeOK
<1>4. LiveMeansOpen' /\ SettlesSpend'
  BY <1>3, KindsOfCalls DEF LiveMeansOpen, SettlesSpend, onHandle, TypeOK
<1>5. AppliedOK'
  BY AppliedStays DEF Phases
<1>6. QED
  BY <1>1, <1>2, <1>4, <1>5

\* assertLive, reply and replyLost: the head settles.
LEMMA SettleIInv ==
    ASSUME IInv, NEW c \in Calls, assertLive(c) \/ reply(c) \/ replyLost(c)
    PROVE  IInv'
<1> USE DEF IInv, assertLive, reply, replyLost
<1>1. PICK p \in {"ok", "failed", "refused"} :
          /\ atHead(c) /\ unsettled(c) /\ settle(c, p)
          /\ phase[c] = "queued" \/ p \in {"ok", "failed"}
          /\ UNCHANGED <<isLive, made, ticket, server, applied>>
  BY DEF unsettled, onHandle
<1>2. /\ TicketsOK' /\ TailOK' /\ OnlyHeadStarted' /\ PredecessorsSettled'
      /\ phase' \in [Calls -> Phases] /\ tail' \in Seq(Calls)
      /\ \A d \in Calls : ~onHandle(d)'
  <2> HIDE DEF assertLive, reply, replyLost
  <2>1. QED
    BY <1>1, SettlesKeepChain
<1>3. TypeOK'
  BY <1>1, <1>2 DEF TypeOK
<1>4. LiveMeansOpen' /\ SettlesSpend'
  BY <1>1, <1>2 DEF LiveMeansOpen, SettlesSpend, onHandle, Calls, Settles
<1>5. AppliedOK'
  BY <1>1, AppliedStays DEF Phases, settle
<1>6. QED
  BY <1>2, <1>3, <1>4, <1>5

\* The server performs or rejects the call that is with the handle.
LEMMA ServerIInv ==
    ASSUME IInv, NEW c \in Calls, Server(c)
    PROVE  IInv'
<1> USE DEF IInv, Server, serverRuns, serverCommits, serverCancels
<1>1. PICK p \in {"performed", "rejected"} :
          /\ phase[c] = "sent"
          /\ phase' = [phase EXCEPT ![c] = p]
          /\ UNCHANGED <<isLive, tail, made, ticket>>
  BY KindsOfCalls
<1>2. atHead(c) /\ unsettled(c)
  BY <1>1 DEF OnlyHeadStarted, onHandle, unsettled
<1>3. /\ TicketsOK' /\ TailOK' /\ OnlyHeadStarted' /\ PredecessorsSettled'
      /\ phase' \in [Calls -> Phases]
  <2> HIDE DEF Server
  <2>1. QED
    BY <1>1, <1>2, MovesKeepChain
<1>4. server' \in {"open", "committed", "cancelled"}
  BY DEF TypeOK
<1>5. AppliedOK' /\ applied' \in Seq(Statements)
  <2>1. CASE UNCHANGED applied
    BY <2>1, <1>1, AppliedStays DEF Phases, TypeOK
  <2>2. CASE applied' # applied
    <3>1. /\ c \in Statements /\ applied' = Append(applied, c)
          /\ phase' = [phase EXCEPT ![c] = "performed"]
      BY <2>2
    <3>2. QED
      BY <3>1, <1>1, <1>2, AppliedGrows
  <2>3. QED
    BY <2>1, <2>2
<1>6. TypeOK'
  BY <1>1, <1>3, <1>4, <1>5 DEF TypeOK
<1>7. \A d \in Calls : d # c => ~onHandle(d) /\ phase'[d] = phase[d]
  BY <1>1, <1>2 DEF OnlyHeadStarted, atHead, TypeOK
<1>8. LiveMeansOpen' /\ SettlesSpend'
  <2>1. onHandle(c) /\ phase'[c] # "sent" /\ phase[c] = "sent"
    BY <1>1 DEF onHandle, TypeOK
  <2>2. c \in Statements => isLive /\ server' = server
    BY <2>1, KindsOfCalls DEF LiveMeansOpen, Settles
  <2>3. c \notin Statements => c \in Settles /\ ~isLive
    BY <2>1, KindsOfCalls DEF SettlesSpend
  <2>4. SettlesSpend'
    BY <1>1, <1>7, <2>2, <2>3, KindsOfCalls DEF SettlesSpend, onHandle
  <2>5. \A d \in Calls : phase'[d] # "sent"
    BY <1>7, <2>1 DEF onHandle
  <2>6. (isLive => server' = "open") /\ \A d \in Statements : onHandle(d)' => isLive
    BY <1>7, <2>2, <2>3, KindsOfCalls DEF LiveMeansOpen, onHandle
  <2>7. QED
    BY <1>1, <2>4, <2>5, <2>6 DEF LiveMeansOpen
<1>9. QED
  BY <1>3, <1>5, <1>6, <1>8

\* The inductive invariant holds of every state the executor reaches.
THEOREM Invariance == Spec => []IInv
<1>1. Init => IInv
  BY InitIInv
<1>2. IInv /\ [Next]_vars => IInv'
  <2> SUFFICES ASSUME IInv, [Next]_vars PROVE IInv'
    OBVIOUS
  <2>1. ASSUME NEW c \in Calls, enqueue(c) PROVE IInv'
    BY <2>1, EnqueueIInv
  <2>2. ASSUME NEW c \in Calls, dispatch(c) PROVE IInv'
    BY <2>2, DispatchIInv
  <2>3. ASSUME NEW c \in Calls, assertLive(c) \/ reply(c) \/ replyLost(c) PROVE IInv'
    BY <2>3, SettleIInv
  <2>4. ASSUME NEW c \in Calls, Server(c) PROVE IInv'
    BY <2>4, ServerIInv
  <2>5. CASE UNCHANGED vars
    <3>1. UNCHANGED <<isLive, tail, phase, made, ticket, server, applied>>
      BY <2>5 DEF vars
    <3>2. QED
      BY <3>1 DEF IInv, TypeOK, TicketsOK, TailOK, OnlyHeadStarted, PredecessorsSettled,
                  LiveMeansOpen, AppliedOK, AppliedInCallOrder, SettlesSpend,
                  onHandle, atHead, settled, unsettled
  <2>6. QED
    BY <2>1, <2>2, <2>3, <2>4, <2>5 DEF Next, Driver
<1>3. QED
  BY <1>1, <1>2, PTL DEF Spec

-----------------------------------------------------------------------------
(* What follows from it *)

\* Every variable of the executor keeps its type, for any sets of calls.
THEOREM TypeCorrect == Spec => []TypeOK
<1>1. IInv => TypeOK
  BY DEF IInv
<1>2. QED
  BY <1>1, Invariance, PTL

\* Statements take effect in the order they were called for, however the
\* handle interleaves what it is given.
THEOREM CallOrder == Spec => []AppliedInCallOrder
<1>1. IInv => AppliedInCallOrder
  BY DEF IInv, AppliedOK
<1>2. QED
  BY <1>1, Invariance, PTL

\* A commit or cancel takes effect while no statement is with the handle, and
\* covers exactly the statements called before it.
THEOREM SettleBoundary == Spec => []SettleIsABoundary
<1>1. IInv => \A c \in Statements : server # "open" => ~onHandle(c)
  BY DEF IInv, LiveMeansOpen
<1>2. IInv => \A c \in Commits, s \in Statements :
                  /\ phase[c] \in {"sent", "performed", "ok"}
                  /\ 0 < ticket[s] /\ ticket[s] < ticket[c]
                  => phase[s] \in {"ok", "failed", "refused"}
  BY DEF IInv, PredecessorsSettled, Calls, settled
<1>3. IInv => SettleIsABoundary
  BY <1>1, <1>2 DEF SettleIsABoundary
<1>4. QED
  BY <1>3, Invariance, PTL

\* The handle is given nothing once it is spent.
THEOREM SingleUse == Spec => []SpentHandleNeverDialled
<1>1. IInv => SpentHandleNeverDialled
  BY DEF IInv, LiveMeansOpen, SpentHandleNeverDialled
<1>2. QED
  BY <1>1, Invariance, PTL

-----------------------------------------------------------------------------
(* The refinement of SerialTransaction *)

\* What the server did for the call that is with the handle: its statement is the
\* newest that took effect, and it is settled as the call asked.
ServerDid ==
    /\ \A c \in Statements :
          phase[c] = "performed" => applied # << >> /\ applied[Len(applied)] = c
    /\ \A c \in Commits : phase[c] = "performed" => server = "committed"
    /\ \A c \in Cancels : phase[c] = "performed" => server = "cancelled"
    /\ \A c \in Cancels : onHandle(c) => server \in {"open", "cancelled"}

LEMMA InitServerDid == Init => ServerDid
BY DEF Init, ServerDid, onHandle, Calls, Settles

\* Only one call is with the handle, and it is the head of the chain.
LEMMA OneOnHandle ==
    ASSUME IInv, NEW c \in Calls, atHead(c)
    PROVE  \A d \in Calls : onHandle(d) => d = c
BY DEF IInv, OnlyHeadStarted, atHead

LEMMA NextServerDid ==
    ASSUME IInv, ServerDid, NEW c \in Calls,
           enqueue(c) \/ Driver(c) \/ replyLost(c) \/ Server(c)
    PROVE  ServerDid'
<1> USE DEF IInv, TypeOK
<1>1. Statements \subseteq Calls /\ Commits \subseteq Calls /\ Cancels \subseteq Calls
  BY DEF Calls
<1>2. CASE enqueue(c)
  <2>1. \A d \in Calls : onHandle(d)' => onHandle(d) /\ phase'[d] = phase[d]
    BY <1>2 DEF enqueue, onHandle
  <2>2. UNCHANGED <<server, applied>>
    BY <1>2 DEF enqueue
  <2>3. QED
    BY <1>1, <2>1, <2>2 DEF ServerDid, onHandle
<1>3. CASE dispatch(c)
  <2>1. /\ \A d \in Calls : onHandle(d)' => d = c
        /\ phase'[c] = "sent" /\ server = "open" /\ server' = server
    BY <1>3, OneOnHandle DEF dispatch, onHandle, LiveMeansOpen
  <2>2. QED
    BY <1>1, <2>1 DEF ServerDid, onHandle
<1>4. CASE assertLive(c) \/ reply(c) \/ replyLost(c)
  <2>1. \A d \in Calls : ~onHandle(d)'
    BY <1>4, OneOnHandle DEF assertLive, reply, replyLost, settle, onHandle
  <2>2. QED
    BY <1>1, <2>1 DEF ServerDid, onHandle
<1>5. CASE Server(c)
  <2>1. phase[c] = "sent" /\ server = "open" /\ atHead(c)
    BY <1>5 DEF Server, serverRuns, serverCommits, serverCancels, LiveMeansOpen,
        OnlyHeadStarted, onHandle
  <2>2. /\ \A d \in Calls : onHandle(d)' => d = c
        /\ phase'[c] \in {"performed", "rejected"}
    BY <1>5, <2>1, OneOnHandle
       DEF Server, serverRuns, serverCommits, serverCancels, onHandle
  <2>3. CASE serverRuns(c)
    <3>1. CASE phase'[c] = "performed"
      <4>1. applied' = Append(applied, c) /\ c \in Statements /\ c \notin Settles
        BY <2>3, <3>1, KindsOfCalls DEF serverRuns
      <4>2. applied' # << >> /\ applied'[Len(applied')] = c
        BY <4>1, AppendElements
      <4>3. QED
        BY <1>1, <2>2, <4>1, <4>2 DEF ServerDid, onHandle, Settles
    <3>2. CASE phase'[c] = "rejected"
      <4>1. c \notin Cancels
        BY <2>3, KindsOfCalls DEF serverRuns, Settles
      <4>2. QED
        BY <1>1, <2>2, <3>2, <4>1 DEF ServerDid, onHandle
    <3>3. QED
      BY <2>2, <3>1, <3>2
  <2>4. CASE serverCommits(c)
    <3>1. c \in Commits /\ c \notin Statements /\ c \notin Cancels
      BY <2>4, KindsDisjoint DEF serverCommits, Settles
    <3>2. phase'[c] = "performed" => server' = "committed"
      BY <2>4 DEF serverCommits
    <3>3. QED
      BY <1>1, <2>2, <3>1, <3>2 DEF ServerDid, onHandle
  <2>5. CASE serverCancels(c)
    <3>1. c \in Cancels /\ c \notin Statements /\ c \notin Commits
      BY <2>5, KindsDisjoint DEF serverCancels, Settles
    <3>2. /\ phase'[c] = "performed" => server' = "cancelled"
          /\ server' \in {"open", "cancelled"}
      BY <2>1, <2>5 DEF serverCancels
    <3>3. QED
      BY <1>1, <2>2, <3>1, <3>2 DEF ServerDid, onHandle
  <2>6. QED
    BY <1>5, <2>3, <2>4, <2>5 DEF Server
<1>6. QED
  BY <1>2, <1>3, <1>4, <1>5 DEF Driver

\* What a caller sees of the handle, of the server and of a call.
spentSeen  == ~isLive /\ inDoubt \cap Settles = {}
serverSeen == IF inDoubt \cap Settles # {} THEN "open" ELSE server
appliedSeen ==
    IF \E c \in inDoubt \cap Statements : phase[c] = "performed"
    THEN SubSeq(applied, 1, Len(applied) - 1) ELSE applied
answerSeen ==
    [c \in Calls |-> CASE phase[c] = "idle" -> "none"
                       [] phase[c] \in {"ok", "failed", "refused"} -> phase[c]
                       [] OTHER -> "waiting"]

\* A caller sees what the server did for every call but the one that is with the handle.
SeenIsDone ==
    /\ (\A d \in Calls : ~onHandle(d)) =>
          spentSeen = ~isLive /\ serverSeen = server /\ appliedSeen = applied
    /\ \A c \in Statements : onHandle(c) =>
          /\ ~spentSeen /\ serverSeen = server
          /\ appliedSeen = IF phase[c] = "performed"
                           THEN SubSeq(applied, 1, Len(applied) - 1) ELSE applied
    /\ \A c \in Settles : onHandle(c) =>
          ~spentSeen /\ serverSeen = "open" /\ appliedSeen = applied

LEMMA Seen == IInv => SeenIsDone
<1> SUFFICES ASSUME IInv PROVE SeenIsDone
  OBVIOUS
<1>1. CASE \A d \in Calls : ~onHandle(d)
  <2>1. inDoubt = {}
    BY <1>1 DEF inDoubt
  <2>2. QED
    BY <1>1, <2>1, KindsOfCalls DEF SeenIsDone, spentSeen, serverSeen, appliedSeen
<1>2. ASSUME NEW c \in Calls, onHandle(c) PROVE SeenIsDone
  <2>1. inDoubt = {c}
    BY <1>2 DEF inDoubt, IInv, OnlyHeadStarted, atHead
  <2>2. \A d \in Calls : onHandle(d) => d = c
    BY <2>1 DEF inDoubt
  <2>3. CASE c \in Statements
    <3>1. c \notin Settles /\ isLive
      BY <1>2, <2>3, KindsOfCalls DEF IInv, LiveMeansOpen
    <3>2. inDoubt \cap Settles = {} /\ inDoubt \cap Statements = {c}
      BY <2>1, <2>3, <3>1
    <3>3. ~spentSeen /\ serverSeen = server
      BY <3>1, <3>2 DEF spentSeen, serverSeen
    <3>4. appliedSeen = IF phase[c] = "performed"
                        THEN SubSeq(applied, 1, Len(applied) - 1) ELSE applied
      BY <3>2 DEF appliedSeen
    <3>5. QED
      BY <1>2, <2>2, <3>1, <3>3, <3>4, KindsOfCalls DEF SeenIsDone
  <2>4. CASE c \in Settles
    <3>1. c \notin Statements
      BY <2>4, KindsOfCalls
    <3>2. inDoubt \cap Settles = {c} /\ inDoubt \cap Statements = {}
      BY <2>1, <2>4, <3>1
    <3>3. ~spentSeen /\ serverSeen = "open" /\ appliedSeen = applied
      BY <3>2 DEF spentSeen, serverSeen, appliedSeen
    <3>4. QED
      BY <1>2, <2>2, <3>1, <3>3, KindsOfCalls DEF SeenIsDone
  <2>5. QED
    BY <2>3, <2>4, KindsOfCalls
<1>3. QED
  BY <1>1, <1>2

\* A call that settles has its answer, and the others have theirs still.
LEMMA AnswerSettles ==
    ASSUME IInv, NEW c \in Calls, NEW how \in {"ok", "failed", "refused"},
           atHead(c), settle(c, how)
    PROVE  Serial!Leaves(c, how)
<1>1. answerSeen' = [answerSeen EXCEPT ![c] = how]
  BY DEF settle, answerSeen, IInv, TypeOK
<1>2. QED
  BY <1>1 DEF Serial!Leaves, answerSeen, settle, atHead

\* A call that only moves is waited for still.
LEMMA AnswerWaits ==
    ASSUME IInv, NEW c \in Calls, unsettled(c),
           NEW p \in {"sent", "performed", "rejected"},
           phase' = [phase EXCEPT ![c] = p]
    PROVE  answerSeen' = answerSeen
BY DEF answerSeen, unsettled, IInv, TypeOK

\* Nothing a caller sees changes.
LEMMA NothingSeen ==
    ASSUME UNCHANGED <<tail, spentSeen, serverSeen, appliedSeen, answerSeen>>
    PROVE  UNCHANGED Serial!vars
BY DEF Serial!vars, spentSeen, serverSeen, appliedSeen, answerSeen

LEMMA EnqueueJoins ==
    ASSUME IInv, NEW c \in Calls, enqueue(c)
    PROVE  Serial!Join(c)
<1>1. answerSeen[c] = "none" /\ answerSeen' = [answerSeen EXCEPT ![c] = "waiting"]
  BY DEF enqueue, answerSeen, IInv, TypeOK
<1>2. /\ \A d \in Calls : onHandle(d)' <=> onHandle(d)
      /\ \A d \in Calls : onHandle(d) => phase'[d] = phase[d]
  BY DEF enqueue, onHandle, IInv, TypeOK
<1>3. inDoubt' = inDoubt
  BY <1>2 DEF inDoubt
<1>4. \A d \in inDoubt : phase'[d] = phase[d]
  BY <1>2 DEF inDoubt
<1>5. UNCHANGED <<spentSeen, serverSeen, appliedSeen>>
  BY <1>3, <1>4 DEF enqueue, spentSeen, serverSeen, appliedSeen
<1>6. tail' = Append(tail, c)
  BY DEF enqueue
<1>7. QED
  BY <1>1, <1>5, <1>6 DEF Serial!Join, spentSeen, serverSeen, appliedSeen, answerSeen

\* What is given to the handle, and what the server does with it, is not seen yet.
LEMMA MovesUnseen ==
    ASSUME IInv, SeenIsDone, SeenIsDone', NEW c \in Calls, dispatch(c) \/ Server(c)
    PROVE  UNCHANGED Serial!vars
<1>1. CASE dispatch(c)
  <2>1. /\ \A d \in Calls : ~onHandle(d)
        /\ onHandle(c)' /\ phase'[c] = "sent" /\ unsettled(c)
        /\ isLive /\ server = "open" /\ UNCHANGED <<tail, server, applied>>
    BY <1>1, OneOnHandle DEF dispatch, onHandle, unsettled, IInv, TypeOK, LiveMeansOpen
  <2>2. answerSeen' = answerSeen
    BY <1>1, <2>1, AnswerWaits DEF dispatch
  <2>3. ~spentSeen /\ serverSeen = "open" /\ appliedSeen = applied
    BY <2>1 DEF SeenIsDone
  <2>4. ~spentSeen' /\ serverSeen' = "open" /\ appliedSeen' = applied
    BY <2>1, KindsOfCalls DEF SeenIsDone
  <2>5. UNCHANGED spentSeen
    BY <2>3, <2>4 DEF spentSeen
  <2>6. QED
    BY <2>1, <2>2, <2>3, <2>4, <2>5, NothingSeen
<1>2. CASE Server(c)
  <2>1. /\ onHandle(c) /\ onHandle(c)' /\ phase[c] = "sent" /\ unsettled(c)
        /\ UNCHANGED tail
    BY <1>2 DEF Server, serverRuns, serverCommits, serverCancels, onHandle, unsettled,
        IInv, TypeOK
  <2>2. answerSeen' = answerSeen
    BY <1>2, <2>1, AnswerWaits DEF Server, serverRuns, serverCommits, serverCancels
  <2>3. CASE c \in Statements
    <3>1. serverRuns(c)
      BY <1>2, <2>3, KindsOfCalls DEF Server, serverCommits, serverCancels, Settles
    <3>2. ~spentSeen /\ serverSeen = server /\ appliedSeen = applied
      BY <2>1, <2>3 DEF SeenIsDone
    <3>3. ~spentSeen' /\ serverSeen' = server
      BY <2>1, <2>3, <3>1 DEF SeenIsDone, serverRuns
    <3>4. appliedSeen' = applied
      <4>1. CASE phase'[c] = "performed"
        <5>1. applied' = Append(applied, c)
          BY <3>1, <4>1, <2>1 DEF serverRuns, IInv, TypeOK
        <5>2. SubSeq(applied', 1, Len(applied') - 1) = applied
          BY <2>3, <5>1 DEF IInv, TypeOK
        <5>3. QED
          BY <2>1, <2>3, <4>1, <5>2 DEF SeenIsDone
      <4>2. CASE phase'[c] # "performed"
        <5>1. applied' = applied
          BY <3>1, <4>2, <2>1 DEF serverRuns, IInv, TypeOK
        <5>2. QED
          BY <2>1, <2>3, <4>2, <5>1 DEF SeenIsDone
      <4>3. QED
        BY <4>1, <4>2
    <3>5. UNCHANGED spentSeen
      BY <3>2, <3>3 DEF spentSeen
    <3>6. QED
      BY <2>1, <2>2, <3>2, <3>3, <3>4, <3>5, NothingSeen
  <2>4. CASE c \in Settles
    <3>1. UNCHANGED applied
      BY <1>2, <2>4, KindsOfCalls DEF Server, serverRuns, serverCommits, serverCancels
    <3>2. ~spentSeen /\ serverSeen = "open" /\ appliedSeen = applied
      BY <2>1, <2>4 DEF SeenIsDone
    <3>3. ~spentSeen' /\ serverSeen' = "open" /\ appliedSeen' = applied
      BY <2>1, <2>4, <3>1 DEF SeenIsDone
    <3>4. UNCHANGED spentSeen
      BY <3>2, <3>3 DEF spentSeen
    <3>5. QED
      BY <2>1, <2>2, <3>2, <3>3, <3>4, NothingSeen
  <2>5. QED
    BY <2>3, <2>4, KindsOfCalls
<1>3. QED
  BY <1>1, <1>2

LEMMA RefusesSpent ==
    ASSUME IInv, SeenIsDone, SeenIsDone', NEW c \in Calls, assertLive(c)
    PROVE  Serial!Refuse(c)
<1>1. /\ \A d \in Calls : ~onHandle(d) /\ ~onHandle(d)'
      /\ ~isLive /\ UNCHANGED <<isLive, server, applied>>
  BY OneOnHandle DEF assertLive, settle, onHandle, IInv, TypeOK
<1>2. /\ spentSeen /\ serverSeen = server /\ appliedSeen = applied
      /\ spentSeen' /\ serverSeen' = server /\ appliedSeen' = applied
  BY <1>1 DEF SeenIsDone
<1>3. Serial!Leaves(c, "refused")
  BY AnswerSettles DEF assertLive
<1>4. UNCHANGED <<spentSeen, serverSeen, appliedSeen>>
  BY <1>2 DEF spentSeen
<1>5. QED
  BY <1>2, <1>3, <1>4 DEF Serial!Refuse, spentSeen, serverSeen, appliedSeen

\* The reply, or its loss, is where a call is served.
LEMMA RepliesServe ==
    ASSUME IInv, ServerDid, SeenIsDone, SeenIsDone', NEW c \in Calls,
           reply(c) \/ replyLost(c)
    PROVE  Serial!ServeStatement(c) \/ Serial!ServeCommit(c) \/ Serial!ServeCancel(c)
<1>1. PICK how \in {"ok", "failed"} :
          /\ settle(c, how) /\ atHead(c) /\ onHandle(c)
          /\ how = "ok" => phase[c] = "performed"
          /\ UNCHANGED <<isLive, server, applied>>
  BY DEF reply, replyLost, onHandle
<1>2. Serial!Leaves(c, how)
  BY <1>1, AnswerSettles
<1>3. \A d \in Calls : ~onHandle(d)'
  BY <1>1, OneOnHandle DEF settle, onHandle, IInv, TypeOK
<1>4. spentSeen' = ~isLive /\ serverSeen' = server /\ appliedSeen' = applied
  BY <1>1, <1>3 DEF SeenIsDone
<1>5. CASE c \in Statements
  <2>1. isLive /\ ~spentSeen /\ serverSeen = server
    BY <1>1, <1>5 DEF SeenIsDone, IInv, LiveMeansOpen
  <2>2. UNCHANGED <<spentSeen, serverSeen>>
    BY <1>4, <2>1 DEF spentSeen
  <2>3. appliedSeen = IF phase[c] = "performed"
                      THEN SubSeq(applied, 1, Len(applied) - 1) ELSE applied
    BY <1>1, <1>5 DEF SeenIsDone
  <2>4. phase[c] = "performed" => appliedSeen' = Append(appliedSeen, c)
    <3>1. SUFFICES ASSUME phase[c] = "performed"
                   PROVE  applied = Append(SubSeq(applied, 1, Len(applied) - 1), c)
      BY <1>4, <2>3
    <3>2. applied \in Seq(Statements) /\ applied # << >> /\ applied[Len(applied)] = c
      BY <1>5, <3>1 DEF ServerDid, IInv, TypeOK
    <3>3. QED
      BY <1>5, <3>2
  <2>5. phase[c] # "performed" => appliedSeen' = appliedSeen
    BY <1>4, <2>3
  <2>6. \/ how = "ok" /\ appliedSeen' = Append(appliedSeen, c)
        \/ how = "failed" /\ appliedSeen' \in {appliedSeen, Append(appliedSeen, c)}
    BY <1>1, <2>4, <2>5
  <2>7. QED
    BY <1>2, <1>5, <2>1, <2>2, <2>6
       DEF Serial!ServeStatement, spentSeen, serverSeen, appliedSeen
<1>6. CASE c \in Settles
  <2>1. ~isLive /\ ~spentSeen /\ serverSeen = "open" /\ appliedSeen = applied
    BY <1>1, <1>6 DEF SeenIsDone, IInv, SettlesSpend
  <2>2. spentSeen' /\ UNCHANGED appliedSeen
    BY <1>4, <2>1
  <2>3. CASE c \in Commits
    <3>1. \/ how = "ok" /\ serverSeen' = "committed"
          \/ how = "failed" /\ serverSeen' \in {"open", "committed", "cancelled"}
      BY <1>1, <1>4, <2>3 DEF ServerDid, IInv, TypeOK
    <3>2. QED
      BY <1>2, <2>1, <2>2, <2>3, <3>1
         DEF Serial!ServeCommit, spentSeen, serverSeen, appliedSeen
  <2>4. CASE c \in Cancels
    <3>1. \/ how = "ok" /\ serverSeen' = "cancelled"
          \/ how = "failed" /\ serverSeen' \in {"open", "cancelled"}
      BY <1>1, <1>4, <2>4 DEF ServerDid
    <3>2. QED
      BY <1>2, <2>1, <2>2, <2>4, <3>1
         DEF Serial!ServeCancel, spentSeen, serverSeen, appliedSeen
  <2>5. QED
    BY <1>6, <2>3, <2>4 DEF Settles
<1>7. QED
  BY <1>5, <1>6, KindsOfCalls

LEMMA StepImplements ==
    ASSUME IInv, ServerDid, SeenIsDone, SeenIsDone', [Next]_vars
    PROVE  [Serial!Next]_(Serial!vars)
<1>1. ASSUME NEW c \in Calls, enqueue(c) PROVE Serial!Next
  BY <1>1, EnqueueJoins DEF Serial!Next, Calls, Serial!Calls
<1>2. ASSUME NEW c \in Calls, assertLive(c) PROVE Serial!Next
  BY <1>2, RefusesSpent DEF Serial!Next, Calls, Serial!Calls
<1>3. ASSUME NEW c \in Calls, reply(c) \/ replyLost(c) PROVE Serial!Next
  BY <1>3, RepliesServe DEF Serial!Next, Calls, Serial!Calls
<1>4. ASSUME NEW c \in Calls, dispatch(c) \/ Server(c) PROVE UNCHANGED Serial!vars
  BY <1>4, MovesUnseen
<1>5. CASE UNCHANGED vars
  <2>1. inDoubt' = inDoubt /\ UNCHANGED <<isLive, tail, phase, server, applied>>
    BY <1>5 DEF vars, inDoubt, onHandle
  <2>2. UNCHANGED <<spentSeen, serverSeen, appliedSeen, answerSeen>>
    BY <2>1 DEF spentSeen, serverSeen, appliedSeen, answerSeen
  <2>3. QED
    BY <2>1, <2>2, NothingSeen
<1>6. QED
  BY <1>1, <1>2, <1>3, <1>4, <1>5 DEF Next, Driver

\* Seen from the code that calls it, the executor is SerialTransaction: one call at a
\* time, in the order they were made, each in one indivisible step, and none once a
\* commit or cancel has spent the handle, although the handle interleaves what it is
\* given and replies are lost.
THEOREM Implements == Spec => ImplementsSerialTransaction
<1>1. Init => Serial!Init
  <2> SUFFICES ASSUME Init PROVE Serial!Init
    OBVIOUS
  <2>1. inDoubt = {}
    BY DEF Init, inDoubt, onHandle
  <2>2. QED
    BY <2>1 DEF Init, Serial!Init, Calls, Serial!Calls
<1>2. Init => ServerDid
  BY InitServerDid
<1>3. IInv /\ ServerDid /\ [Next]_vars => ServerDid'
  <2>1. IInv /\ ServerDid /\ Next => ServerDid'
    BY NextServerDid DEF Next
  <2>2. ServerDid /\ UNCHANGED vars => ServerDid'
    BY DEF ServerDid, vars, onHandle
  <2>3. QED
    BY <2>1, <2>2
<1>4. IInv => SeenIsDone
  BY Seen
<1>5. IInv /\ ServerDid /\ SeenIsDone /\ SeenIsDone' /\ [Next]_vars
          => [Serial!Next]_(Serial!vars)
  BY StepImplements
<1>6. QED
  BY <1>1, <1>2, <1>3, <1>4, <1>5, Invariance, PTL
     DEF Spec, ImplementsSerialTransaction, Serial!Spec
=============================================================================
