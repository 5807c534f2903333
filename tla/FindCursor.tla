------------------------------ MODULE FindCursor ------------------------------
(***************************************************************************)
(* A FindCursor read a document at a time or whole (cursor/find-cursor.ts, *)
(* cursor/cursor-rows.ts) over the iterators that feed it                  *)
(* (surreal/row-stream.ts): a deferred one that connects first, a streamed *)
(* query inside it, and what that falls back to.                           *)
(*                                                                         *)
(* An action is the code between two awaits. An await of something already *)
(* settled is still a step: the caller goes on with its own code, which    *)
(* may abort the signal, before the read does.                             *)
(*                                                                         *)
(* The query is external: it has the rows 1..Rows, and the server may      *)
(* refuse to stream it, or fail.                                           *)
(***************************************************************************)
EXTENDS Naturals, Sequences

CONSTANTS
    Flows,          \* flows of the application that read the cursor
    Rows,           \* how many rows the query has
    MaxOpens,       \* bound: streams the cursor opens, and queries they send
    SharesCursor,   \* may a flow use the cursor while another's read is under way?
    HasSignal       \* is there an AbortSignal to abort?

ASSUME RowsAreNat == Rows \in Nat /\ MaxOpens \in Nat
ASSUME SwitchesAreBoolean == SharesCursor \in BOOLEAN /\ HasSignal \in BOOLEAN

Opens     == 1..MaxOpens
undefined == 0                  \* no stream, no source, nothing peeked
DONE      == Rows + 1           \* the step after the last row; step i is row i
Steps     == 1..DONE

VARIABLES
    aborted,    \* the signal has aborted
    closed,     \* _closed
    results,    \* results: the whole result has been read
    index,      \* index into it
    stream,     \* stream: which of the streams opened
    peeked,     \* peeked: the step read ahead
    opened,     \* streams opened so far
    source,     \* per stream: the query its deferred iterator was opened to
    finished,   \* per stream: its iterators' `finished`
    query,      \* per query: how it is being read
    sent,       \* external, per query: rows delivered so far
    flow,       \* what each flow awaits
    got,        \* history: the rows handed out since the cursor was last at its
                \*          start, a whole result apart
    failed,     \* history: a read has failed since then
    told        \* history: what each flow's last call came to

cursor  == <<aborted, closed, results, index, stream, peeked>>
streams == <<opened, source, finished, query, sent>>
history == <<got, failed, told>>
vars    == <<cursor, streams, flow, history>>

Idle  == [at |-> "idle", op |-> "none", on |-> undefined, query |-> undefined]
Reads == {"next", "hasNext", "forEach", "forAwait", "toArray", "count"}

TypeOK ==
    /\ aborted \in BOOLEAN /\ closed \in BOOLEAN /\ results \in BOOLEAN
    /\ index \in 0..Rows
    /\ stream \in Opens \cup {undefined}
    /\ peeked \in Steps \cup {undefined}
    /\ opened \in 0..MaxOpens
    /\ source \in [Opens -> Opens \cup {undefined}]
    /\ finished \in [Opens -> BOOLEAN]
    /\ query \in [Opens -> {"unused", "running", "buffered", "cancelled", "over"}]
    /\ sent \in [Opens -> 0..Rows]
    /\ flow \in [Flows ->
          [at: {"idle", "begun", "opening", "reading", "looping", "body", "loading"},
           op: Reads \cup {"none"},
           on: Opens \cup {undefined}, query: Opens \cup {undefined}]]
    /\ got \in Seq(1..Rows)
    /\ failed \in BOOLEAN
    /\ told \in [Flows -> {"nothing", "row", "end", "yes", "no", "left", "whole",
                           "count", "reason", "exhausted", "error"}]

Init ==
    /\ aborted = FALSE /\ closed = FALSE /\ results = FALSE
    /\ index = 0
    /\ stream = undefined
    /\ peeked = undefined
    /\ opened = 0
    /\ source = [s \in Opens |-> undefined]
    /\ finished = [s \in Opens |-> FALSE]
    /\ query = [q \in Opens |-> "unused"]
    /\ sent = [q \in Opens |-> 0]
    /\ flow = [f \in Flows |-> Idle]
    /\ got = << >>
    /\ failed = FALSE
    /\ told = [f \in Flows |-> "nothing"]

started == results \/ stream # undefined

goes(f, at) == flow' = [flow EXCEPT ![f].at = at]

\* A call settles, with a value or by throwing.
returns(f, answer) ==
    /\ flow' = [flow EXCEPT ![f] = Idle]
    /\ told' = [told EXCEPT ![f] = answer]

mayCall(f) ==
    /\ flow[f] = Idle
    /\ SharesCursor \/ \A g \in Flows : flow[g] = Idle

-----------------------------------------------------------------------------
\* iterator.return(): the streamed query is cancelled, a buffered one left.
returnStream ==
    IF stream = undefined THEN UNCHANGED <<finished, query>>
    ELSE /\ finished' = [finished EXCEPT ![stream] = TRUE]
         /\ query' = [q \in Opens |->
               IF q = source[stream] /\ query[q] = "running" THEN "cancelled" ELSE query[q]]

release ==
    /\ stream' = undefined
    /\ results' = FALSE
    /\ peeked' = undefined
    /\ returnStream

close ==
    /\ closed' = TRUE
    /\ release

\* The signal closes the cursor, if the cursor is still listening to it.
abort ==
    /\ HasSignal
    /\ ~aborted
    /\ aborted' = TRUE
    /\ IF closed
       THEN UNCHANGED <<closed, stream, results, peeked, finished, query>>
       ELSE close
    /\ UNCHANGED <<index, opened, source, sent, flow, history>>

callClose(f) ==
    /\ mayCall(f)
    /\ close
    /\ UNCHANGED <<aborted, index, opened, source, sent, flow, history>>

rewind(f) ==
    /\ mayCall(f)
    /\ release
    /\ index' = 0
    /\ closed' = FALSE
    /\ got' = << >>
    /\ failed' = FALSE
    /\ told' = [g \in Flows |-> "nothing"]
    /\ UNCHANGED <<aborted, opened, source, sent, flow>>

-----------------------------------------------------------------------------
(* A read is called: the signal is asked, then the flag, then it begins.   *)

refused(f) ==
    /\ mayCall(f)
    /\ \/ aborted /\ returns(f, "reason")
       \/ ~aborted /\ closed /\ returns(f, "exhausted")
    /\ UNCHANGED <<cursor, streams, got, failed>>

calls(f, op, at) ==
    /\ mayCall(f)
    /\ ~aborted /\ ~closed
    /\ flow' = [flow EXCEPT ![f] = [Idle EXCEPT !.at = at, !.op = op]]

\* next, hasNext, forEach and for await open the stream, if nothing is being
\* read yet, and await that.
begin(f, op) ==
    /\ calls(f, op, "begun")
    /\ \/ started /\ UNCHANGED <<stream, opened>>
       \/ /\ ~started
          /\ opened < MaxOpens
          /\ opened' = opened + 1
          /\ stream' = opened + 1
    /\ UNCHANGED <<aborted, closed, results, index, peeked, source, finished, query,
                   sent, history>>

\* toArray reads the rest of a stream row by row, or loads the whole result.
toArray(f) ==
    /\ ~results \/ stream # undefined
    /\ calls(f, "toArray", IF stream # undefined THEN "looping" ELSE "loading")
    /\ UNCHANGED <<cursor, streams, history>>

count(f) ==
    /\ ~results
    /\ calls(f, "count", "loading")
    /\ UNCHANGED <<cursor, streams, history>>

\* Either is answered at once from a whole result that is there.
fromResults(f) ==
    /\ mayCall(f)
    /\ ~aborted /\ ~closed
    /\ results
    /\ \/ stream = undefined /\ returns(f, "whole")
       \/ returns(f, "count")
    /\ UNCHANGED <<cursor, streams, got, failed>>

\* The whole result is kept, unless it was counted beside a stream.
loaded(f) ==
    /\ flow[f].at = "loading"
    /\ results' = (results \/ flow[f].op = "toArray" \/ stream = undefined)
    /\ returns(f, IF flow[f].op = "toArray" THEN "whole" ELSE "count")
    /\ UNCHANGED <<aborted, closed, index, stream, peeked, streams, got, failed>>

loadFails(f) ==
    /\ flow[f].at = "loading"
    /\ returns(f, IF aborted THEN "reason" ELSE "error")
    /\ UNCHANGED <<cursor, streams, got, failed>>

-----------------------------------------------------------------------------
(* CursorRows.next and hasNext, and what becomes of the step they come to. *)

\* A row ends a next(), is pushed by toArray, or runs the body of a loop.
hands(f, step) ==
    /\ IF step = DONE THEN returns(f, "end") /\ UNCHANGED got
       ELSE /\ got' = Append(got, step)
            /\ CASE flow[f].op = "next"    -> returns(f, "row")
                 [] flow[f].op = "toArray" -> goes(f, "looping") /\ UNCHANGED told
                 [] OTHER                  -> goes(f, "body") /\ UNCHANGED told
    /\ UNCHANGED failed

answers(f, step) ==
    /\ returns(f, IF step = DONE THEN "no" ELSE "yes")
    /\ UNCHANGED <<got, failed>>

\* A step of the stream: hasNext keeps it.
arrives(f, step) ==
    IF flow[f].op = "hasNext"
    THEN peeked' = step /\ answers(f, step)
    ELSE hands(f, step) /\ UNCHANGED peeked

\* stream.next(): over already, or behind the deferred open, or of the query.
asksStream(f) ==
    /\ stream # undefined
    /\ \/ finished[stream] /\ arrives(f, DONE)
       \/ /\ ~finished[stream]
          /\ flow' = [flow EXCEPT ![f].at = IF source[stream] = undefined
                                            THEN "opening" ELSE "reading",
                                  ![f].on = stream,
                                  ![f].query = source[stream]]
          /\ UNCHANGED <<peeked, history>>

next(f) ==
    /\ \/ /\ results
          /\ index' = (IF index < Rows THEN index + 1 ELSE index)
          /\ hands(f, index + 1)
          /\ UNCHANGED peeked
       \/ /\ ~results /\ peeked # undefined
          /\ peeked' = undefined
          /\ hands(f, peeked)
          /\ UNCHANGED index
       \/ /\ ~results /\ peeked = undefined
          /\ \/ asksStream(f)
             \/ stream = undefined /\ hands(f, DONE) /\ UNCHANGED peeked
          /\ UNCHANGED index
    /\ UNCHANGED <<aborted, closed, results, stream, streams>>

hasNext(f) ==
    /\ \/ results /\ answers(f, index + 1) /\ UNCHANGED peeked
       \/ ~results /\ stream = undefined /\ answers(f, DONE) /\ UNCHANGED peeked
       \/ ~results /\ stream # undefined /\ peeked # undefined
             /\ answers(f, peeked) /\ UNCHANGED peeked
       \/ ~results /\ peeked = undefined /\ asksStream(f)
    /\ UNCHANGED <<aborted, closed, results, index, stream, streams>>

stopsForSignal(f) ==
    /\ aborted
    /\ returns(f, "reason")
    /\ UNCHANGED <<cursor, streams, got, failed>>

\* After `await begin()`, and after each row of toArray. Of these only forEach
\* asks the signal again.
goesOn(f) ==
    /\ flow[f].at \in {"begun", "looping"}
    /\ CASE flow[f].op = "hasNext"             -> hasNext(f)
         [] flow[f].op = "forEach" /\ aborted  -> stopsForSignal(f)
         [] OTHER                              -> next(f)

\* A loop's body returns, for the next row or to leave; to leave is to close.
bodyReturns(f) ==
    /\ flow[f].at = "body"
    /\ IF aborted THEN stopsForSignal(f) ELSE next(f)

bodyLeaves(f) ==
    /\ flow[f].at = "body"
    /\ returns(f, "left")
    /\ IF stream = undefined
       THEN UNCHANGED <<closed, stream, results, peeked, finished, query>>
       ELSE close
    /\ UNCHANGED <<aborted, index, opened, source, sent, got, failed>>

-----------------------------------------------------------------------------
(* The streams *)

\* Mutant: a return() that landed during the open is not looked for.
openedSource_unasked(f) ==
    /\ flow[f].at = "opening"
    /\ \E q \in Opens :
          /\ query[q] = "unused"
          /\ \A r \in Opens : r < q => query[r] # "unused"
          /\ query' = [query EXCEPT ![q] = "running"]
          /\ source' = [source EXCEPT ![flow[f].on] = q]
          /\ flow' = [flow EXCEPT ![f].at = "reading", ![f].query = q]
    /\ UNCHANGED <<aborted, closed, results, index, stream, peeked, opened, finished,
                   sent, history>>

\* The deferred open is done. Nothing is sent if return() landed meanwhile.
openedSource(f) ==
    /\ flow[f].at = "opening"
    /\ LET s == flow[f].on IN
       IF finished[s]
       THEN arrives(f, DONE) /\ UNCHANGED <<source, query>>
       ELSE \E q \in Opens :
               /\ query[q] = "unused"
               /\ \A r \in Opens : r < q => query[r] # "unused"
               /\ query' = [query EXCEPT ![q] = "running"]
               /\ source' = [source EXCEPT ![s] = q]
               /\ flow' = [flow EXCEPT ![f].at = "reading", ![f].query = q]
               /\ UNCHANGED <<peeked, history>>
    /\ UNCHANGED <<aborted, closed, results, index, stream, opened, finished, sent>>

\* nextRow: the next row's frame, or the end of the statement.
frameArrives(f) ==
    LET q == flow[f].query IN
    /\ flow[f].at = "reading"
    /\ query[q] \in {"running", "buffered"}
    /\ arrives(f, sent[q] + 1)
    /\ IF sent[q] < Rows
       THEN /\ sent' = [sent EXCEPT ![q] = @ + 1]
            /\ UNCHANGED <<finished, query>>
       ELSE /\ finished' = [finished EXCEPT ![flow[f].on] = TRUE]
            /\ query' = [query EXCEPT ![q] = "over"]
            /\ UNCHANGED sent
    /\ UNCHANGED <<aborted, closed, results, index, stream, opened, source>>

\* Mutant: falling back is not kept to a stream that has delivered nothing.
fallsBack_anyTime(f) ==
    LET q == flow[f].query IN
    /\ flow[f].at = "reading"
    /\ query[q] = "running"
    /\ query' = [query EXCEPT ![q] = "buffered"]
    /\ sent' = [sent EXCEPT ![q] = 0]
    /\ UNCHANGED <<cursor, opened, source, finished, flow, history>>

\* The server will not take another stream: the rows are read whole instead.
fallsBack(f) ==
    LET q == flow[f].query IN
    /\ flow[f].at = "reading"
    /\ query[q] = "running"
    /\ sent[q] = 0
    /\ query' = [query EXCEPT ![q] = "buffered"]
    /\ UNCHANGED <<cursor, opened, source, finished, sent, flow, history>>

\* The open or the query fails, for the signal's reason if it aborted. Leaving a
\* `for await` by that failure closes the cursor.
readFails(f) ==
    LET q      == flow[f].query
        leaves == flow[f].op = "forAwait" /\ stream # undefined
    IN
    /\ \/ flow[f].at = "opening"
       \/ flow[f].at = "reading" /\ query[q] \in {"running", "buffered"}
    /\ returns(f, IF aborted THEN "reason" ELSE "error")
    /\ failed' = TRUE
    /\ finished' = [s \in Opens |->
          finished[s] \/ s = flow[f].on \/ (leaves /\ s = stream)]
    /\ query' = [r \in Opens |->
          CASE r = q -> "over"
            [] r # q /\ leaves /\ r = source[stream] /\ query[r] = "running" -> "cancelled"
            [] OTHER -> query[r]]
    /\ IF leaves
       THEN closed' = TRUE /\ stream' = undefined /\ results' = FALSE /\ peeked' = undefined
       ELSE UNCHANGED <<closed, stream, results, peeked>>
    /\ UNCHANGED <<aborted, index, opened, source, sent, got>>

\* Mutant: return() waits behind the read it should interrupt.
interrupted_parked(f) ==
    /\ flow[f].at = "reading"
    /\ query[flow[f].query] = "over"
    /\ arrives(f, DONE)
    /\ UNCHANGED <<aborted, closed, results, index, stream, streams>>

\* A read that was parked when its query was cancelled: the signal's reason, or,
\* when it was the consumer that left, the end.
interrupted(f) ==
    /\ flow[f].at = "reading"
    /\ query[flow[f].query] = "cancelled"
    /\ \/ aborted /\ returns(f, "reason") /\ UNCHANGED <<peeked, got, failed>>
       \/ ~aborted /\ arrives(f, DONE)
    /\ UNCHANGED <<aborted, closed, results, index, stream, streams>>

-----------------------------------------------------------------------------
resumes(f) ==
    \/ loaded(f) \/ loadFails(f) \/ goesOn(f) \/ openedSource(f) \/ frameArrives(f)
    \/ readFails(f) \/ interrupted(f)

Next ==
    \/ abort
    \/ \E f \in Flows :
          \/ refused(f) \/ toArray(f) \/ count(f) \/ fromResults(f)
          \/ \E op \in {"next", "hasNext", "forEach", "forAwait"} : begin(f, op)
          \/ callClose(f) \/ rewind(f)
          \/ bodyReturns(f) \/ bodyLeaves(f)
          \/ fallsBack(f) \/ resumes(f)

\* What is sent is answered, and promise reactions run. A query falls back once.
Fairness == \A f \in Flows : WF_vars(resumes(f))

Spec     == Init /\ [][Next]_vars
FairSpec == Spec /\ Fairness

-----------------------------------------------------------------------------
(* Properties of a cursor whose reads are awaited one after another *)

\* Whatever mix of reads hands them out, over a stream, over what a refused one
\* falls back to, or from a whole result that count() left behind, rows come in
\* order, none missing and none twice; and a read that reports the end has handed
\* out every row before it. "One row read ahead, so that hasNext() can answer
\* without losing it": a row the server has delivered was handed out, or is the
\* one read ahead. It takes reads awaited one after another: two hasNext() at once
\* lose one. An abort is left to AbortIsNeverAQuietEnd.
RowsOnceToTheEnd ==
    /\ \A i \in 1..Len(got) : got[i] = i
    /\ \A f \in Flows :
          told[f] \in {"end", "no"} /\ ~failed /\ ~aborted => Len(got) = Rows
    /\ stream # undefined /\ source[stream] # undefined =>
          \A row \in 1..sent[source[stream]] :
              peeked = row \/ \E i \in 1..Len(got) : got[i] = row

\* "Leaving early stops the server producing the rest": a query the server is
\* still streaming is the one the cursor is reading, however the cursor was left.
NoStreamLeftRunning ==
    \A q \in Opens : query[q] = "running" => stream # undefined /\ source[stream] = q

\* A read that was called is answered, also when the cursor is closed under it.
EveryReadReturns ==
    \A f \in Flows : flow[f].at \notin {"idle", "body"} ~> flow[f].at \in {"idle", "body"}

-----------------------------------------------------------------------------
(* Properties the code's comments and documents state *)

\* "A read in flight when the cursor is released by that same abort still
\* rejects with the reason, not as a quiet end".
AbortIsNeverAQuietEnd ==
    \A f \in Flows :
        told[f] \in {"end", "no"} /\ ~failed /\ aborted => Len(got) = Rows

\* "Every document that has not been read yet": an array of the whole result is
\* for a cursor no row of which has been handed out.
ToArrayIsTheRest ==
    [][\A f \in Flows : told'[f] = "whole" /\ told[f] # "whole" => got = << >>]_vars
=============================================================================
