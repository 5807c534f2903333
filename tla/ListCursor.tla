------------------------------ MODULE ListCursor ------------------------------
(***************************************************************************)
(* A ListCollectionsCursor (cursor/list-collections-cursor.ts), or a       *)
(* ListIndexesCursor, which is the same without a signal: the listing is   *)
(* one round trip, kept whole when first asked for and walked locally.     *)
(*                                                                         *)
(* An action is the code between two awaits. `await this._execute()` is    *)
(* one even when there is nothing to fetch: the caller goes on first.      *)
(*                                                                         *)
(* The catalogue is external. It only grows, so that a listing is told     *)
(* from an earlier one by its length, and its rows are 1..n.               *)
(***************************************************************************)
EXTENDS Naturals, Sequences

CONSTANTS
    Flows,          \* flows of the application that read the cursor
    MaxCatalogue,   \* bound: collections there may be
    SharesCursor,   \* may a flow use the cursor while another's read is under way?
    HasSignal       \* is there an AbortSignal to abort?

Listings == 0..MaxCatalogue
null     == << >>               \* no listing; <<n>> is the listing 1..n

VARIABLES
    catalogue,  \* external: how many collections there are
    aborted,    \* the signal has aborted
    closed,     \* _closed
    results,    \* _results
    index,      \* _index
    flow,       \* what each flow awaits, the catalogue when it asked, and the
                \* listing its `for await` walks
    got,        \* history: the rows next() handed out since the last rewind
    since,      \* history: the catalogue at the last rewind
    told        \* history: what each flow's last call came to

vars == <<catalogue, aborted, closed, results, index, flow, got, since, told>>

Idle  == [at |-> "idle", op |-> "none", asked |-> 0, rows |-> null, row |-> 0]
Reads == {"next", "hasNext", "toArray", "forEach", "forAwait"}

TypeOK ==
    /\ catalogue \in Listings /\ since \in Listings
    /\ aborted \in BOOLEAN /\ closed \in BOOLEAN
    /\ results \in {null} \cup {<<n>> : n \in Listings}
    /\ index \in Listings
    /\ flow \in [Flows ->
          [at: {"idle", "running", "executed", "body"}, op: Reads \cup {"none"},
           asked: Listings, rows: {null} \cup {<<n>> : n \in Listings}, row: Listings]]
    /\ got \in Seq(Listings)
    /\ told \in [Flows -> {"nothing", "row", "end", "yes", "no", "left", "whole",
                           "reason", "exhausted", "error", "TypeError"}]

Init ==
    /\ catalogue \in Listings
    /\ since = catalogue
    /\ aborted = FALSE /\ closed = FALSE
    /\ results = null
    /\ index = 0
    /\ flow = [f \in Flows |-> Idle]
    /\ got = << >>
    /\ told = [f \in Flows |-> "nothing"]

goes(f, at) == flow' = [flow EXCEPT ![f].at = at]

\* A call settles, with a value or by throwing.
returns(f, answer) ==
    /\ flow' = [flow EXCEPT ![f] = Idle]
    /\ told' = [told EXCEPT ![f] = answer]

mayCall(f) ==
    /\ flow[f] = Idle
    /\ SharesCursor \/ \A g \in Flows : flow[g] = Idle

\* Another client creates a collection.
created ==
    /\ catalogue < MaxCatalogue
    /\ catalogue' = catalogue + 1
    /\ UNCHANGED <<aborted, closed, results, index, flow, got, since, told>>

-----------------------------------------------------------------------------
(* What takes effect at once *)

\* The signal closes the cursor, if the cursor is still listening to it.
abort ==
    /\ HasSignal
    /\ ~aborted
    /\ aborted' = TRUE
    /\ closed' = TRUE
    /\ results' = (IF closed THEN results ELSE null)
    /\ UNCHANGED <<catalogue, index, flow, got, since, told>>

close(f) ==
    /\ mayCall(f)
    /\ closed' = TRUE
    /\ results' = null
    /\ UNCHANGED <<catalogue, aborted, index, flow, got, since, told>>

\* Mutant: the cursor goes back to the start of the listing it has.
rewind_keepsResults(f) ==
    /\ mayCall(f)
    /\ index' = 0
    /\ closed' = FALSE
    /\ got' = << >>
    /\ since' = catalogue
    /\ told' = [g \in Flows |-> "nothing"]
    /\ UNCHANGED <<catalogue, aborted, results, flow>>

rewind(f) ==
    /\ mayCall(f)
    /\ index' = 0
    /\ results' = null
    /\ closed' = FALSE
    /\ got' = << >>
    /\ since' = catalogue
    /\ told' = [g \in Flows |-> "nothing"]
    /\ UNCHANGED <<catalogue, aborted, flow>>

-----------------------------------------------------------------------------
(* A read: the signal is asked, then the flag, then `_execute` awaited.    *)

refused(f) ==
    /\ mayCall(f)
    /\ \/ aborted /\ returns(f, "reason")
       \/ ~aborted /\ closed /\ returns(f, "exhausted")
    /\ UNCHANGED <<catalogue, aborted, closed, results, index, got, since>>

reads(f, op) ==
    /\ mayCall(f)
    /\ ~aborted /\ ~closed
    /\ flow' = [flow EXCEPT ![f] =
          [Idle EXCEPT !.at = IF results = null THEN "running" ELSE "executed",
                       !.op = op, !.asked = catalogue]]
    /\ UNCHANGED <<catalogue, aborted, closed, results, index, got, since, told>>

\* The runner answers with a catalogue there was since it was asked, and its answer
\* is kept without looking at anything.
listed(f) ==
    /\ flow[f].at = "running"
    /\ \E n \in flow[f].asked..catalogue : results' = <<n>>
    /\ goes(f, "executed")
    /\ UNCHANGED <<catalogue, aborted, closed, index, got, since, told>>

runnerFails(f) ==
    /\ flow[f].at = "running"
    /\ returns(f, "error")
    /\ UNCHANGED <<catalogue, aborted, closed, results, index, got, since>>

executed(f, ops) == flow[f].at = "executed" /\ flow[f].op \in ops

\* next, hasNext and toArray use `this._results!`: with none, they throw what
\* JavaScript throws.
nothingThere(f) ==
    /\ executed(f, {"next", "hasNext", "toArray"})
    /\ results = null
    /\ returns(f, "TypeError")
    /\ UNCHANGED <<catalogue, aborted, closed, results, index, got, since>>

next(f) ==
    /\ executed(f, {"next"})
    /\ results # null
    /\ IF index >= results[1]
       THEN returns(f, "end") /\ UNCHANGED <<index, got>>
       ELSE /\ returns(f, "row")
            /\ index' = index + 1
            /\ got' = Append(got, index + 1)
    /\ UNCHANGED <<catalogue, aborted, closed, results, since>>

hasNext(f) ==
    /\ executed(f, {"hasNext"})
    /\ results # null
    /\ returns(f, IF index < results[1] THEN "yes" ELSE "no")
    /\ UNCHANGED <<catalogue, aborted, closed, results, index, got, since>>

toArray(f) ==
    /\ executed(f, {"toArray"})
    /\ results # null
    /\ returns(f, "whole")
    /\ UNCHANGED <<catalogue, aborted, closed, results, index, got, since>>

\* forEach walks `this._results ?? []` in one go, unless its callback stops it;
\* the signal is asked before each row.
forEach(f) ==
    /\ executed(f, {"forEach"})
    /\ \/ results \in {null, <<0>>} /\ returns(f, "end")
       \/ /\ results \notin {null, <<0>>}
          /\ \/ aborted /\ returns(f, "reason")
             \/ ~aborted /\ \E answer \in {"whole", "left"} : returns(f, answer)
    /\ UNCHANGED <<catalogue, aborted, closed, results, index, got, since>>

\* `for await` walks the listing it found, whatever becomes of the cursor.
forAwait(f) ==
    /\ executed(f, {"forAwait"})
    /\ IF results \in {null, <<0>>} THEN returns(f, "end")
       ELSE /\ flow' = [flow EXCEPT ![f].at = "body", ![f].rows = results, ![f].row = 1]
            /\ UNCHANGED told
    /\ UNCHANGED <<catalogue, aborted, closed, results, index, got, since>>

\* The body of the loop is done, or leaves it. Leaving closes nothing.
bodyReturns(f) ==
    /\ flow[f].at = "body"
    /\ \/ aborted /\ returns(f, "reason")
       \/ ~aborted /\ flow[f].row = flow[f].rows[1] /\ returns(f, "whole")
       \/ /\ ~aborted /\ flow[f].row < flow[f].rows[1]
          /\ flow' = [flow EXCEPT ![f].row = @ + 1]
          /\ UNCHANGED told
       \/ returns(f, "left")
    /\ UNCHANGED <<catalogue, aborted, closed, results, index, got, since>>

-----------------------------------------------------------------------------
resumes(f) ==
    \/ listed(f) \/ runnerFails(f) \/ nothingThere(f)
    \/ next(f) \/ hasNext(f) \/ toArray(f) \/ forEach(f) \/ forAwait(f)

Next ==
    \/ created \/ abort
    \/ \E f \in Flows :
          \/ close(f) \/ rewind(f) \/ refused(f)
          \/ \E op \in Reads : reads(f, op)
          \/ resumes(f) \/ bodyReturns(f)

Spec == Init /\ [][Next]_vars

-----------------------------------------------------------------------------
(* Properties of a cursor whose reads are awaited one after another *)

\* "Materialised on first consumption and then walked locally": next() hands out
\* one listing's rows in order, none missing and none twice, while collections are
\* created, other reads come between and a listing fails; and it reports the end
\* of the listing it handed out, not of another one. "Rewind to the start, discarding
\* the materialised listing": what is read after a rewind was there at the rewind or
\* came since. With a read under way at the rewind it is not: its answer is kept.
WalksOneListing ==
    /\ \A i \in 1..Len(got) : got[i] = i
    /\ \A f \in Flows :
          told[f] \in {"end", "no"} /\ results # null => Len(got) = results[1]
    /\ results # null => results[1] >= since

-----------------------------------------------------------------------------
(* What the code asserts *)

\* `this._results!`: once `_execute()` is awaited the listing is there.
ResultsAreThere == \A f \in Flows : told[f] # "TypeError"
=============================================================================
