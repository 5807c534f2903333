----------------------------- MODULE AtomicWork -----------------------------
(***************************************************************************)
(* What withTransaction promises about the work its callbacks do: the work *)
(* of a call is applied as a whole, at most once, and never after the call *)
(* has reported that it failed. The work here is to add one to a counter,  *)
(* so a lost update or a double write shows in its value.                  *)
(***************************************************************************)
EXTENDS Naturals

CONSTANTS Sessions

VARIABLES value,      \* the counter, as committed
          applied,    \* the sessions whose work is part of it
          outcome     \* what each call of withTransaction has reported

vars == <<value, applied, outcome>>

Init ==
    /\ value = 0
    /\ applied = {}
    /\ outcome = [s \in Sessions |-> "none"]

Apply(s) ==
    /\ s \notin applied
    /\ outcome[s] \in {"none", "unknown"}
    /\ value' = value + 1
    /\ applied' = applied \cup {s}
    /\ UNCHANGED outcome

Report(s, o) ==
    /\ outcome[s] = "none"
    /\ outcome' = [outcome EXCEPT ![s] = o]
    /\ UNCHANGED <<value, applied>>

Next ==
    \E s \in Sessions :
        \/ Apply(s)
        \/ s \in applied /\ Report(s, "success")
        \/ s \notin applied /\ Report(s, "failure")
        \/ Report(s, "unknown")

Spec == Init /\ [][Next]_vars
=============================================================================
