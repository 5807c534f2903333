------------------------------- MODULE Values -------------------------------
(***************************************************************************)
(* Stored values, and the part of SurrealQL the translators write in. A    *)
(* value is <<type, payload>>. SurrealQL is external: what is said of it   *)
(* here is what the translators' comments record of SurrealDB 3.           *)
(*                                                                         *)
(* A number's payload counts halves, so 3 is 1.5. A string's payload is a  *)
(* sequence of letters, numbered. A geometry lies on a line: a point is    *)
(* its coordinate, a stretch its two ends.                                 *)
(***************************************************************************)
EXTENDS Integers, Sequences, FiniteSets

NONE      == <<"none", 0>>
NULL      == <<"null", 0>>
bool(b)   == <<"bool", b>>
number(n) == <<"number", n>>
string(s) == <<"string", s>>
date(d)   == <<"date", d>>
array(s)  == <<"array", s>>
object(f) == <<"object", f>>
point(x)  == <<"point", x>>
stretch(x, y) == <<"stretch", <<x, y>>>>
record(v) == <<"record", v>>          \* a RecordId of the one table, around an _id

Infinity == number(1000)
NaN      == number(1001)              \* SurrealQL ranks it above infinity

\* ObjectIds are stored as an object of one tagged string.
TAG == "$oid"
objectId(n) == object([t \in {TAG} |-> string(<<n>>)])
isObjectId(v) == /\ v[1] = "object"
                 /\ DOMAIN v[2] = {TAG}
                 /\ v[2][TAG][1] = "string"

isType(v, t)  == v[1] = t
isArray(v)    == isType(v, "array")
isGeometry(v) == v[1] \in {"point", "stretch"}
elements(v)   == { v[2][i] : i \in DOMAIN v[2] }

member(v, f) == IF v[1] = "object" /\ f \in DOMAIN v[2] THEN v[2][f] ELSE NONE

\* The value a field path reads: what each element holds, over an array.
RECURSIVE read(_, _)
read(v, path) ==
    IF path = <<>> THEN v
    ELSE IF isArray(v) THEN array([i \in DOMAIN v[2] |-> read(v[2][i], path)])
    ELSE read(member(v, Head(path)), Tail(path))

-----------------------------------------------------------------------------
\* SurrealQL's total order, by type and then within the type.
Ranks == <<"none", "null", "bool", "number", "string", "date",
           "array", "object", "point", "stretch", "record">>
rank(v) == CHOOSE i \in DOMAIN Ranks : Ranks[i] = v[1]

precedes(s, t) ==                     \* strings, letter by letter
    \E k \in 0..Len(s) :
        /\ k <= Len(t) /\ SubSeq(s, 1, k) = SubSeq(t, 1, k)
        /\ \/ k = Len(s) /\ k < Len(t)
           \/ k < Len(s) /\ k < Len(t) /\ s[k + 1] < t[k + 1]

RECURSIVE below(_, _)
below(v, w) ==
    IF v[1] # w[1] THEN rank(v) < rank(w)
    ELSE CASE v[1] \in {"bool", "number", "date", "point"} -> v[2] < w[2]
           [] v[1] = "string" -> precedes(v[2], w[2])
           [] v[1] = "record" -> below(v[2], w[2])
           [] v[1] = "array" ->
                \E k \in 0..Len(v[2]) :
                    /\ k <= Len(w[2])
                    /\ SubSeq(v[2], 1, k) = SubSeq(w[2], 1, k)
                    /\ \/ k = Len(v[2]) /\ k < Len(w[2])
                       \/ /\ k < Len(v[2]) /\ k < Len(w[2])
                          /\ below(v[2][k + 1], w[2][k + 1])
           [] v[1] = "object" /\ isObjectId(v) /\ isObjectId(w) ->
                below(v[2][TAG], w[2][TAG])
           [] OTHER -> FALSE

compares(v, op, w) ==
    LET descends == op \in {"$gt", "$gte"} IN
    \/ op \in {"$gte", "$lte"} /\ v = w
    \/ below(IF descends THEN w ELSE v, IF descends THEN v ELSE w)

-----------------------------------------------------------------------------
\* A condition is true, false, or aborts its statement: a function handed a
\* value of a type it is not defined on does. AND and OR stop where they know.
truth(b) == IF b THEN "true" ELSE "false"
both(p, q)   == IF p = "true" THEN q ELSE p
either(p, q) == IF p = "false" THEN q ELSE p
negated(p)   == CASE p = "true" -> "false" [] p = "false" -> "true" [] OTHER -> p

\* The same over a sequence of conditions, left to right.
RECURSIVE all(_)
all(ps) == IF ps = <<>> THEN "true" ELSE both(Head(ps), all(Tail(ps)))
RECURSIVE any(_)
any(ps) == IF ps = <<>> THEN "false" ELSE either(Head(ps), any(Tail(ps)))

occurs(s, t) ==                       \* s is a part of t
    \E k \in 0..Len(t) : /\ k + Len(s) <= Len(t)
                         /\ SubSeq(t, k + 1, k + Len(s)) = s

\* CONTAINS is overloaded: a substring of a string, a key of an object.
contains(v, w) ==
    CASE isArray(v) -> w \in elements(v)
      [] isType(v, "string") -> isType(w, "string") /\ occurs(w[2], v[2])
      [] OTHER -> FALSE
anyInside(v, list) == \E w \in elements(list) : contains(v, w)

arrayAny(v, test(_)) ==
    IF isArray(v) THEN any([i \in DOMAIN v[2] |-> test(v[2][i])]) ELSE "aborts"
\* array::len(field[WHERE ...]) > 0, which keeps what is no array as one element
lenWhere(v, test(_)) ==
    IF isArray(v) THEN any([i \in DOMAIN v[2] |-> test(v[2][i])]) ELSE test(v)
lenIs(v, n) == IF isArray(v) THEN truth(Len(v[2]) = n) ELSE "aborts"

\* string::matches, for patterns that are a sequence of letters, perhaps
\* anchored at the start.
pattern(anchored, s) == <<anchored, s>>
fits(re, s) == IF re[1] THEN /\ Len(re[2]) <= Len(s)
                             /\ SubSeq(s, 1, Len(re[2])) = re[2]
                        ELSE occurs(re[2], s)
stringMatches(v, re) ==
    IF isType(v, "string") THEN truth(fits(re, v[2])) ELSE "aborts"

\* Towards zero, in whole numbers; and the remainder, which keeps the
\* dividend's sign.
truncate(n) == IF n >= 0 THEN n \div 2 ELSE -((-n) \div 2)
floor(n) == n \div 2
remainder(n, d) ==
    LET size(x) == IF x < 0 THEN -x ELSE x
    IN  IF n >= 0 THEN size(n) % size(d) ELSE -(size(n) % size(d))
=============================================================================
