---------------------------- MODULE IndexesProofs ----------------------------
(***************************************************************************)
(* What is proved of Indexes: that a creation is whole or refused, that    *)
(* what is listed is indexed, and that a registry follows the server; and  *)
(* of IndexDefinition, by induction over the data, what its loops compute. *)
(***************************************************************************)
EXTENDS Indexes, FiniteSetTheorems, WellFoundedInduction, TLAPS

-----------------------------------------------------------------------------
(* Induction over the data. A property is a set of numbers, so that the    *)
(* least-element principle of WellFoundedInduction can be cited for it.    *)

LEMMA Least ==
    ASSUME NEW T \in SUBSET Nat, T # {}
    PROVE  \E n \in T : \A m \in T : n <= m
<1>1. IsWellFoundedOn(OpToRel(<, Nat), Nat)
  BY NatLessThanWellFounded
<1>2. PICK n \in T : \A m \in T : ~ (<<m, n>> \in OpToRel(<, Nat))
  BY <1>1, WFMin, Zenon
<1>3. \A m \in T : ~(m < n)
  BY <1>2 DEF OpToRel
<1> QED
  BY <1>3

LEMMA Induction ==
    ASSUME NEW n \in Nat, NEW P, 0 \in P,
           \A i \in 0..n : i \in P /\ i < n => i + 1 \in P
    PROVE  \A i \in 0..n : i \in P
<1> DEFINE bad == { i \in 0..n : i \notin P }
<1> SUFFICES ASSUME bad # {} PROVE FALSE
  OBVIOUS
<1>1. bad \in SUBSET Nat
  OBVIOUS
<1> HIDE DEF bad
<1>2. PICK i \in bad : \A j \in bad : i <= j
  BY <1>1, Least
<1>3. i # 0 /\ i - 1 \in 0..n /\ i - 1 < n /\ i - 1 + 1 = i /\ i \in 0..n
  BY <1>1, <1>2 DEF bad
<1>4. i - 1 \in P
  BY <1>1, <1>2, <1>3 DEF bad
<1> QED
  BY <1>2, <1>3, <1>4 DEF bad

\* A loop over 1..n that keeps its state in A, and a run of it.
IsLoop(n, A, base, body) == n \in Nat /\ base \in A /\ body \in [1..n -> [A -> A]]
IsRun(g, n, A, base, body) ==
    g \in [0..n -> A] /\ g[0] = base /\ \A i \in 1..n : g[i] = body[i][g[i - 1]]

LEMMA LoopRuns ==
    ASSUME NEW n, NEW A, NEW base, NEW body, IsLoop(n, A, base, body)
    PROVE  \E g : IsRun(g, n, A, base, body)
<1> USE DEF IsLoop
<1> DEFINE upTo(k, g) == /\ g \in [0..k -> A] /\ g[0] = base
                         /\ \A i \in 1..k : g[i] = body[i][g[i - 1]]
           P == { k \in 0..n : \E g : upTo(k, g) }
<1>1. 0 \in P
  <2> DEFINE g == [i \in 0..0 |-> base]
  <2>1. g \in [0..0 -> A] /\ g[0] = base
    OBVIOUS
  <2>2. \A i \in 1..0 : FALSE
    OBVIOUS
  <2>3. upTo(0, g)
    BY <2>1, <2>2
  <2>4. 0 \in 0..n
    OBVIOUS
  <2> HIDE DEF upTo, g
  <2> QED
    BY <2>3, <2>4
<1>2. ASSUME NEW k \in 0..n, k \in P, k < n PROVE k + 1 \in P
  <2>1. PICK g : upTo(k, g)
    BY <1>2
  <2> DEFINE h == [i \in 0..(k+1) |-> IF i = k + 1 THEN body[k + 1][g[k]] ELSE g[i]]
  <2>2. body[k + 1][g[k]] \in A
    BY <2>1, <1>2
  <2>3. h \in [0..(k+1) -> A]
    BY <2>1, <2>2
  <2>4. h[0] = base
    BY <2>1
  <2>5. \A i \in 1..(k+1) : h[i] = body[i][h[i - 1]]
    <3> SUFFICES ASSUME NEW i \in 1..(k+1) PROVE h[i] = body[i][h[i - 1]]
      OBVIOUS
    <3>1. CASE i = k + 1
      <4>1. k + 1 \in 0..(k+1) /\ k \in 0..(k+1) /\ k # k + 1 /\ k + 1 - 1 = k
        OBVIOUS
      <4> QED
        BY <3>1, <4>1
    <3>2. CASE i \in 1..k
      <4>1. i \in 0..(k+1) /\ i - 1 \in 0..(k+1) /\ i # k + 1 /\ i - 1 # k + 1
        BY <3>2
      <4>2. h[i] = g[i] /\ h[i - 1] = g[i - 1]
        BY <4>1
      <4> QED
        BY <3>2, <4>2, <2>1
    <3> QED
      BY <3>1, <3>2
  <2>6. upTo(k + 1, h)
    BY <2>3, <2>4, <2>5
  <2>7. k + 1 \in 0..n
    BY <1>2
  <2> HIDE DEF upTo, h
  <2> QED
    BY <2>6, <2>7
<1>3. n \in P
  <2> HIDE DEF P
  <2>1. \A i \in 0..n : i \in P
    BY <1>1, <1>2, Induction
  <2> QED
    BY <2>1
<1>4. PICK g : upTo(n, g)
  BY <1>3
<1>5. IsRun(g, n, A, base, body)
  BY <1>4 DEF IsRun
<1> QED
  BY <1>5

-----------------------------------------------------------------------------
(* What the loops of index-definition.ts compute *)

Entry == Strings \X Strings

distinct(key) == \A i, j \in DOMAIN key : key[i][1] = key[j][1] => i = j

LEMMA WithEntryIsKey ==
    ASSUME NEW key \in Seq(Entry), NEW entry \in Entry
    PROVE  withEntry(key, entry) \in Seq(Entry)
<1>1. Append(key, entry) \in Seq(Entry)
  OBVIOUS
<1>2. /\ Len(key) \in Nat /\ DOMAIN key = 1..Len(key)
      /\ \A i \in 1..Len(key) : key[i] \in Entry
  OBVIOUS
<1> HIDE DEF Entry
<1>3. [i \in DOMAIN key |-> IF key[i][1] = entry[1] THEN entry ELSE key[i]]
        \in [1..Len(key) -> Entry]
  BY <1>2
<1>4. \A g \in [1..Len(key) -> Entry] : g \in Seq(Entry)
  BY <1>2
<1>5. [i \in DOMAIN key |-> IF key[i][1] = entry[1] THEN entry ELSE key[i]] \in Seq(Entry)
  BY <1>3, <1>4
<1> QED
  BY <1>1, <1>5 DEF withEntry

\* The loop of resolveIndexKey, step by step.
LEMMA ResolveLoop ==
    ASSUME NEW spec \in Seq(Entry)
    PROVE  \E key \in [0..Len(spec) -> Seq(Entry)] :
              /\ key[0] = <<>>
              /\ \A i \in 1..Len(spec) : key[i] = withEntry(key[i - 1], spec[i])
              /\ resolveIndexKey(spec) = key[Len(spec)]
<1> DEFINE n == Len(spec)
           body == [i \in 1..n |-> [k \in Seq(Entry) |-> withEntry(k, spec[i])]]
           eqn(f) == [i \in 0..n |-> IF i = 0 THEN <<>> ELSE withEntry(f[i - 1], spec[i])]
<1>1. n \in Nat /\ <<>> \in Seq(Entry)
  OBVIOUS
<1>2. ASSUME NEW k \in Seq(Entry), NEW i \in 1..n PROVE withEntry(k, spec[i]) \in Seq(Entry)
  <2>1. spec[i] \in Entry
    BY <1>2
  <2> QED
    BY <2>1, WithEntryIsKey
<1>3. body \in [1..n -> [Seq(Entry) -> Seq(Entry)]]
  BY <1>2
<1>4. PICK g \in [0..n -> Seq(Entry)] : g[0] = <<>> /\ \A i \in 1..n : g[i] = body[i][g[i - 1]]
  <2> DEFINE A == Seq(Entry)
             base == <<>>
  <2>1. IsLoop(n, A, base, body)
    BY <1>1, <1>3 DEF IsLoop
  <2>2. PICK g : IsRun(g, n, A, base, body)
    <3> HIDE DEF n, body, A, base
    <3> QED
      BY <2>1, LoopRuns
  <2> QED
    BY <2>2 DEF IsRun
<1>5. g = eqn(g)
  <2>1. \A i \in 1..n : g[i - 1] \in Seq(Entry)
    BY <1>1
  <2>2. \A i \in 1..n : g[i] = withEntry(g[i - 1], spec[i])
    BY <1>4, <2>1
  <2>3. \A i \in 0..n : i # 0 => i \in 1..n
    BY <1>1
  <2> HIDE DEF n, body
  <2> QED
    BY <1>4, <2>2, <2>3
<1> DEFINE h == CHOOSE f : f = eqn(f)
<1>6. h = eqn(h)
  <2> HIDE DEF eqn
  <2> QED
    BY <1>5
<1>7. resolveIndexKey(spec) = h[n]
  BY DEF resolveIndexKey
<1> HIDE DEF h
<1>8. h[0] = <<>> /\ \A i \in 1..n : h[i] = withEntry(h[i - 1], spec[i])
  BY <1>1, <1>6
<1>9. h \in [0..n -> Seq(Entry)]
  <2> DEFINE P == { i \in 0..n : h[i] \in Seq(Entry) }
  <2>1. 0 \in P
    <3>1. 0 \in 0..n
      BY <1>1
    <3> HIDE DEF n
    <3> QED
      BY <1>1, <1>8, <3>1
  <2>2. ASSUME NEW i \in 0..n, i \in P, i < n PROVE i + 1 \in P
    <3>1. i + 1 \in 1..n /\ i + 1 - 1 = i /\ i + 1 \in 0..n
      BY <1>1, <2>2
    <3>2. h[i + 1] = withEntry(h[i], spec[i + 1])
      BY <1>8, <3>1
    <3> HIDE DEF n
    <3> QED
      BY <1>2, <2>2, <3>1, <3>2
  <2>3. \A i \in 0..n : i \in P
    <3> HIDE DEF P, n
    <3> QED
      BY <1>1, <2>1, <2>2, Induction
  <2> QED
    BY <2>3, <1>6
<1> HIDE DEF body, eqn
<1> QED
  BY <1>7, <1>8, <1>9

\* One more entry in a key.
LEMMA WithEntryFacts ==
    ASSUME NEW key \in Seq(Entry), distinct(key), NEW entry \in Entry
    PROVE  LET k == withEntry(key, entry) IN
           /\ k \in Seq(Entry) /\ distinct(k)
           /\ Range(fieldsOf(k)) = Range(fieldsOf(key)) \cup {entry[1]}
           /\ Range(k) \subseteq Range(key) \cup {entry}
<1> DEFINE k == withEntry(key, entry)
<1>1. CASE \E i \in DOMAIN key : key[i][1] = entry[1]
  <2>1. k = [i \in DOMAIN key |-> IF key[i][1] = entry[1] THEN entry ELSE key[i]]
    BY <1>1 DEF withEntry
  <2>2. k \in Seq(Entry) /\ DOMAIN k = DOMAIN key /\ \A i \in DOMAIN key : k[i][1] = key[i][1]
    BY <2>1
  <2>3. distinct(k)
    BY <2>2 DEF distinct
  <2>4. Range(fieldsOf(k)) = Range(fieldsOf(key))
    BY <2>2 DEF Range, fieldsOf
  <2>5. entry[1] \in Range(fieldsOf(key))
    BY <1>1 DEF Range, fieldsOf
  <2>6. Range(k) \subseteq Range(key) \cup {entry}
    BY <2>1 DEF Range
  <2> QED
    BY <2>2, <2>3, <2>4, <2>5, <2>6
<1>2. CASE ~ \E i \in DOMAIN key : key[i][1] = entry[1]
  <2>1. k = Append(key, entry)
    BY <1>2 DEF withEntry
  <2>2. /\ k \in Seq(Entry) /\ DOMAIN k = DOMAIN key \cup {Len(key) + 1}
        /\ Len(key) + 1 \notin DOMAIN key
        /\ k[Len(key) + 1] = entry /\ \A i \in DOMAIN key : k[i] = key[i]
    BY <2>1
  <2>3. distinct(k)
    BY <1>2, <2>2 DEF distinct
  <2>4. Range(fieldsOf(k)) = Range(fieldsOf(key)) \cup {entry[1]}
    <3>1. \A x : x \in Range(fieldsOf(k)) <=> \E i \in DOMAIN k : x = k[i][1]
      BY DEF Range, fieldsOf
    <3>2. \A x : x \in Range(fieldsOf(key)) <=> \E i \in DOMAIN key : x = key[i][1]
      BY DEF Range, fieldsOf
    <3> HIDE DEF k
    <3> QED
      BY <2>2, <3>1, <3>2
  <2>5. Range(k) \subseteq Range(key) \cup {entry}
    BY <2>2 DEF Range
  <2> QED
    BY <2>2, <2>3, <2>4, <2>5
<1> QED
  BY <1>1, <1>2

\* resolveIndexKey keeps every field once, with a direction it was given.
LEMMA ResolveFacts ==
    ASSUME NEW spec \in Seq(Entry)
    PROVE  LET key == resolveIndexKey(spec) IN
           /\ key \in Seq(Entry) /\ distinct(key)
           /\ Range(fieldsOf(key)) = Range(fieldsOf(spec))
           /\ Range(key) \subseteq Range(spec)
<1> DEFINE n == Len(spec)
           upTo(i) == { spec[j] : j \in 1..i }
           fieldsUpTo(i) == { spec[j][1] : j \in 1..i }
           ok(k, i) == /\ k \in Seq(Entry) /\ distinct(k)
                       /\ Range(fieldsOf(k)) = fieldsUpTo(i)
                       /\ Range(k) \subseteq upTo(i)
<1>1. PICK key \in [0..n -> Seq(Entry)] :
          /\ key[0] = <<>>
          /\ \A i \in 1..n : key[i] = withEntry(key[i - 1], spec[i])
          /\ resolveIndexKey(spec) = key[n]
  BY ResolveLoop
<1>2. n \in Nat /\ DOMAIN spec = 1..n /\ \A i \in 1..n : spec[i] \in Entry
  OBVIOUS
<1> DEFINE P == { i \in 0..n : ok(key[i], i) }
<1>3. 0 \in P
  <2>1. 0 \in 0..n /\ key[0] = <<>> /\ <<>> \in Seq(Entry) /\ DOMAIN <<>> = {} /\ 1..0 = {}
    BY <1>1, <1>2
  <2>2. distinct(<<>>) /\ Range(fieldsOf(<<>>)) = {} /\ Range(<<>>) = {}
    BY <2>1 DEF distinct, Range, fieldsOf
  <2>3. fieldsUpTo(0) = {} /\ upTo(0) = {}
    BY <2>1
  <2>4. ok(key[0], 0)
    BY <2>1, <2>2, <2>3
  <2> HIDE DEF ok, n
  <2> QED
    BY <2>1, <2>4
<1>4. ASSUME NEW i \in 0..n, i \in P, i < n PROVE i + 1 \in P
  <2>1. i + 1 \in 1..n /\ i + 1 - 1 = i /\ i + 1 \in 0..n
    BY <1>2, <1>4
  <2>2. key[i + 1] = withEntry(key[i], spec[i + 1]) /\ spec[i + 1] \in Entry
    BY <1>1, <1>2, <2>1
  <2>3. ok(key[i], i)
    BY <1>4
  <2>4. 1..(i + 1) = (1..i) \cup {i + 1}
    BY <1>2
  <2>5. /\ fieldsUpTo(i + 1) = fieldsUpTo(i) \cup {spec[i + 1][1]}
        /\ upTo(i + 1) = upTo(i) \cup {spec[i + 1]}
    BY <2>4
  <2>6. /\ key[i + 1] \in Seq(Entry) /\ distinct(key[i + 1])
        /\ Range(fieldsOf(key[i + 1])) = Range(fieldsOf(key[i])) \cup {spec[i + 1][1]}
        /\ Range(key[i + 1]) \subseteq Range(key[i]) \cup {spec[i + 1]}
    <3> DEFINE old == key[i]
               new == spec[i + 1]
    <3>1. old \in Seq(Entry) /\ distinct(old) /\ new \in Entry
      BY <2>2, <2>3
    <3>2. key[i + 1] = withEntry(old, new)
      BY <2>2
    <3> HIDE DEF old, new
    <3>3. LET k == withEntry(old, new) IN
             /\ k \in Seq(Entry) /\ distinct(k)
             /\ Range(fieldsOf(k)) = Range(fieldsOf(old)) \cup {new[1]}
             /\ Range(k) \subseteq Range(old) \cup {new}
      BY <3>1, WithEntryFacts
    <3> QED
      BY <3>2, <3>3 DEF old, new
  <2>7. ok(key[i + 1], i + 1)
    <3> HIDE DEF upTo, fieldsUpTo, n
    <3> QED
      BY <2>3, <2>5, <2>6
  <2> HIDE DEF ok, n
  <2> QED
    BY <2>1, <2>7
<1>5. n \in P
  <2> HIDE DEF P, n
  <2>1. \A i \in 0..n : i \in P
    BY <1>2, <1>3, <1>4, Induction
  <2> QED
    BY <2>1, <1>2
<1>6. fieldsUpTo(n) = Range(fieldsOf(spec)) /\ upTo(n) = Range(spec)
  BY <1>2 DEF Range, fieldsOf
<1>7. ok(key[n], n)
  BY <1>5
<1> QED
  BY <1>1, <1>6, <1>7

\* selected keeps the members of s that are in S, and no others.
LEMMA SelectedFacts ==
    ASSUME NEW A, NEW s \in Seq(A), NEW S
    PROVE  selected(s, S) \in Seq(A) /\ Range(selected(s, S)) = Range(s) \cap S
<1> DEFINE n == Len(s)
           next(k, i) == IF s[i] \in S THEN Append(k, s[i]) ELSE k
           body == [i \in 1..n |-> [k \in Seq(A) |-> next(k, i)]]
           eqn(f) == [i \in 0..n |-> IF i = 0 THEN <<>>
                                     ELSE IF s[i] \in S THEN Append(f[i - 1], s[i]) ELSE f[i - 1]]
           among(i) == { s[j] : j \in 1..i } \cap S
           ok(k, i) == k \in Seq(A) /\ Range(k) = among(i)
<1>1. n \in Nat /\ <<>> \in Seq(A) /\ DOMAIN s = 1..n /\ \A i \in 1..n : s[i] \in A
  OBVIOUS
<1>2. ASSUME NEW k \in Seq(A), NEW i \in 1..n PROVE next(k, i) \in Seq(A)
  BY <1>2
<1>3. IsLoop(n, Seq(A), <<>>, body)
  <2>1. n \in Nat /\ <<>> \in Seq(A)
    BY <1>1
  <2> DEFINE B == Seq(A)
  <2>2. \A k \in B, i \in 1..n : next(k, i) \in B
    BY <1>2
  <2> HIDE DEF n, next, B
  <2>3. [i \in 1..n |-> [k \in B |-> next(k, i)]] \in [1..n -> [B -> B]]
    BY <2>2
  <2>4. body \in [1..n -> [Seq(A) -> Seq(A)]]
    BY <2>3 DEF B
  <2> HIDE DEF body
  <2> QED
    BY <2>1, <2>4 DEF IsLoop
<1>4. PICK g : IsRun(g, n, Seq(A), <<>>, body)
  <2> HIDE DEF n, body
  <2> QED
    BY <1>3, LoopRuns
<1>5. g = eqn(g)
  <2>1. \A i \in 1..n : g[i - 1] \in Seq(A)
    BY SMTT(30), <1>1, <1>4 DEF IsRun
  <2>2. \A i \in 1..n : g[i] = next(g[i - 1], i)
    BY <1>4, <2>1 DEF IsRun
  <2>3. \A i \in 0..n : i # 0 => i \in 1..n
    BY <1>1
  <2>4. g[0] = <<>> /\ g \in [0..n -> Seq(A)]
    BY <1>4 DEF IsRun
  <2> HIDE DEF n, body
  <2> QED
    BY <2>2, <2>3, <2>4
<1> DEFINE h == CHOOSE f : f = eqn(f)
<1>6. h = eqn(h)
  <2> HIDE DEF eqn
  <2> QED
    BY <1>5
<1>7. selected(s, S) = h[n]
  BY DEF selected
<1> HIDE DEF h
<1>8. h[0] = <<>> /\ \A i \in 1..n : h[i] = next(h[i - 1], i)
  <2>1. 0 \in 0..n /\ \A i \in 1..n : i \in 0..n /\ i # 0
    BY <1>1
  <2> HIDE DEF n
  <2>2. \A i \in 0..n : h[i] = IF i = 0 THEN <<>>
                               ELSE IF s[i] \in S THEN Append(h[i - 1], s[i]) ELSE h[i - 1]
    BY <1>6
  <2> QED
    BY <2>1, <2>2
<1> DEFINE P == { i \in 0..n : ok(h[i], i) }
<1>9. 0 \in P
  <2>1. 0 \in 0..n /\ DOMAIN <<>> = {} /\ 1..0 = {}
    BY <1>1
  <2>2. Range(<<>>) = {} /\ among(0) = {}
    BY <2>1 DEF Range
  <2>3. ok(h[0], 0)
    BY <1>1, <1>8, <2>2
  <2> HIDE DEF ok, n
  <2> QED
    BY <2>1, <2>3
<1>10. ASSUME NEW i \in 0..n, i \in P, i < n PROVE i + 1 \in P
  <2>1. i + 1 \in 1..n /\ i + 1 - 1 = i /\ i + 1 \in 0..n
    BY <1>1, <1>10
  <2>2. h[i + 1] = next(h[i], i + 1) /\ s[i + 1] \in A
    BY <1>1, <1>8, <2>1
  <2>3. ok(h[i], i)
    BY <1>10
  <2>4. 1..(i + 1) = (1..i) \cup {i + 1}
    BY <1>1
  <2>5. among(i + 1) = among(i) \cup ({s[i + 1]} \cap S)
    BY <2>4
  <2>6. ASSUME NEW k \in Seq(A), NEW x PROVE Range(Append(k, x)) = Range(k) \cup {x}
    <3>1. /\ DOMAIN Append(k, x) = DOMAIN k \cup {Len(k) + 1}
          /\ Len(k) + 1 \notin DOMAIN k /\ Append(k, x)[Len(k) + 1] = x
          /\ \A j \in DOMAIN k : Append(k, x)[j] = k[j]
      OBVIOUS
    <3> QED
      BY <3>1 DEF Range
  <2>7. ok(h[i + 1], i + 1)
    <3>1. next(h[i], i + 1) \in Seq(A)
      BY <1>2, <2>1, <2>3
    <3>2. CASE s[i + 1] \in S
      <4>1. Range(h[i + 1]) = Range(h[i]) \cup {s[i + 1]}
        BY <2>2, <2>3, <2>6, <3>2
      <4> HIDE DEF among, n
      <4> QED
        BY <2>2, <2>3, <2>5, <3>1, <3>2, <4>1
    <3>3. CASE s[i + 1] \notin S
      <4> HIDE DEF among, n
      <4> QED
        BY <2>2, <2>3, <2>5, <3>1, <3>3
    <3> QED
      BY <3>2, <3>3
  <2> HIDE DEF ok, n
  <2> QED
    BY <2>1, <2>7
<1>11. n \in P
  <2> HIDE DEF P, n
  <2>1. \A i \in 0..n : i \in P
    BY <1>1, <1>9, <1>10, Induction
  <2> QED
    BY <2>1, <1>1
<1>12. among(n) = Range(s) \cap S
  BY <1>1 DEF Range
<1>13. ok(h[n], n)
  BY <1>11
<1> QED
  BY <1>7, <1>12, <1>13

LEMMA RangeOfConcat ==
    ASSUME NEW A, NEW s \in Seq(A), NEW t \in Seq(A)
    PROVE  s \o t \in Seq(A) /\ Range(s \o t) = Range(s) \cup Range(t)
<1>1. /\ s \o t \in Seq(A) /\ DOMAIN (s \o t) = 1..(Len(s) + Len(t))
      /\ \A i \in 1..Len(s) : (s \o t)[i] = s[i]
      /\ \A i \in 1..Len(t) : (s \o t)[Len(s) + i] = t[i]
      /\ DOMAIN s = 1..Len(s) /\ DOMAIN t = 1..Len(t)
      /\ Len(s) \in Nat /\ Len(t) \in Nat
  OBVIOUS
<1>2. \A i \in 1..(Len(s) + Len(t)) : i \in 1..Len(s) \/ \E j \in 1..Len(t) : i = Len(s) + j
  <2> SUFFICES ASSUME NEW i \in 1..(Len(s) + Len(t)), i \notin 1..Len(s)
               PROVE  \E j \in 1..Len(t) : i = Len(s) + j
    OBVIOUS
  <2>1. i - Len(s) \in 1..Len(t) /\ i = Len(s) + (i - Len(s))
    BY <1>1
  <2> QED
    BY <2>1
<1>3. \A i \in 1..Len(t) : Len(s) + i \in 1..(Len(s) + Len(t))
  BY <1>1
<1>4. \A i \in 1..Len(s) : i \in 1..(Len(s) + Len(t))
  BY <1>1
<1>5. ASSUME NEW i \in DOMAIN (s \o t) PROVE (s \o t)[i] \in Range(s) \cup Range(t)
  <2>1. CASE i \in 1..Len(s)
    <3>1. (s \o t)[i] = s[i] /\ i \in DOMAIN s
      BY <1>1, <2>1
    <3> QED
      BY <3>1 DEF Range
  <2>2. ASSUME NEW j \in 1..Len(t), i = Len(s) + j PROVE (s \o t)[i] \in Range(t)
    <3>1. (s \o t)[i] = t[j] /\ j \in DOMAIN t
      BY <1>1, <2>2
    <3> QED
      BY <3>1 DEF Range
  <2> QED
    BY <1>1, <1>2, <1>5, <2>1, <2>2
<1>6. Range(s) \subseteq Range(s \o t) /\ Range(t) \subseteq Range(s \o t)
  BY <1>1, <1>3, <1>4 DEF Range
<1>7. Range(s \o t) \subseteq Range(s) \cup Range(t)
  BY <1>5 DEF Range
<1> QED
  BY <1>1, <1>6, <1>7

\* A plain object has the entries of the key, whatever their order.
LEMMA KeyToObjectFacts ==
    ASSUME NEW key \in Seq(Entry)
    PROVE  keyToObject(key) \in Seq(Entry) /\ Range(keyToObject(key)) = Range(key)
<1> DEFINE numbered == { e \in Range(key) : e[1] \in Numerals }
<1>1. /\ selected(key, numbered) \in Seq(Entry)
      /\ Range(selected(key, numbered)) = Range(key) \cap numbered
  BY SelectedFacts
<1>2. /\ selected(key, Range(key) \ numbered) \in Seq(Entry)
      /\ Range(selected(key, Range(key) \ numbered)) = Range(key) \cap (Range(key) \ numbered)
  BY SelectedFacts
<1>3. keyToObject(key) = selected(key, numbered) \o selected(key, Range(key) \ numbered)
  BY DEF keyToObject
<1> DEFINE u == selected(key, numbered)
           v == selected(key, Range(key) \ numbered)
<1> HIDE DEF numbered, u, v
<1>4. u \o v \in Seq(Entry) /\ Range(u \o v) = Range(u) \cup Range(v)
  <2>1. u \in Seq(Entry) /\ v \in Seq(Entry)
    BY <1>1, <1>2 DEF u, v
  <2> HIDE DEF Entry
  <2> QED
    BY <2>1, RangeOfConcat
<1>5. /\ keyToObject(key) \in Seq(Entry)
      /\ Range(keyToObject(key)) = (Range(key) \cap numbered)
                                     \cup (Range(key) \cap (Range(key) \ numbered))
  BY <1>1, <1>2, <1>3, <1>4 DEF u, v
<1> QED
  BY <1>5
-----------------------------------------------------------------------------
(* The members of a finite set, one after the other *)

LEMMA SetToSeqFacts ==
    ASSUME NEW S, IsFiniteSet(S)
    PROVE  LET s == SetToSeq(S) IN
           /\ s \in Seq(S) /\ Range(s) = S
           /\ \A i, j \in DOMAIN s : s[i] = s[j] => i = j
<1> DEFINE n == Cardinality(S)
           s == SetToSeq(S)
<1>1. n \in Nat /\ ExistsBijection(1..n, S)
  BY FS_CardinalityType
<1>2. PICK g : g \in [1..n -> S] /\ IsInjective(g)
  BY <1>1 DEF ExistsBijection, Bijection, Injection
<1>3. s \in [1..n -> S] /\ IsInjective(s)
  <2>1. s = CHOOSE f \in [1..n -> S] : IsInjective(f)
    BY DEF SetToSeq
  <2> HIDE DEF n, s
  <2> QED
    BY <1>2, <2>1
<1>4. IsFiniteSet(1..n) /\ Cardinality(1..n) = n
  <2>1. 1 \in Int /\ n \in Int
    BY <1>1
  <2> HIDE DEF n
  <2>2. IsFiniteSet(1..n) /\ Cardinality(1..n) = IF 1 > n THEN 0 ELSE n - 1 + 1
    BY <2>1, FS_Interval
  <2> QED
    BY <1>1, <2>2
<1>5. s \in Surjection(1..n, S)
  <2>1. s \in Injection(1..n, S)
    BY <1>3 DEF Injection
  <2>2. Cardinality(1..n) = Cardinality(S) <=> s \in Surjection(1..n, S)
    <3> DEFINE D == 1..n
               t == s
    <3>1. t \in Injection(D, S)
      BY <2>1
    <3> HIDE DEF D, t
    <3>2. Cardinality(D) = Cardinality(S) <=> t \in Surjection(D, S)
      BY <3>1, FS_Injection
    <3> QED
      BY <3>2 DEF D, t
  <2> QED
    BY <1>4, <2>2
<1>6. \A x \in S : \E i \in 1..n : s[i] = x
  BY <1>5 DEF Surjection
<1> HIDE DEF s
<1>7. s \in Seq(S) /\ DOMAIN s = 1..n
  BY <1>1, <1>3
<1>8. Range(s) = S
  BY <1>3, <1>6 DEF Range
<1> QED
  BY <1>3, <1>7, <1>8 DEF IsInjective, s

\* What a key says does not depend on the order of its entries.
LEMMA FieldsOfRange ==
    ASSUME NEW key \in Seq(Entry)
    PROVE  /\ Range(fieldsOf(key)) = { e[1] : e \in Range(key) }
           /\ textFieldsOfKey(key) = { e[1] : e \in { x \in Range(key) : x[2] = "text" } }
BY DEF Range, fieldsOf, textFieldsOfKey

LEMMA ConcatFields ==
    ASSUME NEW s \in Seq(Entry), NEW t \in Seq(Entry)
    PROVE  /\ s \o t \in Seq(Entry) /\ Range(s \o t) = Range(s) \cup Range(t)
           /\ Range(fieldsOf(s \o t)) = Range(fieldsOf(s)) \cup Range(fieldsOf(t))
<1>1. s \o t \in Seq(Entry) /\ Range(s \o t) = Range(s) \cup Range(t)
  <2> HIDE DEF Entry
  <2> QED
    BY RangeOfConcat
<1> DEFINE u == s \o t
<1> HIDE DEF u
<1>2. u \in Seq(Entry) /\ Range(u) = Range(s) \cup Range(t)
  BY <1>1 DEF u
<1>3. Range(fieldsOf(u)) = Range(fieldsOf(s)) \cup Range(fieldsOf(t))
  BY <1>2, FieldsOfRange
<1> QED
  BY <1>2, <1>3 DEF u

\* The indexes of the server that are one of MongoDB: its fields are all of
\* theirs, each with a direction one of them gives it.
LEMMA DescribePartsFacts ==
    ASSUME NEW parts, IsFiniteSet(DOMAIN parts),
           \A p \in DOMAIN parts : describeOne(p, parts[p]).key \in Seq(Entry)
    PROVE  LET key == describeParts(parts).key IN
           /\ key \in Seq(Entry)
           /\ Range(fieldsOf(key)) =
                UNION { Range(fieldsOf(describeOne(p, parts[p]).key)) : p \in DOMAIN parts }
           /\ Range(key) \subseteq UNION { Range(describeOne(p, parts[p]).key) : p \in DOMAIN parts }
<1> DEFINE infos == SetToSeq(DOMAIN parts)
           n == Len(infos)
           keyOf(p) == describeOne(p, parts[p]).key
           fields(i) == UNION { Range(fieldsOf(keyOf(infos[j]))) : j \in 1..i }
           upTo(i) == UNION { Range(keyOf(infos[j])) : j \in 1..i }
           ok(k, i) == /\ k \in Seq(Entry) /\ Range(fieldsOf(k)) = fields(i)
                       /\ Range(k) \subseteq upTo(i)
           next(k, i) == resolveIndexKey(k \o keyOf(infos[i]))
           body == [i \in 1..n |-> [k \in Seq(Entry) |-> next(k, i)]]
           eqn(f) == [i \in 0..n |-> IF i = 0 THEN <<>> ELSE next(f[i - 1], i)]
<1>1. /\ infos \in Seq(DOMAIN parts) /\ Range(infos) = DOMAIN parts
      /\ n \in Nat /\ DOMAIN infos = 1..n
  BY SetToSeqFacts
<1>2. \A i \in 1..n : infos[i] \in DOMAIN parts /\ keyOf(infos[i]) \in Seq(Entry)
  <2> HIDE DEF infos
  <2> QED
    BY <1>1
<1> HIDE DEF infos
<1>3. ASSUME NEW k \in Seq(Entry), NEW i \in 1..n
      PROVE  /\ next(k, i) \in Seq(Entry)
             /\ Range(fieldsOf(next(k, i))) = Range(fieldsOf(k)) \cup Range(fieldsOf(keyOf(infos[i])))
             /\ Range(next(k, i)) \subseteq Range(k) \cup Range(keyOf(infos[i]))
  <2> DEFINE t == keyOf(infos[i])
             u == k \o t
  <2>1. t \in Seq(Entry)
    BY <1>2
  <2> HIDE DEF t
  <2>2. /\ u \in Seq(Entry) /\ Range(u) = Range(k) \cup Range(t)
        /\ Range(fieldsOf(u)) = Range(fieldsOf(k)) \cup Range(fieldsOf(t))
    BY <2>1, ConcatFields
  <2> HIDE DEF u
  <2>3. LET key == resolveIndexKey(u) IN
           /\ key \in Seq(Entry) /\ Range(fieldsOf(key)) = Range(fieldsOf(u))
           /\ Range(key) \subseteq Range(u)
    BY <2>2, ResolveFacts
  <2> QED
    BY <2>2, <2>3 DEF t, u
<1>4. IsLoop(n, Seq(Entry), <<>>, body)
  <2>1. <<>> \in Seq(Entry)
    OBVIOUS
  <2> HIDE DEF n, next
  <2> QED
    BY <1>1, <1>3, <2>1 DEF IsLoop
<1>5. PICK g : IsRun(g, n, Seq(Entry), <<>>, body)
  <2> HIDE DEF n, body
  <2> QED
    BY <1>4, LoopRuns
<1>6. g = eqn(g)
  <2>1. \A i \in 1..n : g[i - 1] \in Seq(Entry)
    BY <1>1, <1>5 DEF IsRun
  <2>2. \A i \in 1..n : g[i] = next(g[i - 1], i)
    <3> HIDE DEF next
    <3> QED
      BY <1>5, <2>1 DEF IsRun
  <2>3. \A i \in 0..n : i # 0 => i \in 1..n
    BY <1>1
  <2>4. g[0] = <<>> /\ g \in [0..n -> Seq(Entry)]
    BY <1>5 DEF IsRun
  <2> HIDE DEF n, body, next
  <2> QED
    BY <2>2, <2>3, <2>4
<1> DEFINE h == CHOOSE f : f = eqn(f)
<1>7. h = eqn(h)
  <2> HIDE DEF eqn
  <2> QED
    BY <1>6
<1>8. describeParts(parts).key = keyToObject(h[n])
  BY DEF describeParts, infos
<1> HIDE DEF h
<1>9. h[0] = <<>> /\ \A i \in 1..n : h[i] = next(h[i - 1], i)
  <2>1. 0 \in 0..n /\ \A i \in 1..n : i \in 0..n /\ i # 0
    BY <1>1
  <2> HIDE DEF n, next
  <2>2. \A i \in 0..n : h[i] = IF i = 0 THEN <<>> ELSE next(h[i - 1], i)
    BY <1>7
  <2> QED
    BY <2>1, <2>2
<1> DEFINE P == { i \in 0..n : ok(h[i], i) }
<1>10. 0 \in P
  <2>1. 0 \in 0..n /\ DOMAIN <<>> = {} /\ 1..0 = {} /\ <<>> \in Seq(Entry)
    BY <1>1
  <2>2. Range(<<>>) = {} /\ Range(fieldsOf(<<>>)) = {} /\ fields(0) = {} /\ upTo(0) = {}
    BY <2>1 DEF Range, fieldsOf
  <2>3. ok(h[0], 0)
    BY <1>9, <2>1, <2>2
  <2> HIDE DEF ok, n
  <2> QED
    BY <2>1, <2>3
<1>11. ASSUME NEW i \in 0..n, i \in P, i < n PROVE i + 1 \in P
  <2>1. i + 1 \in 1..n /\ i + 1 - 1 = i /\ i + 1 \in 0..n
    BY <1>1, <1>11
  <2>2. h[i + 1] = next(h[i], i + 1)
    <3> HIDE DEF next, n
    <3> QED
      BY <1>9, <2>1
  <2>3. ok(h[i], i)
    BY <1>11
  <2>4. 1..(i + 1) = (1..i) \cup {i + 1}
    BY <1>1
  <2>5. /\ fields(i + 1) = fields(i) \cup Range(fieldsOf(keyOf(infos[i + 1])))
        /\ upTo(i + 1) = upTo(i) \cup Range(keyOf(infos[i + 1]))
    <3> HIDE DEF keyOf
    <3> QED
      BY <2>4
  <2>6. ok(h[i + 1], i + 1)
    <3>1. h[i] \in Seq(Entry)
      BY <2>3
    <3> DEFINE k == h[i]
    <3> HIDE DEF fields, upTo, n, next, keyOf, k
    <3>2. k \in Seq(Entry)
      BY <3>1 DEF k
    <3>3. /\ next(k, i + 1) \in Seq(Entry)
          /\ Range(fieldsOf(next(k, i + 1))) = Range(fieldsOf(k)) \cup Range(fieldsOf(keyOf(infos[i + 1])))
          /\ Range(next(k, i + 1)) \subseteq Range(k) \cup Range(keyOf(infos[i + 1]))
      BY <1>3, <2>1, <3>2
    <3> QED
      BY <2>2, <2>3, <2>5, <3>3 DEF k
  <2> HIDE DEF ok, n
  <2> QED
    BY <2>1, <2>6
<1>12. n \in P
  <2> HIDE DEF P, n
  <2>1. \A i \in 0..n : i \in P
    BY <1>1, <1>10, <1>11, Induction
  <2> QED
    BY <2>1, <1>1
<1>13. ok(h[n], n)
  BY <1>12
<1>14. /\ fields(n) = UNION { Range(fieldsOf(keyOf(p))) : p \in DOMAIN parts }
       /\ upTo(n) = UNION { Range(keyOf(p)) : p \in DOMAIN parts }
  <2>1. DOMAIN parts = { infos[j] : j \in 1..n }
    BY <1>1 DEF Range
  <2> HIDE DEF keyOf, n
  <2> QED
    BY <2>1
<1> DEFINE last == h[n]
           merged == keyToObject(last)
<1>15. last \in Seq(Entry) /\ merged = describeParts(parts).key
  BY <1>8, <1>13
<1>16. Range(last) \subseteq upTo(n) /\ Range(fieldsOf(last)) = fields(n)
  BY <1>13
<1> HIDE DEF last
<1>17. merged \in Seq(Entry) /\ Range(merged) = Range(last)
  BY <1>15, KeyToObjectFacts
<1> HIDE DEF merged
<1>18. Range(fieldsOf(merged)) = Range(fieldsOf(last))
  BY <1>15, <1>17, FieldsOfRange
<1> HIDE DEF fields, upTo, n
<1> QED
  BY <1>14, <1>15, <1>16, <1>17, <1>18

\* A specification that is not refused becomes a definition as CallsAreResolved
\* asks: every field once, one kind of index, and a name of its own: resolveIndexDefinition.
THEOREM DefinitionsAreResolved ==
    ASSUME NEW spec \in Seq(Entry),
           NEW options \in [name: Seq(Strings), unique: BOOLEAN, sparse: BOOLEAN, rejected: BOOLEAN],
           ~refusesIndexDefinition(spec, options)
    PROVE  /\ IsResolved(resolveIndexDefinition(spec, options))
           /\ Range(fieldsOf(resolveIndexDefinition(spec, options).key)) = Range(fieldsOf(spec))
<1> DEFINE key == resolveIndexKey(spec)
           generated == generateIndexName(key)
           definition == resolveIndexDefinition(spec, options)
<1>1. /\ key \in Seq(Entry) /\ distinct(key)
      /\ Range(fieldsOf(key)) = Range(fieldsOf(spec))
  BY ResolveFacts
<1>2. /\ key # <<>> /\ ~refusesIndexKind(key)
      /\ options.name = ID_INDEX_NAME => isIdIndexKey(key)
  BY DEF refusesIndexDefinition
<1>3. definition = [name |-> IF options.name = <<>> THEN generated ELSE options.name,
                    key  |-> key, kind |-> resolveIndexKind(key),
                    columns |-> [i \in DOMAIN key |-> columnOf(key[i][1])],
                    unique  |-> options.unique, sparse |-> options.sparse]
  BY DEF resolveIndexDefinition
<1> HIDE DEF key, definition
<1>4. /\ Len(key) \in Nat /\ Len(key) > 0 /\ DOMAIN key = 1..Len(key)
      /\ \A i \in DOMAIN key : key[i] \in Entry
  BY <1>1, <1>2
<1>5. generated \in Seq(Strings) /\ generated # <<>> /\ generated # ID_INDEX_NAME
  <2>1. \A i \in 1..(2 * Len(key)) : (i + 1) \div 2 \in DOMAIN key
    BY <1>4
  <2>2. \A i \in DOMAIN key : key[i][1] \in Strings /\ key[i][2] \in Strings
    BY <1>4 DEF Entry
  <2>3. \A i \in 1..(2 * Len(key)) :
           key[(i + 1) \div 2][IF i % 2 = 1 THEN 1 ELSE 2] \in Strings
    BY <2>1, <2>2
  <2>4. generated \in [1..(2 * Len(key)) -> Strings]
    BY <2>3 DEF generateIndexName
  <2>5. 2 * Len(key) \in Nat /\ 2 * Len(key) > 1
    BY <1>4
  <2> DEFINE m == 2 * Len(key)
  <2> HIDE DEF m, generated
  <2>6. generated \in Seq(Strings) /\ Len(generated) = m
    <3>1. m \in Nat /\ generated \in [1..m -> Strings]
      BY <2>4, <2>5 DEF m
    <3> QED
      BY <3>1
  <2>7. Len(<<>>) = 0 /\ Len(ID_INDEX_NAME) = 1 /\ m # 0 /\ m # 1
    BY <2>5 DEF m, ID_INDEX_NAME
  <2> QED
    BY <2>6, <2>7
<1>6. isText(key) => \A i \in DOMAIN key : key[i][2] = "text"
  BY <1>2 DEF refusesIndexKind
<1>7. resolveIndexKind(key) \in {"btree", "fulltext"}
  BY DEF resolveIndexKind
<1>8. [i \in DOMAIN key |-> columnOf(key[i][1])] \in Seq(Strings)
  <2>1. \A i \in DOMAIN key : key[i][1] \in Strings
    BY <1>4 DEF Entry
  <2>2. \A x \in Strings : columnOf(x) \in Strings
    BY DEF columnOf, Strings
  <2>3. \A i \in DOMAIN key : columnOf(key[i][1]) \in Strings
    BY <2>1, <2>2
  <2> QED
    BY <1>4, <2>3
<1>9. definition \in [name: Seq(Strings), key: Seq(Strings \X Strings),
                      kind: {"btree", "fulltext"}, columns: Seq(Strings),
                      unique: BOOLEAN, sparse: BOOLEAN]
  <2> HIDE DEF generated
  <2> QED
    BY <1>1, <1>3, <1>5, <1>7, <1>8 DEF Entry
<1>10. definition.name # <<>> /\ (definition.name = ID_INDEX_NAME => isIdIndexKey(key))
  BY <1>2, <1>3, <1>5
<1>11. IsResolved(definition)
  BY <1>1, <1>2, <1>3, <1>6, <1>9, <1>10 DEF IsResolved, distinct
<1> QED
  BY <1>1, <1>3, <1>11 DEF definition

-----------------------------------------------------------------------------
(* The definitions that are asked for, and the indexes that make one up *)

Asked == { d \in UNION { Range(c.definitions) : c \in Calls } : ~isIdIndexKey(d.key) }

\* An index of the server that was defined by hand, or for the definition d.
byHand(index) ==
    /\ index \in [columns: Seq(Strings), kind: {"btree", "fulltext"},
                  unique: BOOLEAN, comment: {{}}]
    /\ index.columns # <<>>
    /\ index.kind = "fulltext" => Len(index.columns) = 1
isPartOf(d, p, index) ==
    \E j \in DOMAIN buildIndexStatements(d) : buildIndexStatements(d)[j] = <<p, index>>

LEMMA AskedFacts ==
    ASSUME NEW d \in Asked
    PROVE  /\ IsResolved(d) /\ ~isIdIndexKey(d.key) /\ d.name # ID_INDEX_NAME
           /\ \A i \in DOMAIN d.key : d.key[i][1] # "id"
<1>1. PICK c \in Calls : d \in Range(c.definitions)
  BY DEF Asked
<1>2. c # search /\ c # dropIndexes /\ c # dropIndex(c.name)
  <2>1. /\ search.definitions = <<>> /\ dropIndexes.definitions = <<>>
        /\ dropIndex(c.name).definitions = <<>>
    BY DEF search, dropIndexes, dropIndex, NoCall
  <2>2. Range(<<>>) = {}
    BY DEF Range
  <2> QED
    BY <1>1, <2>1, <2>2
<1>3. IsResolved(d) /\ \A i \in DOMAIN d.key : d.key[i][1] # "id"
  BY <1>1, <1>2, CallsAssumption DEF CallsAreResolved
<1>4. ~isIdIndexKey(d.key)
  BY DEF Asked
<1> QED
  BY <1>3, <1>4 DEF IsResolved

\* A key and the columns it names.
LEMMA ColumnFacts ==
    ASSUME NEW d \in Asked
    PROVE  /\ Len(d.columns) = Len(d.key) /\ Len(d.key) \in Nat \ {0}
           /\ DOMAIN d.columns = 1..Len(d.columns) /\ DOMAIN d.key = 1..Len(d.columns)
           /\ \A i \in DOMAIN d.columns : d.columns[i] = columnOf(d.key[i][1])
           /\ \A i, j \in DOMAIN d.columns : d.columns[i] = d.columns[j] => i = j
           /\ { fieldOf(c) : c \in Range(d.columns) } = Range(fieldsOf(d.key))
           /\ Range(d.columns) = { columnOf(x) : x \in Range(fieldsOf(d.key)) }
<1>1. IsResolved(d) /\ \A i \in DOMAIN d.key : d.key[i][1] # "id"
  BY AskedFacts
<1>2. /\ d.columns = [i \in DOMAIN d.key |-> columnOf(d.key[i][1])]
      /\ d.key \in Seq(Entry) /\ d.key # <<>> /\ distinct(d.key)
      /\ d.columns \in Seq(Strings)
  BY <1>1 DEF IsResolved, Entry, distinct
<1> DEFINE key == d.key
           columns == d.columns
<1>3. /\ columns = [i \in DOMAIN key |-> columnOf(key[i][1])] /\ columns \in Seq(Strings)
      /\ key \in Seq(Entry) /\ key # <<>> /\ distinct(key)
      /\ \A i \in DOMAIN key : key[i][1] # "id"
  BY <1>1, <1>2
<1> HIDE DEF key, columns
<1>4. DOMAIN columns = DOMAIN key /\ DOMAIN key = 1..Len(key) /\ Len(key) \in Nat \ {0}
  BY <1>3
<1>5. Len(columns) = Len(key) /\ DOMAIN columns = 1..Len(columns)
  BY <1>3, <1>4
<1>6. \A i \in DOMAIN columns : columns[i] = columnOf(key[i][1])
  BY <1>3
<1>7. \A i, j \in DOMAIN columns : columns[i] = columns[j] => i = j
  BY <1>3, <1>4, <1>6 DEF columnOf, distinct
<1>8. \A i \in DOMAIN key : fieldOf(columns[i]) = key[i][1]
  BY <1>3, <1>4, <1>6 DEF columnOf, fieldOf
<1>9. { fieldOf(c) : c \in Range(columns) } = Range(fieldsOf(key))
  BY <1>4, <1>8 DEF Range, fieldsOf
<1>10. Range(columns) = { columnOf(x) : x \in Range(fieldsOf(key)) }
  BY <1>4, <1>6 DEF Range, fieldsOf
<1> QED
  BY <1>4, <1>5, <1>6, <1>7, <1>9, <1>10 DEF key, columns

\* A text key is text all over, and any other has none.
LEMMA KindFacts ==
    ASSUME NEW d \in Asked
    PROVE  /\ d.key \in Seq(Entry) /\ d.kind \in {"btree", "fulltext"}
           /\ d.kind = "fulltext" => \A e \in Range(d.key) : e[2] = "text"
           /\ d.kind = "btree" => \A e \in Range(d.key) : e[2] # "text"
<1>1. IsResolved(d)
  BY AskedFacts
<1>2. /\ d.key \in Seq(Entry) /\ d.kind = resolveIndexKind(d.key)
      /\ isText(d.key) => \A i \in DOMAIN d.key : d.key[i][2] = "text"
      /\ d.kind \in {"btree", "fulltext"}
  BY <1>1 DEF IsResolved, Entry
<1> QED
  BY <1>2 DEF resolveIndexKind, isText, Range

\* Which statements define it.
LEMMA StatementFacts ==
    ASSUME NEW d \in Asked
    PROVE  LET B == buildIndexStatements(d) IN
           /\ Len(B) \in Nat \ {0} /\ DOMAIN B = 1..Len(B)
           /\ Len(B) = IF d.kind = "fulltext" THEN Len(d.columns) ELSE 1
           /\ \A j \in DOMAIN B : /\ B[j] = <<B[j][1], B[j][2]>>
                                  /\ B[j][1] = physicalIndexName(d, d.columns[j])
                                  /\ B[j][2].kind = d.kind
                                  /\ B[j][2].comment = encodeIndexMetadata(d)
                                  /\ B[j][2].columns = IF d.kind = "fulltext" THEN <<d.columns[j]>>
                                                       ELSE d.columns
           /\ \A i, j \in DOMAIN B : B[i][1] = B[j][1] => i = j
           /\ physicalIndexNames(d) = { B[j][1] : j \in DOMAIN B }
<1> DEFINE B == buildIndexStatements(d)
           n == Len(d.columns)
<1>1. /\ n \in Nat \ {0} /\ DOMAIN d.columns = 1..n
      /\ \A i, j \in 1..n : d.columns[i] = d.columns[j] => i = j
  BY ColumnFacts
<1>2. d.name \in Seq(Strings)
  BY AskedFacts DEF IsResolved
<1>3. d.kind \in {"btree", "fulltext"}
  BY KindFacts
<1>4. ASSUME NEW i \in 1..n, NEW j \in 1..n,
             Append(d.name, d.columns[i]) = Append(d.name, d.columns[j])
      PROVE  i = j
  <2>1. \A x : Append(d.name, x)[Len(d.name) + 1] = x
    BY <1>2
  <2>2. d.columns[i] = d.columns[j]
    BY <2>1, <1>4
  <2> QED
    BY <1>1, <2>2
<1>5. CASE d.kind = "fulltext"
  <2>1. /\ DOMAIN B = 1..n /\ Len(B) = n
        /\ \A j \in 1..n : /\ B[j] = <<B[j][1], B[j][2]>>
                           /\ B[j][1] = physicalIndexName(d, d.columns[j])
                           /\ B[j][2].kind = d.kind
                           /\ B[j][2].comment = encodeIndexMetadata(d)
                           /\ B[j][2].columns = <<d.columns[j]>>
    BY <1>1, <1>5 DEF buildIndexStatements
  <2> HIDE DEF B
  <2>2. \A i, j \in 1..n : B[i][1] = B[j][1] => i = j
    <3>1. CASE n > 1
      <4>1. \A i \in 1..n : B[i][1] = Append(d.name, d.columns[i])
        BY <1>5, <2>1, <3>1 DEF physicalIndexName
      <4> QED
        BY <1>4, <4>1
    <3>2. CASE n = 1
      BY <3>2
    <3> QED
      BY <1>1, <3>1, <3>2
  <2>3. physicalIndexNames(d) = { B[j][1] : j \in DOMAIN B }
    BY <1>1, <2>1 DEF physicalIndexNames, Range
  <2> QED
    BY <1>1, <1>5, <2>1, <2>2, <2>3 DEF B
<1>6. CASE d.kind = "btree"
  <2>1. /\ DOMAIN B = 1..1 /\ Len(B) = 1
        /\ B[1] = <<B[1][1], B[1][2]>>
        /\ B[1][1] = d.name
        /\ B[1][2].kind = d.kind
        /\ B[1][2].comment = encodeIndexMetadata(d)
        /\ B[1][2].columns = d.columns
    BY <1>6 DEF buildIndexStatements
  <2>2. \A x : physicalIndexName(d, x) = d.name
    BY <1>6 DEF physicalIndexName
  <2>3. Range(d.columns) # {}
    <3>1. 1 \in DOMAIN d.columns
      BY <1>1
    <3> QED
      BY <3>1 DEF Range
  <2>4. physicalIndexNames(d) = {d.name}
    BY <2>2, <2>3 DEF physicalIndexNames
  <2> HIDE DEF B
  <2>5. \A j \in DOMAIN B : j = 1
    BY <2>1
  <2> QED
    BY <1>6, <2>1, <2>2, <2>4, <2>5 DEF B
<1> QED
  BY <1>3, <1>5, <1>6

\* What an index of the server says when it was defined for d.
LEMMA PartFacts ==
    ASSUME NEW d \in Asked, NEW p, NEW index, isPartOf(d, p, index)
    PROVE  /\ p \in physicalIndexNames(d) /\ p # ID_INDEX_NAME /\ ~byHand(index)
           /\ index.kind = d.kind
           /\ describeOne(p, index).name = d.name
           /\ describeOne(p, index).key = keyToObject(d.key)
           /\ d.kind = "btree" => p = d.name
           /\ Len(d.columns) = 1 => p = d.name
<1> DEFINE B == buildIndexStatements(d)
<1>1. PICK j \in DOMAIN B : B[j] = <<p, index>>
  BY DEF isPartOf
<1>2. /\ B[j][1] = physicalIndexName(d, d.columns[j]) /\ B[j][2].kind = d.kind
      /\ B[j][2].comment = encodeIndexMetadata(d)
      /\ physicalIndexNames(d) = { B[i][1] : i \in DOMAIN B }
  BY StatementFacts
<1>3. B[j][1] = p /\ B[j][2] = index
  BY <1>1
<1> HIDE DEF B
<1>4. index.comment = {[name |-> d.name, key |-> keyToObject(d.key),
                        unique |-> d.unique, sparse |-> d.sparse]}
  BY <1>2, <1>3 DEF encodeIndexMetadata
<1>5. describeOne(p, index) = [name |-> d.name, key |-> keyToObject(d.key),
                               unique |-> d.unique, sparse |-> d.sparse]
  <2> DEFINE metadata == [name |-> d.name, key |-> keyToObject(d.key),
                          unique |-> d.unique, sparse |-> d.sparse]
  <2>1. index.comment = {metadata}
    BY <1>4
  <2> HIDE DEF metadata
  <2>2. describeOne(p, index) = CHOOSE m \in {metadata} : TRUE
    BY <2>1 DEF describeOne
  <2>3. (CHOOSE m \in {metadata} : TRUE) = metadata
    OBVIOUS
  <2> QED
    BY <2>2, <2>3 DEF metadata
<1>6. ~byHand(index)
  <2>1. byHand(index) => index.comment = {}
    BY DEF byHand
  <2> QED
    BY <1>4, <2>1
<1>7. d.name \in Seq(Strings) /\ d.name # <<>> /\ d.name # ID_INDEX_NAME
  BY AskedFacts DEF IsResolved
<1>8. p # ID_INDEX_NAME
  <2>1. CASE p = d.name
    BY <1>7, <2>1
  <2>2. CASE p = Append(d.name, d.columns[j])
    <3>1. Len(p) = Len(d.name) + 1 /\ Len(d.name) \in Nat \ {0}
      BY <1>7, <2>2
    <3>2. Len(p) # 1
      BY <3>1
    <3>3. Len(ID_INDEX_NAME) = 1
      BY DEF ID_INDEX_NAME
    <3> QED
      BY <3>2, <3>3
  <2> QED
    BY <1>2, <1>3, <2>1, <2>2 DEF physicalIndexName
<1>9. p \in physicalIndexNames(d)
  BY <1>2, <1>3
<1>10. (d.kind = "btree" => p = d.name) /\ (Len(d.columns) = 1 => p = d.name)
  <2>1. p = physicalIndexName(d, d.columns[j])
    BY <1>2, <1>3
  <2>2. d.kind = "btree" => physicalIndexName(d, d.columns[j]) = d.name
    BY DEF physicalIndexName
  <2>3. Len(d.columns) = 1 => physicalIndexName(d, d.columns[j]) = d.name
    BY DEF physicalIndexName
  <2> QED
    BY <2>1, <2>2, <2>3
<1> QED
  BY <1>2, <1>3, <1>5, <1>6, <1>8, <1>9, <1>10

\* All the parts of d index its columns, and nothing else.
LEMMA PartColumns ==
    ASSUME NEW d \in Asked, NEW T,
           \A p \in physicalIndexNames(d) : isPartOf(d, p, T[p])
    PROVE  UNION { Range(T[p].columns) : p \in physicalIndexNames(d) } = Range(d.columns)
<1> DEFINE B == buildIndexStatements(d)
           n == Len(B)
<1>1. /\ n \in Nat \ {0} /\ DOMAIN B = 1..n
      /\ n = IF d.kind = "fulltext" THEN Len(d.columns) ELSE 1
      /\ \A j \in 1..n : B[j][2].columns = IF d.kind = "fulltext" THEN <<d.columns[j]>>
                                           ELSE d.columns
      /\ \A i, j \in 1..n : B[i][1] = B[j][1] => i = j
      /\ physicalIndexNames(d) = { B[j][1] : j \in 1..n }
  BY StatementFacts
<1>2. DOMAIN d.columns = 1..Len(d.columns)
  BY ColumnFacts
<1>3. \A j \in 1..n : T[B[j][1]] = B[j][2]
  <2> SUFFICES ASSUME NEW j \in 1..n PROVE T[B[j][1]] = B[j][2]
    OBVIOUS
  <2>1. isPartOf(d, B[j][1], T[B[j][1]])
    BY <1>1
  <2>2. PICK i \in DOMAIN B : B[i] = <<B[j][1], T[B[j][1]]>>
    BY <2>1 DEF isPartOf
  <2>3. i \in 1..n /\ B[i][1] = B[j][1] /\ B[i][2] = T[B[j][1]]
    BY <1>1, <2>2
  <2> HIDE DEF B, n
  <2> QED
    BY <1>1, <2>3
<1> HIDE DEF B
<1>4. UNION { Range(T[p].columns) : p \in physicalIndexNames(d) }
        = UNION { Range(B[j][2].columns) : j \in 1..n }
  BY <1>1, <1>3
<1>5. CASE d.kind = "fulltext"
  <2>1. \A j \in 1..n : Range(B[j][2].columns) = {d.columns[j]}
    <3>1. \A x : Range(<<x>>) = {x}
      BY DEF Range
    <3> QED
      BY <1>1, <1>5, <3>1
  <2>2. Range(d.columns) = { d.columns[j] : j \in 1..n }
    BY <1>1, <1>2, <1>5 DEF Range
  <2>3. UNION { Range(B[j][2].columns) : j \in 1..n } = UNION { {d.columns[j]} : j \in 1..n }
    BY <2>1
  <2>4. UNION { {d.columns[j]} : j \in 1..n } = { d.columns[j] : j \in 1..n }
    OBVIOUS
  <2> QED
    BY <1>4, <2>2, <2>3, <2>4
<1>6. CASE d.kind # "fulltext"
  <2>1. n = 1 /\ B[1][2].columns = d.columns
    BY <1>1, <1>6
  <2> QED
    BY <1>4, <2>1
<1> QED
  BY <1>5, <1>6

\* Definitions of one name and the same columns are the same indexes.
LEMMA SameNames ==
    ASSUME NEW d \in Asked, NEW e \in Asked, d.name = e.name, d.kind = e.kind,
           Len(d.columns) > 1, Len(e.columns) > 1, Range(d.columns) = Range(e.columns)
    PROVE  physicalIndexNames(d) = physicalIndexNames(e)
<1>1. \A x : physicalIndexName(d, x) = physicalIndexName(e, x)
  BY DEF physicalIndexName
<1> QED
  BY <1>1 DEF physicalIndexNames

\* single(d), read the other way: a text index of several columns has several parts.
LEMMA SingleFacts ==
    ASSUME NEW d \in Asked
    PROVE  /\ single(d) <=> ~(d.kind = "fulltext" /\ Len(d.columns) > 1)
           /\ single(d) <=> Len(buildIndexStatements(d)) = 1
           /\ single(d) => physicalIndexNames(d) = {d.name}
<1> DEFINE B == buildIndexStatements(d)
           S == physicalIndexNames(d)
           n == Len(B)
           m == Len(d.columns)
<1>1. /\ n \in Nat \ {0} /\ DOMAIN B = 1..n
      /\ n = IF d.kind = "fulltext" THEN m ELSE 1
      /\ \A j \in DOMAIN B : B[j][1] = physicalIndexName(d, d.columns[j])
      /\ \A i, j \in DOMAIN B : B[i][1] = B[j][1] => i = j
      /\ S = { B[j][1] : j \in DOMAIN B }
  BY StatementFacts
<1>2. m \in Nat \ {0}
  BY ColumnFacts
<1> HIDE DEF B, S, n, m
<1>3. CASE n = 1
  <2>1. S = {B[1][1]} /\ B[1][1] = d.name
    <3>1. DOMAIN B = {1}
      BY <1>1, <1>3
    <3>2. ~(d.kind = "fulltext" /\ m > 1)
      BY <1>1, <1>2, <1>3
    <3> QED
      BY <1>1, <3>1, <3>2 DEF physicalIndexName, m
  <2>2. Cardinality(S) = 1
    BY <2>1, FS_Singleton
  <2>3. single(d) /\ S = {d.name}
    BY <2>1, <2>2 DEF single, S
  <2>4. ~(d.kind = "fulltext" /\ m > 1)
    BY <1>1, <1>2, <1>3
  <2> QED
    BY <1>3, <2>3, <2>4 DEF B, S, n, m
<1>4. CASE n # 1
  <2>1. B[1][1] \in S /\ B[2][1] \in S /\ B[1][1] # B[2][1]
    <3>1. 1 \in DOMAIN B /\ 2 \in DOMAIN B
      BY <1>1, <1>4
    <3> QED
      BY <1>1, <3>1
  <2>2. Cardinality(S) # 1
    <3>1. S = { B[j][1] : j \in 1..n }
      BY <1>1
    <3>2. IsFiniteSet(1..n)
      <4>1. 1 \in Int /\ n \in Int
        BY <1>1
      <4> QED
        BY <4>1, FS_Interval
    <3>3. IsFiniteSet(S)
      <4> DEFINE g == [j \in 1..n |-> B[j][1]]
                 D == 1..n
      <4>1. g \in Surjection(D, S)
        BY <3>1 DEF Surjection
      <4> HIDE DEF g, D
      <4>2. IsFiniteSet(D)
        BY <3>2 DEF D
      <4> QED
        BY <4>1, <4>2, FS_Surjection
    <3> QED
      BY <2>1, <3>3, FS_Singleton
  <2>3. ~single(d) /\ n # 1
    BY <1>1, <1>4, <2>2 DEF single, S
  <2>4. d.kind = "fulltext" /\ m > 1
    BY <1>1, <1>2, <1>4
  <2> QED
    BY <2>3, <2>4 DEF B, n, m
<1> QED
  BY <1>3, <1>4

-----------------------------------------------------------------------------
(* The inventory of a table *)

\* Every index was defined by hand or for a definition that was asked for.
WellMade(T) ==
    /\ IsFiniteSet(DOMAIN T) /\ T = [p \in DOMAIN T |-> T[p]]
    /\ \A p \in DOMAIN T : byHand(T[p]) \/ \E d \in Asked : isPartOf(d, p, T[p])

\* No index called n is there in part, or mixes those of two.
isAllOf(T, d) == /\ partsOf(T, d.name) = physicalIndexNames(d)
                 /\ \A p \in partsOf(T, d.name) : isPartOf(d, p, T[p])
Whole(T, n) == \/ \A p \in partsOf(T, n) : byHand(T[p])
               \/ \E d \in Asked : d.name = n /\ isAllOf(T, d)

LEMMA ByHandFacts ==
    ASSUME NEW p, NEW index, byHand(index)
    PROVE  /\ describeOne(p, index).name = p
           /\ describeOne(p, index).key \in Seq(Entry)
           /\ Range(fieldsOf(describeOne(p, index).key)) = { fieldOf(c) : c \in Range(index.columns) }
           /\ \A e \in Range(describeOne(p, index).key) :
                 e[2] = IF index.kind = "fulltext" THEN "text" ELSE "1"
           /\ index.kind = "fulltext" =>
                Range(fieldsOf(describeOne(p, index).key)) = {fieldOf(index.columns[1])}
<1> DEFINE columns == index.columns
           n == Len(columns)
           word == IF index.kind = "fulltext" THEN "text" ELSE "1"
           key == inferKey(index)
<1>1. /\ columns \in Seq(Strings) /\ index.comment = {}
      /\ index.kind = "fulltext" => n = 1
  BY DEF byHand
<1>2. describeOne(p, index).name = p /\ describeOne(p, index).key = key
  BY <1>1 DEF describeOne
<1>3. key = [i \in DOMAIN columns |-> <<fieldOf(columns[i]), word>>]
  BY DEF inferKey
<1>4. word \in Strings
  BY DEF Strings
<1> HIDE DEF key, columns, word
<1>5. \A i \in DOMAIN columns : fieldOf(columns[i]) \in Strings
  <2>1. \A x \in Strings : fieldOf(x) \in Strings
    BY DEF fieldOf, Strings
  <2> QED
    BY <1>1, <2>1
<1>6. key \in Seq(Entry)
  BY <1>1, <1>3, <1>4, <1>5 DEF Entry
<1>7. \A e \in Range(key) : e[2] = word
  BY <1>3 DEF Range
<1>8. Range(fieldsOf(key)) = { fieldOf(c) : c \in Range(columns) }
  BY <1>3 DEF Range, fieldsOf
<1>9. ASSUME index.kind = "fulltext" PROVE Range(fieldsOf(key)) = {fieldOf(columns[1])}
  <2>1. DOMAIN columns = {1}
    BY <1>1, <1>9
  <2>2. Range(columns) = {columns[1]}
    BY <2>1 DEF Range
  <2> QED
    BY <1>8, <2>2
<1> QED
  BY <1>2, <1>6, <1>7, <1>8, <1>9 DEF columns, word

\* Each index of a table describes itself by a key.
LEMMA DescribedFacts ==
    ASSUME NEW T, WellMade(T), NEW p \in DOMAIN T
    PROVE  describeOne(p, T[p]).key \in Seq(Entry)
<1>1. CASE byHand(T[p])
  BY <1>1, ByHandFacts
<1>2. ASSUME NEW d \in Asked, isPartOf(d, p, T[p])
      PROVE  describeOne(p, T[p]).key \in Seq(Entry)
  <2>1. d.key \in Seq(Entry)
    BY KindFacts
  <2>2. keyToObject(d.key) \in Seq(Entry)
    <3> DEFINE key == d.key
    <3> HIDE DEF key
    <3>1. key \in Seq(Entry)
      BY <2>1 DEF key
    <3>2. keyToObject(key) \in Seq(Entry)
      BY <3>1, KeyToObjectFacts
    <3> QED
      BY <3>2 DEF key
  <2> QED
    BY <1>2, <2>2, PartFacts
<1> QED
  BY <1>1, <1>2 DEF WellMade

\* A name is listed when the table has something of it, and what is listed
\* has the fields of its parts.
LEMMA InventoryFacts ==
    ASSUME NEW T, WellMade(T), NEW n, n # ID_INDEX_NAME
    PROVE  /\ n \in DOMAIN describeIndexes(T) <=> partsOf(T, n) # {}
           /\ n \in DOMAIN describeIndexes(T) =>
                LET key == describeIndexes(T)[n].key IN
                /\ key \in Seq(Entry)
                /\ Range(fieldsOf(key)) =
                     UNION { Range(fieldsOf(describeOne(p, T[p]).key)) : p \in partsOf(T, n) }
                /\ Range(key) \subseteq UNION { Range(describeOne(p, T[p]).key) : p \in partsOf(T, n) }
<1> DEFINE parts == [p \in partsOf(T, n) |-> T[p]]
<1>1. n \in DOMAIN describeIndexes(T) <=> partsOf(T, n) # {}
  BY DEF describeIndexes, partsOf
<1>2. n \in DOMAIN describeIndexes(T) => describeIndexes(T)[n] = describeParts(parts)
  BY DEF describeIndexes
<1>3. DOMAIN parts = partsOf(T, n) /\ \A p \in DOMAIN parts : parts[p] = T[p]
  OBVIOUS
<1>4. partsOf(T, n) \subseteq DOMAIN T
  BY DEF partsOf
<1>5. IsFiniteSet(DOMAIN parts)
  <2> DEFINE S == DOMAIN T
             R == partsOf(T, n)
  <2>1. IsFiniteSet(S) /\ R \in SUBSET S
    BY <1>4 DEF WellMade
  <2> HIDE DEF S, R
  <2>2. IsFiniteSet(R)
    BY <2>1, FS_Subset
  <2> QED
    BY <1>3, <2>2 DEF R
<1> HIDE DEF parts
<1>6. \A p \in DOMAIN parts : describeOne(p, parts[p]).key \in Seq(Entry)
  BY <1>3, <1>4, DescribedFacts
<1>7. LET key == describeParts(parts).key IN
      /\ key \in Seq(Entry)
      /\ Range(fieldsOf(key)) =
           UNION { Range(fieldsOf(describeOne(p, parts[p]).key)) : p \in DOMAIN parts }
      /\ Range(key) \subseteq UNION { Range(describeOne(p, parts[p]).key) : p \in DOMAIN parts }
  BY <1>5, <1>6, DescribePartsFacts
<1> QED
  BY <1>1, <1>2, <1>3, <1>7

LEMMA IdIndexFacts ==
    ASSUME NEW T
    PROVE  /\ ID_INDEX_NAME \in DOMAIN describeIndexes(T)
           /\ textFieldsOfKey(describeIndexes(T)[ID_INDEX_NAME].key) = {}
<1>1. ID_INDEX_NAME \in DOMAIN describeIndexes(T)
  BY DEF describeIndexes
<1>2. describeIndexes(T)[ID_INDEX_NAME] = idIndexDescription
  BY <1>1 DEF describeIndexes
<1>3. DOMAIN <<<<"_id", "1">>>> = {1} /\ <<<<"_id", "1">>>>[1] = <<"_id", "1">>
  OBVIOUS
<1>4. textFieldsOfKey(<<<<"_id", "1">>>>) = {}
  BY <1>3 DEF textFieldsOfKey
<1> QED
  BY <1>1, <1>2, <1>4 DEF idIndexDescription

\* A name is described the same wherever its parts are the same.
LEMMA SameParts ==
    ASSUME NEW T, NEW U, NEW n, n # ID_INDEX_NAME, partsOf(T, n) = partsOf(U, n),
           \A p \in partsOf(T, n) : T[p] = U[p]
    PROVE  /\ n \in DOMAIN describeIndexes(T) <=> n \in DOMAIN describeIndexes(U)
           /\ n \in DOMAIN describeIndexes(T) => describeIndexes(T)[n] = describeIndexes(U)[n]
           /\ Whole(T, n) => Whole(U, n)
<1>1. [p \in partsOf(T, n) |-> T[p]] = [p \in partsOf(U, n) |-> U[p]]
  OBVIOUS
<1>2. /\ n \in DOMAIN describeIndexes(T) <=> partsOf(T, n) # {}
      /\ n \in DOMAIN describeIndexes(U) <=> partsOf(U, n) # {}
  BY DEF describeIndexes, partsOf
<1>3. /\ n \in DOMAIN describeIndexes(T) =>
           describeIndexes(T)[n] = describeParts([p \in partsOf(T, n) |-> T[p]])
      /\ n \in DOMAIN describeIndexes(U) =>
           describeIndexes(U)[n] = describeParts([p \in partsOf(U, n) |-> U[p]])
  BY DEF describeIndexes
<1>4. Whole(T, n) => Whole(U, n)
  BY DEF Whole, isAllOf
<1> QED
  BY <1>1, <1>2, <1>3, <1>4

\* A listed name that is whole: its fields are indexed, and its text fields are
\* those of its text indexes.
indexedBy(T, S) == { fieldOf(c) : c \in UNION { Range(T[p].columns) : p \in S } }
textParts(T, n) == { p \in partsOf(T, n) : T[p].kind = "fulltext" }

LEMMA AllOfFacts ==
    ASSUME NEW T, WellMade(T), NEW d \in Asked, isAllOf(T, d)
    PROVE  LET key == describeIndexes(T)[d.name].key IN
           /\ d.name \in DOMAIN describeIndexes(T)
           /\ key \in Seq(Entry) /\ Range(key) \subseteq Range(d.key)
           /\ Range(fieldsOf(key)) = Range(fieldsOf(d.key))
           /\ Range(fieldsOf(key)) = indexedBy(T, partsOf(T, d.name))
           /\ textFieldsOfKey(key) = textFieldsOfKey(keyToObject(d.key))
           /\ textFieldsOfKey(key) = indexedBy(T, textParts(T, d.name))
<1> DEFINE n == d.name
           S == partsOf(T, n)
           key == describeIndexes(T)[n].key
           whole == keyToObject(d.key)
<1>1. n # ID_INDEX_NAME
  BY AskedFacts
<1>2. S = physicalIndexNames(d) /\ \A p \in S : isPartOf(d, p, T[p])
  BY DEF isAllOf
<1>3. d.key \in Seq(Entry) /\ d.kind \in {"btree", "fulltext"}
  BY KindFacts
<1>4. whole \in Seq(Entry) /\ Range(whole) = Range(d.key)
  <2> DEFINE k == d.key
  <2> HIDE DEF k
  <2>1. k \in Seq(Entry)
    BY <1>3 DEF k
  <2>2. keyToObject(k) \in Seq(Entry) /\ Range(keyToObject(k)) = Range(k)
    BY <2>1, KeyToObjectFacts
  <2> QED
    BY <2>2 DEF k
<1>5. S # {}
  <2>1. 1 \in DOMAIN d.columns
    BY ColumnFacts
  <2>2. d.columns[1] \in Range(d.columns)
    BY <2>1 DEF Range
  <2> QED
    BY <1>2, <2>2 DEF physicalIndexNames
<1>6. \A p \in S : describeOne(p, T[p]).key = whole /\ T[p].kind = d.kind
  BY <1>2, PartFacts
<1> HIDE DEF whole
<1>7. /\ n \in DOMAIN describeIndexes(T) /\ key \in Seq(Entry)
      /\ Range(fieldsOf(key)) = UNION { Range(fieldsOf(describeOne(p, T[p]).key)) : p \in S }
      /\ Range(key) \subseteq UNION { Range(describeOne(p, T[p]).key) : p \in S }
  <2> DEFINE m == n
  <2>1. m # ID_INDEX_NAME /\ partsOf(T, m) # {}
    BY <1>1, <1>5
  <2> HIDE DEF m
  <2>2. /\ m \in DOMAIN describeIndexes(T) <=> partsOf(T, m) # {}
        /\ m \in DOMAIN describeIndexes(T) =>
             LET k == describeIndexes(T)[m].key IN
             /\ k \in Seq(Entry)
             /\ Range(fieldsOf(k)) =
                  UNION { Range(fieldsOf(describeOne(p, T[p]).key)) : p \in partsOf(T, m) }
             /\ Range(k) \subseteq UNION { Range(describeOne(p, T[p]).key) : p \in partsOf(T, m) }
    BY <2>1, InventoryFacts
  <2> QED
    BY <2>1, <2>2 DEF m
<1> HIDE DEF key, S
<1>8. Range(fieldsOf(key)) = Range(fieldsOf(whole)) /\ Range(key) \subseteq Range(whole)
  <2>1. UNION { Range(fieldsOf(describeOne(p, T[p]).key)) : p \in S } = Range(fieldsOf(whole))
    BY <1>5, <1>6
  <2>2. UNION { Range(describeOne(p, T[p]).key) : p \in S } \subseteq Range(whole)
    BY <1>6
  <2> QED
    BY <1>7, <2>1, <2>2
<1> DEFINE dkey == d.key
<1>9. dkey \in Seq(Entry) /\ Range(whole) = Range(dkey)
  BY <1>3, <1>4
<1> HIDE DEF dkey
<1>10. /\ Range(fieldsOf(key)) = { e[1] : e \in Range(key) }
       /\ Range(fieldsOf(whole)) = { e[1] : e \in Range(whole) }
       /\ Range(fieldsOf(dkey)) = { e[1] : e \in Range(dkey) }
       /\ textFieldsOfKey(key) = { e[1] : e \in { x \in Range(key) : x[2] = "text" } }
       /\ textFieldsOfKey(whole) = { e[1] : e \in { x \in Range(whole) : x[2] = "text" } }
  BY <1>4, <1>7, <1>9, FieldsOfRange
<1>11. Range(fieldsOf(key)) = Range(fieldsOf(dkey)) /\ Range(key) \subseteq Range(dkey)
  BY <1>8, <1>9, <1>10
<1>12. Range(fieldsOf(key)) = indexedBy(T, S)
  <2>1. UNION { Range(T[p].columns) : p \in S } = Range(d.columns)
    BY <1>2, PartColumns
  <2>2. { fieldOf(c) : c \in Range(d.columns) } = Range(fieldsOf(dkey))
    BY ColumnFacts DEF dkey
  <2> QED
    BY <1>11, <2>1, <2>2 DEF indexedBy
<1>13. CASE d.kind = "fulltext"
  <2>1. \A e \in Range(dkey) : e[2] = "text"
    BY <1>13, KindFacts DEF dkey
  <2>2. /\ textFieldsOfKey(key) = Range(fieldsOf(key))
        /\ textFieldsOfKey(whole) = Range(fieldsOf(whole))
    BY <1>9, <1>10, <1>11, <2>1
  <2>3. textParts(T, n) = S
    BY <1>6, <1>13 DEF textParts, S
  <2> QED
    BY <1>7, <1>8, <1>11, <1>12, <2>2, <2>3 DEF key, whole, dkey, S
<1>14. CASE d.kind = "btree"
  <2>1. \A e \in Range(dkey) : e[2] # "text"
    BY <1>14, KindFacts DEF dkey
  <2>2. textFieldsOfKey(key) = {} /\ textFieldsOfKey(whole) = {}
    BY <1>9, <1>10, <1>11, <2>1
  <2>3. textParts(T, n) = {}
    BY <1>6, <1>14 DEF textParts, S
  <2>4. indexedBy(T, {}) = {}
    BY DEF indexedBy
  <2> QED
    BY <1>7, <1>11, <1>12, <2>2, <2>3, <2>4 DEF key, whole, dkey, S
<1> QED
  BY <1>3, <1>13, <1>14

LEMMA WholeFields ==
    ASSUME NEW T, WellMade(T), NEW n, n # ID_INDEX_NAME, Whole(T, n),
           n \in DOMAIN describeIndexes(T)
    PROVE  LET key == describeIndexes(T)[n].key IN
           /\ Range(fieldsOf(key)) = indexedBy(T, partsOf(T, n))
           /\ textFieldsOfKey(key) = indexedBy(T, textParts(T, n))
<1>1. ASSUME NEW d \in Asked, d.name = n, isAllOf(T, d)
      PROVE  LET key == describeIndexes(T)[n].key IN
             /\ Range(fieldsOf(key)) = indexedBy(T, partsOf(T, n))
             /\ textFieldsOfKey(key) = indexedBy(T, textParts(T, n))
  BY <1>1, AllOfFacts
<1>2. ASSUME \A p \in partsOf(T, n) : byHand(T[p])
      PROVE  LET key == describeIndexes(T)[n].key IN
             /\ Range(fieldsOf(key)) = indexedBy(T, partsOf(T, n))
             /\ textFieldsOfKey(key) = indexedBy(T, textParts(T, n))
  <2> DEFINE key == describeIndexes(T)[n].key
             keyOf == describeOne(n, T[n]).key
             columns == T[n].columns
  <2>1. partsOf(T, n) # {}
    BY InventoryFacts
  <2>2. \A p \in partsOf(T, n) : describeOne(p, T[p]).name = p
    BY <1>2, ByHandFacts
  <2>3. partsOf(T, n) = {n} /\ byHand(T[n])
    BY <1>2, <2>1, <2>2 DEF partsOf
  <2>4. /\ key \in Seq(Entry)
        /\ Range(fieldsOf(key)) = UNION { Range(fieldsOf(describeOne(p, T[p]).key)) : p \in {n} }
        /\ Range(key) \subseteq UNION { Range(describeOne(p, T[p]).key) : p \in {n} }
    BY <2>3, InventoryFacts
  <2>5. Range(fieldsOf(key)) = Range(fieldsOf(keyOf)) /\ Range(key) \subseteq Range(keyOf)
    BY <2>4
  <2>6. /\ Range(fieldsOf(keyOf)) = { fieldOf(c) : c \in Range(columns) }
        /\ \A e \in Range(keyOf) : e[2] = IF T[n].kind = "fulltext" THEN "text" ELSE "1"
    <3> DEFINE index == T[n]
    <3> HIDE DEF index
    <3>1. byHand(index)
      BY <2>3 DEF index
    <3>2. /\ Range(fieldsOf(describeOne(n, index).key)) = { fieldOf(c) : c \in Range(index.columns) }
          /\ \A e \in Range(describeOne(n, index).key) :
                e[2] = IF index.kind = "fulltext" THEN "text" ELSE "1"
      BY <3>1, ByHandFacts
    <3> QED
      BY <3>2 DEF index
  <2> HIDE DEF key, keyOf, columns
  <2>7. indexedBy(T, {n}) = { fieldOf(c) : c \in Range(columns) }
    <3>1. UNION { Range(T[p].columns) : p \in {n} } = Range(columns)
      BY DEF columns
    <3> QED
      BY <3>1 DEF indexedBy
  <2>8. Range(fieldsOf(key)) = indexedBy(T, partsOf(T, n))
    BY <2>3, <2>5, <2>6, <2>7
  <2>9. /\ Range(fieldsOf(key)) = { e[1] : e \in Range(key) }
        /\ textFieldsOfKey(key) = { e[1] : e \in { x \in Range(key) : x[2] = "text" } }
    BY <2>4, FieldsOfRange
  <2>10. CASE T[n].kind = "fulltext"
    <3>1. textFieldsOfKey(key) = Range(fieldsOf(key))
      BY <2>5, <2>6, <2>9, <2>10
    <3>2. textParts(T, n) = partsOf(T, n)
      BY <2>3, <2>10 DEF textParts
    <3> QED
      BY <2>8, <3>1, <3>2 DEF key
  <2>11. CASE T[n].kind # "fulltext"
    <3>1. textFieldsOfKey(key) = {}
      BY <2>5, <2>6, <2>9, <2>11
    <3>2. textParts(T, n) = {}
      BY <2>3, <2>11 DEF textParts
    <3>3. indexedBy(T, {}) = {}
      BY DEF indexedBy
    <3> QED
      BY <2>8, <3>1, <3>2, <3>3 DEF key
  <2> QED
    BY <2>10, <2>11
<1> QED
  BY <1>1, <1>2 DEF Whole

\* What a definition is taken for that is there already has its names: a single
\* index whatever else bears the name, one of several parts if none is missing.
LEMMA DefinedNames ==
    ASSUME NEW T, WellMade(T), NEW d \in Asked, isDefined(T, d),
           single(d) \/ Whole(T, d.name)
    PROVE  physicalIndexNames(d) \subseteq DOMAIN T
<1> DEFINE n == d.name
           S == partsOf(T, n)
           key == describeIndexes(T)[n].key
           dkey == d.key
<1>1. n # ID_INDEX_NAME /\ IsResolved(d)
  BY AskedFacts
<1>2. n \in DOMAIN describeIndexes(T) /\ key = keyToObject(dkey)
  BY DEF isDefined, isEquivalent
<1>3. /\ dkey \in Seq(Entry) /\ d.kind \in {"btree", "fulltext"}
      /\ d.kind = "fulltext" => \A e \in Range(dkey) : e[2] = "text"
      /\ d.kind = "btree" => \A e \in Range(dkey) : e[2] # "text"
  BY KindFacts
<1>4. S # {} /\ S \subseteq DOMAIN T
  BY <1>1, <1>2, InventoryFacts DEF partsOf
<1>5. /\ key \in Seq(Entry)
      /\ Range(fieldsOf(key)) = UNION { Range(fieldsOf(describeOne(p, T[p]).key)) : p \in S }
      /\ Range(key) \subseteq UNION { Range(describeOne(p, T[p]).key) : p \in S }
  BY <1>1, <1>2, InventoryFacts
<1>6. /\ \A i, j \in DOMAIN dkey : dkey[i][1] = dkey[j][1] => i = j
      /\ dkey # <<>> /\ DOMAIN dkey = 1..Len(d.columns) /\ Len(d.columns) \in Nat \ {0}
  BY <1>1, ColumnFacts DEF IsResolved
<1> HIDE DEF dkey
<1>7. Range(key) = Range(dkey)
  BY <1>2, <1>3, KeyToObjectFacts
<1>8. Range(fieldsOf(key)) = Range(fieldsOf(dkey))
  BY <1>3, <1>5, <1>7, FieldsOfRange
<1>9. \A p \in S : describeOne(p, T[p]).name = n /\ (byHand(T[p]) \/ \E e \in Asked : isPartOf(e, p, T[p]))
  BY DEF WellMade, partsOf
<1> HIDE DEF S, key
<1>10. \A p \in S : byHand(T[p]) => p = n
  BY <1>9, ByHandFacts
<1>11. ASSUME NEW p \in S, NEW e \in Asked, isPartOf(e, p, T[p])
       PROVE  /\ e.name = n /\ (e.kind = "btree" \/ Len(e.columns) = 1 => p = n)
              /\ describeOne(p, T[p]).key = keyToObject(e.key)
              /\ e.key \in Seq(Entry)
              /\ Range(keyToObject(e.key)) = Range(e.key)
              /\ Range(fieldsOf(keyToObject(e.key))) = Range(fieldsOf(e.key))
  <2>1. /\ describeOne(p, T[p]).name = e.name /\ (e.kind = "btree" => p = e.name)
        /\ Len(e.columns) = 1 => p = e.name
        /\ describeOne(p, T[p]).key = keyToObject(e.key)
    BY <1>11, PartFacts
  <2> DEFINE k == e.key
  <2>2. k \in Seq(Entry)
    BY KindFacts
  <2> HIDE DEF k
  <2>3. keyToObject(k) \in Seq(Entry) /\ Range(keyToObject(k)) = Range(k)
    BY <2>2, KeyToObjectFacts
  <2> DEFINE o == keyToObject(k)
  <2> HIDE DEF o
  <2>4. Range(fieldsOf(o)) = Range(fieldsOf(k))
    <3>1. o \in Seq(Entry) /\ Range(o) = Range(k)
      BY <2>3 DEF o
    <3> QED
      BY <2>2, <3>1, FieldsOfRange
  <2> QED
    BY <1>9, <2>1, <2>2, <2>3, <2>4 DEF k, o
\* The fields of a definition of several columns are more than one.
<1>12. ASSUME NEW e \in Asked, Len(e.columns) # 1, NEW x PROVE Range(fieldsOf(e.key)) # {x}
  <2> DEFINE k == e.key
             m == Len(e.columns)
  <2>1. DOMAIN k = 1..m /\ m \in Nat \ {0} /\ \A i, j \in DOMAIN k : k[i][1] = k[j][1] => i = j
    BY ColumnFacts, AskedFacts DEF IsResolved
  <2>2. m # 1
    BY <1>12
  <2> HIDE DEF k, m
  <2>3. 1 \in DOMAIN k /\ 2 \in DOMAIN k
    BY <2>1, <2>2
  <2>4. k[1][1] # k[2][1] /\ k[1][1] \in Range(fieldsOf(k)) /\ k[2][1] \in Range(fieldsOf(k))
    BY <2>1, <2>3 DEF Range, fieldsOf
  <2> QED
    BY <2>4 DEF k
\* A definition of one column, or of several.
<1> DEFINE m == Len(d.columns)
<1>m. m \in Nat \ {0} /\ DOMAIN dkey = 1..m /\ (single(d) <=> ~(d.kind = "fulltext" /\ m > 1))
  BY <1>6, SingleFacts
<1> HIDE DEF m
<1>13. ASSUME single(d) PROVE n \in S
  <2>1. d.kind = "btree" \/ m = 1
    BY <1>3, <1>m, <1>13
  <2>2. CASE d.kind = "btree"
    <3>1. PICK x : x \in Range(dkey)
      <4>1. 1 \in DOMAIN dkey
        BY <1>6
      <4> QED
        BY <4>1 DEF Range
    <3>2. PICK p \in S : x \in Range(describeOne(p, T[p]).key)
      BY <1>5, <1>7, <3>1
    <3>3. x[2] # "text"
      BY <1>3, <2>2, <3>1
    <3>4. ASSUME NEW e \in Asked, isPartOf(e, p, T[p]) PROVE p = n
      <4>1. x \in Range(e.key)
        BY <1>11, <3>2, <3>4
      <4>2. e.kind = "btree"
        BY <3>3, <4>1, KindFacts
      <4> QED
        BY <1>11, <3>4, <4>2
    <3> QED
      BY <1>9, <1>10, <3>4
  <2>3. CASE m = 1
    <3>1. Range(fieldsOf(dkey)) = {dkey[1][1]}
      <4>1. DOMAIN dkey = {1}
        BY <1>m, <2>3
      <4> QED
        BY <4>1 DEF Range, fieldsOf
    <3>2. PICK p \in S : TRUE
      BY <1>4
    <3>3. ASSUME NEW e \in Asked, isPartOf(e, p, T[p]) PROVE p = n
      <4>1. Range(fieldsOf(e.key)) \subseteq {dkey[1][1]}
        <5>1. Range(fieldsOf(describeOne(p, T[p]).key)) = Range(fieldsOf(e.key))
          BY <1>11, <3>3
        <5>2. Range(fieldsOf(describeOne(p, T[p]).key)) \subseteq Range(fieldsOf(key))
          BY <1>5
        <5> QED
          BY <1>8, <3>1, <5>1, <5>2
      <4>2. Range(fieldsOf(e.key)) # {}
        <5> DEFINE k == e.key
        <5>1. 1 \in DOMAIN k
          BY ColumnFacts
        <5> QED
          BY <5>1 DEF Range, fieldsOf
      <4>3. Range(fieldsOf(e.key)) = {dkey[1][1]}
        BY <4>1, <4>2
      <4>4. Len(e.columns) = 1
        BY <1>12, <4>3
      <4> QED
        BY <1>11, <3>3, <4>4
    <3> QED
      BY <1>9, <1>10, <3>2, <3>3
  <2> QED
    BY <2>1, <2>2, <2>3
<1>14. CASE single(d)
  <2>1. physicalIndexNames(d) = {n}
    BY <1>14, SingleFacts
  <2> QED
    BY <1>4, <1>13, <1>14, <2>1
<1>15. CASE ~single(d)
  <2>1. d.kind = "fulltext" /\ m > 1 /\ m # 1
    BY <1>m, <1>15
  <2>2. \A x \in Range(key) : x[2] = "text"
    BY <1>3, <1>7, <2>1
  <2>3. PICK x : x \in Range(key)
    <3>1. 1 \in DOMAIN dkey
      BY <1>6
    <3>2. dkey[1] \in Range(dkey)
      BY <3>1 DEF Range
    <3> QED
      BY <1>7, <3>2
  <2>4. ASSUME \A p \in S : byHand(T[p]) PROVE FALSE
    <3>1. S = {n} /\ byHand(T[n])
      BY <1>4, <1>10, <2>4
    <3>2. x \in Range(describeOne(n, T[n]).key)
      BY <1>5, <2>3, <3>1
    <3>3. x[2] = "text"
      BY <2>2, <2>3
    <3> DEFINE index == T[n]
               name == n
               byIt == describeOne(name, index).key
    <3>4. byHand(index)
      BY <3>1
    <3> HIDE DEF index, name
    <3>5. /\ \A e \in Range(byIt) : e[2] = IF index.kind = "fulltext" THEN "text" ELSE "1"
          /\ index.kind = "fulltext" => Range(fieldsOf(byIt)) = {fieldOf(index.columns[1])}
      <4>1. \A e \in Range(byIt) : e[2] = IF index.kind = "fulltext" THEN "text" ELSE "1"
        BY <3>4, ByHandFacts
      <4>2. index.kind = "fulltext" => Range(fieldsOf(byIt)) = {fieldOf(index.columns[1])}
        BY <3>4, ByHandFacts
      <4> QED
        BY <4>1, <4>2
    <3>6. x \in Range(byIt)
      BY <3>2 DEF index, name
    <3>7. Range(fieldsOf(key)) = Range(fieldsOf(byIt))
      <4>1. Range(fieldsOf(key)) = UNION { Range(fieldsOf(describeOne(p, T[p]).key)) : p \in {name} }
        BY <1>5, <3>1 DEF name
      <4>2. byIt = describeOne(name, T[name]).key
        BY DEF index, name
      <4> QED
        BY <4>1, <4>2
    <3> HIDE DEF byIt
    <3>8. \E y : Range(fieldsOf(dkey)) = {y}
      BY <1>8, <3>3, <3>5, <3>6, <3>7
    <3> QED
      BY <1>12, <2>1, <3>8 DEF dkey, m
  <2>5. PICK e \in Asked : e.name = n /\ isAllOf(T, e)
    BY <1>15, <2>4 DEF Whole, S
  <2>6. /\ Range(key) \subseteq Range(e.key) /\ Range(fieldsOf(key)) = Range(fieldsOf(e.key))
    BY <2>5, AllOfFacts DEF key
  <2>7. e.kind = "fulltext"
    BY <2>2, <2>3, <2>6, KindFacts
  <2>8. Range(fieldsOf(e.key)) = Range(fieldsOf(dkey))
    BY <1>8, <2>6
  <2>9. Len(e.columns) # 1
    <3>1. ASSUME Len(e.columns) = 1 PROVE FALSE
      <4> DEFINE k == e.key
      <4>1. DOMAIN k = {1}
        BY <3>1, ColumnFacts
      <4>2. Range(fieldsOf(k)) = {k[1][1]}
        BY <4>1 DEF Range, fieldsOf
      <4> QED
        BY <1>12, <2>1, <2>8, <4>2 DEF dkey, m
    <3> QED
      BY <3>1
  <2>10. Range(e.columns) = Range(d.columns)
    <3>1. Range(e.columns) = { columnOf(y) : y \in Range(fieldsOf(e.key)) }
      BY ColumnFacts
    <3>2. Range(d.columns) = { columnOf(y) : y \in Range(fieldsOf(d.key)) }
      BY ColumnFacts
    <3> QED
      BY <2>8, <3>1, <3>2 DEF dkey
  <2>11. Len(e.columns) > 1
    <3> DEFINE l == Len(e.columns)
    <3>1. l \in Nat \ {0}
      BY ColumnFacts
    <3>2. l # 1
      BY <2>9
    <3> HIDE DEF l
    <3>3. l > 1
      BY <3>1, <3>2
    <3> QED
      BY <3>3 DEF l
  <2>12. physicalIndexNames(d) = physicalIndexNames(e)
    BY <2>1, <2>5, <2>7, <2>10, <2>11, SameNames DEF m
  <2> QED
    BY <1>4, <2>5, <2>12 DEF isAllOf, S
<1> QED
  BY <1>14, <1>15

\* No name of a definition without a conflict is taken.
LEMMA NoConflict ==
    ASSUME NEW T, NEW d \in Asked, ~conflicts(T, d)
    PROVE  partsOf(T, d.name) = {} /\ physicalIndexNames(d) \cap DOMAIN T = {}
<1>1. d.name # ID_INDEX_NAME
  BY AskedFacts
<1>2. d.name \notin DOMAIN describeIndexes(T)
  BY DEF conflicts
<1>3. partsOf(T, d.name) = {}
  BY <1>1, <1>2 DEF describeIndexes, partsOf
<1> QED
  BY <1>3 DEF conflicts

-----------------------------------------------------------------------------
(* The table after a DEFINE INDEX and after a REMOVE INDEX *)

\* What is there after a DEFINE INDEX and after a REMOVE INDEX.
gained(T, U, d, q, index) ==
    /\ DOMAIN U = DOMAIN T \cup {q} /\ U[q] = index /\ \A p \in DOMAIN T : U[p] = T[p]
    /\ partsOf(U, d.name) = partsOf(T, d.name) \cup {q}
    /\ \A n : n # d.name => partsOf(U, n) = partsOf(T, n)
shed(T, U, q) ==
    /\ DOMAIN U = DOMAIN T \ {q} /\ \A p \in DOMAIN U : U[p] = T[p]
    /\ \A n : partsOf(U, n) = partsOf(T, n) \ {q}

LEMMA DefinedTable ==
    ASSUME NEW T, WellMade(T), NEW d \in Asked, NEW q, NEW index,
           q \notin DOMAIN T, isPartOf(d, q, index), NEW U, U = with(T, q, index)
    PROVE  WellMade(U) /\ gained(T, U, d, q, index)
<1>1. /\ DOMAIN U = DOMAIN T \cup {q} /\ U = [p \in DOMAIN U |-> U[p]]
      /\ U[q] = index /\ \A p \in DOMAIN T : U[p] = T[p]
  BY DEF with
<1>2. IsFiniteSet(DOMAIN U)
  <2> DEFINE S == DOMAIN T
  <2>1. IsFiniteSet(S)
    BY DEF WellMade
  <2> HIDE DEF S
  <2>2. IsFiniteSet(S \cup {q})
    BY <2>1, FS_AddElement
  <2> QED
    BY <1>1, <2>2 DEF S
<1>3. WellMade(U)
  BY <1>1, <1>2 DEF WellMade
<1>4. describeOne(q, U[q]).name = d.name
  BY <1>1, PartFacts
<1>5. partsOf(U, d.name) = partsOf(T, d.name) \cup {q}
  BY <1>1, <1>4 DEF partsOf
<1>6. \A n : n # d.name => partsOf(U, n) = partsOf(T, n)
  BY <1>1, <1>4 DEF partsOf
<1> QED
  BY <1>1, <1>3, <1>5, <1>6 DEF gained

LEMMA RemovedTable ==
    ASSUME NEW T, WellMade(T), NEW q, NEW U, U = without(T, q)
    PROVE  WellMade(U) /\ shed(T, U, q)
<1>1. /\ DOMAIN U = DOMAIN T \ {q} /\ U = [p \in DOMAIN U |-> U[p]]
      /\ \A p \in DOMAIN U : U[p] = T[p]
  BY DEF without
<1>2. IsFiniteSet(DOMAIN U)
  <2> DEFINE S == DOMAIN T
  <2>1. IsFiniteSet(S)
    BY DEF WellMade
  <2> HIDE DEF S
  <2>2. IsFiniteSet(S \ {q})
    BY <2>1, FS_RemoveElement
  <2> QED
    BY <1>1, <2>2 DEF S
<1>3. WellMade(U)
  BY <1>1, <1>2 DEF WellMade
<1>4. \A n : partsOf(U, n) = partsOf(T, n) \ {q}
  BY <1>1 DEF partsOf
<1> QED
  BY <1>1, <1>3, <1>4 DEF shed

-----------------------------------------------------------------------------
(* The statements a call has before it *)

IsTodo(todo) == /\ todo \in Seq(Range(todo))
                /\ \A i, j \in DOMAIN todo : todo[i][1] = todo[j][1] => i = j
namesOf(todo) == { todo[i][1] : i \in DOMAIN todo }

LEMMA TodoFacts ==
    ASSUME NEW todo, IsTodo(todo)
    PROVE  /\ Len(todo) \in Nat
           /\ todo = <<>> <=> Len(todo) = 0
           /\ todo = <<>> <=> namesOf(todo) = {}
           /\ todo # <<>> =>
                /\ IsTodo(Tail(todo))
                /\ Len(Tail(todo)) = Len(todo) - 1
                /\ namesOf(todo) = {Head(todo)[1]} \cup namesOf(Tail(todo))
                /\ Head(todo)[1] \notin namesOf(Tail(todo))
<1> DEFINE A == Range(todo)
           n == Len(todo)
<1>1. todo \in Seq(A) /\ \A i, j \in DOMAIN todo : todo[i][1] = todo[j][1] => i = j
  BY DEF IsTodo
<1> HIDE DEF A
<1>2. n \in Nat /\ DOMAIN todo = 1..n /\ (todo = <<>> <=> n = 0)
  BY <1>1
<1>3. todo = <<>> <=> namesOf(todo) = {}
  <2>1. n = 0 => DOMAIN todo = {}
    BY <1>2
  <2>2. n # 0 => 1 \in DOMAIN todo
    BY <1>2
  <2> QED
    BY <1>2, <2>1, <2>2 DEF namesOf
<1>4. ASSUME todo # <<>>
      PROVE  /\ IsTodo(Tail(todo)) /\ Len(Tail(todo)) = n - 1
             /\ namesOf(todo) = {Head(todo)[1]} \cup namesOf(Tail(todo))
             /\ Head(todo)[1] \notin namesOf(Tail(todo))
  <2> DEFINE rest == Tail(todo)
             m == n - 1
  <2>1. /\ rest \in Seq(A) /\ Len(rest) = m /\ DOMAIN rest = 1..m /\ m \in Nat
        /\ \A i \in 1..m : rest[i] = todo[i + 1]
    BY <1>1, <1>2, <1>4
  <2>2. Head(todo) = todo[1]
    BY <1>1, <1>4
  <2> HIDE DEF rest
  <2>3. \A i \in 1..m : i + 1 \in 1..n /\ i + 1 # 1
    BY <1>2, <2>1
  <2>4. \A i \in 1..n : i = 1 \/ \E j \in 1..m : i = j + 1
    <3> SUFFICES ASSUME NEW i \in 1..n, i # 1 PROVE \E j \in 1..m : i = j + 1
      OBVIOUS
    <3>1. i - 1 \in 1..m /\ i = (i - 1) + 1
      BY <1>2
    <3> QED
      BY <3>1
  <2>5. 1 \in 1..n
    BY <1>2, <1>4
  <2> HIDE DEF n
  <2>6. rest \in Seq(Range(rest))
    <3>1. \A i \in 1..m : rest[i] \in Range(rest)
      BY <2>1 DEF Range
    <3> QED
      BY <2>1, <3>1
  <2> HIDE DEF m
  <2>7. \A i, j \in DOMAIN rest : rest[i][1] = rest[j][1] => i = j
    <3> SUFFICES ASSUME NEW i \in 1..m, NEW j \in 1..m, rest[i][1] = rest[j][1] PROVE i = j
      BY <2>1
    <3>1. rest[i] = todo[i + 1] /\ rest[j] = todo[j + 1]
      BY <2>1
    <3>2. i + 1 \in DOMAIN todo /\ j + 1 \in DOMAIN todo
      BY <1>2, <2>3
    <3>3. i + 1 = j + 1
      BY <1>1, <3>1, <3>2
    <3> QED
      BY <2>1, <3>3
  <2>8. IsTodo(rest)
    BY <2>6, <2>7 DEF IsTodo
  <2>9. namesOf(todo) = {todo[1][1]} \cup namesOf(rest)
    <3>1. namesOf(rest) = { todo[i + 1][1] : i \in 1..m }
      BY <2>1 DEF namesOf
    <3>2. namesOf(todo) = { todo[i][1] : i \in 1..n }
      BY <1>2 DEF namesOf
    <3> QED
      BY <2>3, <2>4, <2>5, <3>1, <3>2
  <2>10. todo[1][1] \notin namesOf(rest)
    <3>1. \A i \in 1..m : todo[i + 1][1] # todo[1][1]
      BY <1>1, <1>2, <2>3, <2>5
    <3> QED
      BY <2>1, <3>1 DEF namesOf
  <2> QED
    BY <2>1, <2>2, <2>8, <2>9, <2>10 DEF rest, n, m
<1> QED
  BY <1>2, <1>3, <1>4

LEMMA RemovalsFacts ==
    ASSUME NEW T, NEW names, IsFiniteSet(names)
    PROVE  IsTodo(removals(T, names)) /\ namesOf(removals(T, names)) = names
<1> DEFINE infos == SetToSeq(names)
           todo == removals(T, names)
<1>1. /\ infos \in Seq(names) /\ Range(infos) = names
      /\ \A i, j \in DOMAIN infos : infos[i] = infos[j] => i = j
  BY SetToSeqFacts
<1>2. todo = [i \in DOMAIN infos |-> <<infos[i], T[infos[i]]>>]
  BY DEF removals
<1> HIDE DEF infos, todo
<1>3. /\ DOMAIN todo = DOMAIN infos /\ DOMAIN infos = 1..Len(infos) /\ Len(infos) \in Nat
      /\ \A i \in DOMAIN todo : todo[i][1] = infos[i]
  BY <1>1, <1>2
<1>4. todo \in Seq(Range(todo))
  <2>1. \A i \in 1..Len(infos) : todo[i] \in Range(todo)
    BY <1>3 DEF Range
  <2> QED
    BY <1>2, <1>3, <2>1
<1>5. IsTodo(todo)
  BY <1>1, <1>3, <1>4 DEF IsTodo
<1>6. namesOf(todo) = names
  BY <1>1, <1>3 DEF namesOf, Range
<1> QED
  BY <1>5, <1>6 DEF todo

-----------------------------------------------------------------------------
(* The invariant *)

\* A call has the fields of one, and what its phase asks for. `known` is what
\* the server has or had since the call began, `done` what the call has defined.
IsCall(c) ==
    /\ DOMAIN c = {"op", "definitions", "name", "phase", "ran", "table", "todo", "fields"}
    /\ c.ran \in BOOLEAN
asks(c) == /\ c.op = "create" => c.definitions \in Seq(Asked) /\ c.definitions # <<>>
           /\ c.op = "drop" => c.name # ID_INDEX_NAME
IsReading(c, known) ==
    /\ c.phase = "inventory" /\ c.op \in {"create", "drop", "dropAll", "search"} /\ asks(c)
    /\ c.ran => WellMade(c.table) /\ DOMAIN c.table \subseteq known
IsCreating(c, done) ==
    LET B == buildIndexStatements(Head(c.definitions)) IN
    /\ c.phase = "statements" /\ c.op = "create" /\ asks(c)
    /\ \E i \in 1..Len(B) : /\ c.todo = [k \in 1..(Len(B) - i + 1) |-> B[k + i - 1]]
                            /\ done = { B[j][1] : j \in 1..(IF c.ran THEN i ELSE i - 1) }
IsRemoving(c) ==
    /\ c.phase = "statements" /\ c.op \in {"drop", "dropAll"} /\ asks(c)
    /\ IsTodo(c.todo) /\ (c.ran => c.todo # <<>>)
IsSearching(c) == c.phase = "search" /\ c.op = "search" /\ ~c.ran

CallOK(c, known, done) ==
    /\ IsCall(c)
    /\ \/ c = NoCall
       \/ IsReading(c, known) \/ IsCreating(c, done) \/ IsRemoving(c) \/ IsSearching(c)

TypeInv ==
    /\ owner \in Owners
    /\ WellMade(server)
    /\ DOMAIN registry = Collections
    /\ loaded \in [Collections -> BOOLEAN] /\ fresh \in [Collections -> BOOLEAN]
    /\ DOMAIN call = Flows /\ DOMAIN result = Flows
    /\ made \in 0..MaxCalls /\ lost \in 0..MaxLost
    /\ overlapped \in [Flows -> BOOLEAN] /\ entangled \in BOOLEAN
    /\ DOMAIN defined = Flows /\ DOMAIN gone = Flows
    /\ \A f \in Flows : /\ CallOK(call[f], DOMAIN server \cup gone[f], defined[f])
                        /\ call[f] # NoCall => result[f] = NoResult
                        /\ defined[f] \subseteq DOMAIN server \cup gone[f]

\* The names that the statements of a call are still to define or to remove.
remaining(c) == namesOf(IF c.ran THEN Tail(c.todo) ELSE c.todo)

\* A writer that no other writer overlaps knows what the server has.
knows(c, T, done) ==
    LET d == Head(c.definitions) IN
    /\ c.phase = "inventory" /\ c.ran => c.table = T
    /\ c.phase = "statements" /\ c.op = "create" =>
          /\ remaining(c) \cap DOMAIN T = {}
          /\ partsOf(T, d.name) = done
          /\ \A p \in done : isPartOf(d, p, T[p])
    /\ c.phase = "statements" /\ c.op = "drop" => partsOf(T, c.name) = remaining(c)
    /\ c.phase = "statements" /\ c.op = "dropAll" => DOMAIN T = remaining(c)
Alone ==
    \A f \in Flows : writes(call[f]) /\ ~overlapped[f] =>
        /\ \A g \in Flows \ {f} : ~writes(call[g])
        /\ knows(call[f], server, defined[f])

\* What is not entangled no two writers share.
Untangled == ~entangled => \A f \in Flows : writes(call[f]) => ~overlapped[f]

\* The index called n is being defined, or removed.
touches(c, done, n) ==
    /\ c.phase = "statements"
    /\ \/ c.op = "create" /\ n = Head(c.definitions).name /\ done # {}
       \/ c.op = "drop" /\ n = c.name
       \/ c.op = "dropAll"

\* Every index that no call is at is whole.
WholeInv ==
    ~entangled => \A n : (\A f \in Flows : ~touches(call[f], defined[f], n)) => Whole(server, n)

\* And a Collection knows of it, when its registry is what the server has.
agrees(held, T, n) ==
    /\ n \in DOMAIN held <=> n \in DOMAIN describeIndexes(T)
    /\ n \in DOMAIN held => textFieldsOfKey(held[n]) = textFieldsOfKey(describeIndexes(T)[n].key)
RegistryInv ==
    \A c \in Collections :
        /\ ID_INDEX_NAME \in DOMAIN registry[c] =>
              textFieldsOfKey(registry[c][ID_INDEX_NAME]) = {}
        /\ loaded[c] /\ fresh[c] /\ ~entangled =>
              \A n : /\ n # ID_INDEX_NAME
                     /\ \A f \in Flows : owner[f] = c => ~touches(call[f], defined[f], n)
                     => agrees(registry[c], server, n)

\* CreatesAllOrNothing, whether or not the call is over.
resultOK(r, has, overlaps, done, tangled) ==
    r.op = "create" =>
        /\ r.status = "ok" =>
             \/ ~single(r.of) /\ tangled
             \/ physicalIndexNames(r.of) \subseteq has
        /\ r.status \in {"conflict", "exists"} => overlaps \/ done = {}
        /\ r.status = "unreadable" => ~single(r.of) \/ done = {}
ResultInv ==
    \A f \in Flows :
        resultOK(result[f], DOMAIN server \cup gone[f], overlapped[f], defined[f], entangled)

IInv == TypeInv /\ Alone /\ Untangled /\ WholeInv /\ RegistryInv /\ ResultInv

-----------------------------------------------------------------------------
(* What a call does next *)

LEMMA CreatingFacts ==
    ASSUME NEW c, IsCall(c), NEW done, IsCreating(c, done)
    PROVE  LET d == Head(c.definitions) IN
           /\ d \in Asked /\ c.definitions \in Seq(Asked) /\ c.definitions # <<>>
           /\ IsTodo(c.todo) /\ c.todo # <<>>
           /\ isPartOf(d, Head(c.todo)[1], Head(c.todo)[2])
           /\ done \subseteq physicalIndexNames(d)
           /\ ~c.ran => IsCreating([c EXCEPT !.ran = TRUE], done \cup {Head(c.todo)[1]})
           /\ ~c.ran /\ single(d) => done = {}
           /\ c.ran => Head(c.todo)[1] \in done
           /\ c.ran /\ Len(c.todo) > 1 =>
                IsCreating([c EXCEPT !.ran = FALSE, !.todo = Tail(c.todo)], done)
           /\ c.ran /\ Len(c.todo) = 1 => done = physicalIndexNames(d)
<1> DEFINE d == Head(c.definitions)
           B == buildIndexStatements(d)
           n == Len(B)
           todo == c.todo
<1>1. d \in Asked /\ c.definitions \in Seq(Asked) /\ c.definitions # <<>>
  BY DEF IsCreating, asks
<1> HIDE DEF d
<1>2. /\ n \in Nat \ {0} /\ DOMAIN B = 1..n
      /\ \A j \in DOMAIN B : B[j] = <<B[j][1], B[j][2]>>
      /\ \A i, j \in DOMAIN B : B[i][1] = B[j][1] => i = j
      /\ physicalIndexNames(d) = { B[j][1] : j \in DOMAIN B }
  BY <1>1, StatementFacts
<1>3. single(d) <=> n = 1
  BY <1>1, SingleFacts
<1>4. PICK i \in 1..n : /\ todo = [k \in 1..(n - i + 1) |-> B[k + i - 1]]
                        /\ done = { B[j][1] : j \in 1..(IF c.ran THEN i ELSE i - 1) }
  BY DEF IsCreating, d
<1> HIDE DEF B, n, todo
<1>5. c.ran \in BOOLEAN /\ c.phase = "statements" /\ c.op = "create" /\ asks(c)
  BY DEF IsCall, IsCreating
<1> DEFINE m == n - i + 1
<1>6. m \in Nat \ {0} /\ i \in Nat /\ i >= 1 /\ i <= n /\ n \in Nat
  BY <1>2
<1>7. \A k \in 1..m : k + i - 1 \in 1..n
  BY <1>6
<1>8. /\ DOMAIN todo = 1..m /\ Len(todo) = m /\ todo # <<>> /\ todo \in Seq(Range(todo))
      /\ \A k \in 1..m : todo[k] = B[k + i - 1]
      /\ Head(todo) = B[i]
  <2>1. todo = [k \in 1..m |-> B[k + i - 1]]
    BY <1>4
  <2> HIDE DEF m
  <2>2. DOMAIN todo = 1..m /\ \A k \in 1..m : todo[k] \in Range(todo)
    BY <2>1 DEF Range
  <2>3. todo \in Seq(Range(todo)) /\ Len(todo) = m
    <3> DEFINE A == Range(todo)
    <3>1. todo \in [1..m -> A]
      BY <2>1, <2>2
    <3> HIDE DEF A, todo
    <3>2. todo \in Seq(A) /\ Len(todo) = m
      BY <1>6, <3>1
    <3> QED
      BY <3>2 DEF A
  <2>4. todo # <<>> /\ Head(todo) = todo[1] /\ 1 \in 1..m
    BY <1>6, <2>3
  <2>5. 1 + i - 1 = i
    BY <1>6
  <2> QED
    BY <2>1, <2>2, <2>3, <2>4, <2>5
<1>9. IsTodo(todo)
  <2>1. \A k, l \in 1..m : todo[k][1] = todo[l][1] => k = l
    <3> SUFFICES ASSUME NEW k \in 1..m, NEW l \in 1..m, todo[k][1] = todo[l][1] PROVE k = l
      OBVIOUS
    <3>1. todo[k] = B[k + i - 1] /\ todo[l] = B[l + i - 1]
      BY <1>8
    <3>2. k + i - 1 = l + i - 1
      BY <1>2, <1>7, <3>1
    <3> QED
      BY <1>6, <3>2
  <2> HIDE DEF m
  <2> QED
    BY <1>8, <2>1 DEF IsTodo
<1>10. isPartOf(d, Head(todo)[1], Head(todo)[2])
  <2>1. B[i] = <<B[i][1], B[i][2]>>
    BY <1>2
  <2>2. Head(todo) = B[i]
    BY <1>8
  <2>3. <<Head(todo)[1], Head(todo)[2]>> = B[i]
    BY <2>1, <2>2
  <2> QED
    BY <1>2, <2>3 DEF isPartOf, B
<1>11. done \subseteq physicalIndexNames(d)
  <2>1. \A j \in 1..(IF c.ran THEN i ELSE i - 1) : j \in 1..n
    BY <1>5, <1>6
  <2> QED
    BY SMTT(30), <1>2, <1>4, <2>1
<1>12. ASSUME ~c.ran PROVE IsCreating([c EXCEPT !.ran = TRUE], done \cup {B[i][1]})
  <2> DEFINE e == [c EXCEPT !.ran = TRUE]
  <2>1. /\ e.op = c.op /\ e.definitions = c.definitions /\ e.name = c.name
        /\ e.phase = c.phase /\ e.todo = todo /\ e.ran
    BY DEF IsCall, todo
  <2> HIDE DEF e
  <2>2. done = { B[j][1] : j \in 1..(i - 1) }
    BY <1>4, <1>12
  <2>3. 1..i = (1..(i - 1)) \cup {i}
    BY <1>6
  <2>4. done \cup {B[i][1]} = { B[j][1] : j \in 1..i }
    BY <2>2, <2>3
  <2>5. asks(e)
    BY <1>5, <2>1 DEF asks
  <2>6. \E x \in 1..n : /\ e.todo = [k \in 1..(n - x + 1) |-> B[k + x - 1]]
                         /\ done \cup {B[i][1]} = { B[j][1] : j \in 1..(IF e.ran THEN x ELSE x - 1) }
    BY <1>4, <2>1, <2>4
  <2> DEFINE W == buildIndexStatements(Head(e.definitions))
             all == done \cup {B[i][1]}
  <2>7. W = B
    BY <2>1 DEF B, d
  <2> HIDE DEF W, all
  <2>8. \E x \in 1..Len(W) : /\ e.todo = [k \in 1..(Len(W) - x + 1) |-> W[k + x - 1]]
                              /\ all = { W[j][1] : j \in 1..(IF e.ran THEN x ELSE x - 1) }
    <3>1. PICK x \in 1..n : /\ e.todo = [k \in 1..(n - x + 1) |-> B[k + x - 1]]
                            /\ done \cup {B[i][1]} = { B[j][1] : j \in 1..(IF e.ran THEN x ELSE x - 1) }
      BY <2>6
    <3>2. Len(W) = n /\ all = done \cup {B[i][1]}
      BY <2>7 DEF n, all
    <3>3. x \in 1..Len(W) /\ e.todo = [k \in 1..(Len(W) - x + 1) |-> W[k + x - 1]]
      BY <2>7, <3>1, <3>2
    <3>4. all = { W[j][1] : j \in 1..(IF e.ran THEN x ELSE x - 1) }
      BY <2>7, <3>1, <3>2
    <3> QED
      BY <3>3, <3>4
  <2>9. IsCreating(e, all)
    BY <1>5, <2>1, <2>5, <2>8 DEF IsCreating, W
  <2> QED
    BY <2>9 DEF e, all
<1>13. ASSUME ~c.ran, single(d) PROVE done = {}
  <2>1. i = 1
    BY <1>3, <1>6, <1>13
  <2>2. 1..(i - 1) = {}
    BY <2>1
  <2> QED
    BY <1>4, <1>13, <2>2
<1>14. ASSUME c.ran, m > 1
       PROVE  IsCreating([c EXCEPT !.ran = FALSE, !.todo = Tail(todo)], done)
  <2> DEFINE e == [c EXCEPT !.ran = FALSE, !.todo = Tail(todo)]
             o == i + 1
  <2>1. /\ e.op = c.op /\ e.definitions = c.definitions /\ e.name = c.name
        /\ e.phase = c.phase /\ e.todo = Tail(todo) /\ ~e.ran
    BY DEF IsCall, todo
  <2> HIDE DEF e
  <2>2. o \in 1..n /\ o - 1 = i /\ m - 1 = n - o + 1
    BY <1>6, <1>14
  <2>3. Tail(todo) = [k \in 1..(n - o + 1) |-> B[k + o - 1]]
    <3>1. /\ DOMAIN Tail(todo) = 1..(m - 1)
          /\ \A k \in 1..(m - 1) : Tail(todo)[k] = todo[k + 1]
      <4> HIDE DEF m
      <4> QED
        BY <1>6, <1>8
    <3>2. \A k \in 1..(m - 1) : k + 1 \in 1..m /\ (k + 1) + i - 1 = k + o - 1
      BY <1>6
    <3>3. \A k \in 1..(m - 1) : Tail(todo)[k] = B[k + o - 1]
      BY <1>8, <3>1, <3>2
    <3>4. Tail(todo) = [k \in 1..(m - 1) |-> Tail(todo)[k]]
      <4> DEFINE rest == Tail(todo)
                 A == Range(todo)
      <4>1. rest \in Seq(A) /\ Len(rest) = m - 1
        <5> HIDE DEF m, A
        <5>1. todo \in Seq(A) /\ todo # <<>> /\ Len(todo) = m /\ m \in Nat \ {0}
          BY <1>6, <1>8 DEF A
        <5> QED
          BY <5>1
      <4> HIDE DEF rest, A
      <4>2. rest = [k \in 1..Len(rest) |-> rest[k]]
        BY <4>1
      <4> QED
        BY <4>1, <4>2 DEF rest
    <3> QED
      BY <2>2, <3>3, <3>4
  <2>4. done = { B[j][1] : j \in 1..(IF e.ran THEN o ELSE o - 1) }
    BY <1>4, <1>14, <2>1, <2>2
  <2>5. asks(e)
    BY <1>5, <2>1 DEF asks
  <2> HIDE DEF o
  <2>6. \E x \in 1..n : /\ e.todo = [k \in 1..(n - x + 1) |-> B[k + x - 1]]
                         /\ done = { B[j][1] : j \in 1..(IF e.ran THEN x ELSE x - 1) }
    BY <2>1, <2>2, <2>3, <2>4
  <2> DEFINE W == buildIndexStatements(Head(e.definitions))
             all == done
  <2>7. W = B
    BY <2>1 DEF B, d
  <2> HIDE DEF W, all
  <2>8. \E x \in 1..Len(W) : /\ e.todo = [k \in 1..(Len(W) - x + 1) |-> W[k + x - 1]]
                              /\ all = { W[j][1] : j \in 1..(IF e.ran THEN x ELSE x - 1) }
    <3>1. PICK x \in 1..n : /\ e.todo = [k \in 1..(n - x + 1) |-> B[k + x - 1]]
                            /\ done = { B[j][1] : j \in 1..(IF e.ran THEN x ELSE x - 1) }
      BY <2>6
    <3>2. Len(W) = n /\ all = done
      BY <2>7 DEF n, all
    <3>3. x \in 1..Len(W) /\ e.todo = [k \in 1..(Len(W) - x + 1) |-> W[k + x - 1]]
      BY <2>7, <3>1, <3>2
    <3> QED
      BY <2>7, <3>1, <3>2, <3>3
  <2>9. IsCreating(e, all)
    BY <1>5, <2>1, <2>5, <2>8 DEF IsCreating, W
  <2> QED
    BY <2>9 DEF e, all
<1>15. ASSUME c.ran, m = 1 PROVE done = physicalIndexNames(d)
  <2>1. i = n
    BY <1>6, <1>15
  <2> QED
    BY <1>2, <1>4, <1>15, <2>1
<1>16. c.ran => B[i][1] \in done
  <2>1. i \in 1..i
    BY <1>6
  <2> QED
    BY <1>4, <2>1
<1> HIDE DEF m
<1> QED
  BY <1>1, <1>8, <1>9, <1>10, <1>11, <1>12, <1>13, <1>14, <1>15, <1>16 DEF d, todo

\* Nobody else's call moves.
moves(f) == /\ DOMAIN call' = Flows /\ DOMAIN result' = Flows
            /\ \A g \in Flows \ {f} : call'[g] = call[g] /\ result'[g] = result[g]

LEMMA NoCallFacts ==
    /\ IsCall(NoCall) /\ NoCall.op = "none" /\ NoCall.phase = "idle" /\ ~NoCall.ran
    /\ NoCall.definitions = <<>> /\ NoCall.todo = <<>> /\ ~writes(NoCall)
BY DEF NoCall, IsCall, writes

LEMMA ReturnsFacts ==
    ASSUME DOMAIN call = Flows, DOMAIN result = Flows, NEW f \in Flows,
           NEW status, NEW d, returns(f, status, d)
    PROVE  /\ moves(f) /\ call'[f] = NoCall
           /\ result'[f] = [op |-> call[f].op, status |-> status, of |-> d]
BY DEF returns, moves

LEMMA NextFacts ==
    ASSUME DOMAIN call = Flows, DOMAIN result = Flows, NEW f \in Flows, IsCall(call[f]),
           NEW left \in Seq(Asked), defineNext(f, left)
    PROVE  /\ moves(f)
           /\ left = <<>> =>
                /\ call'[f] = NoCall
                /\ result'[f] = [op |-> call[f].op, status |-> "ok",
                                 of |-> Head(call[f].definitions)]
           /\ left # <<>> =>
                /\ IsReading(call'[f], {}) /\ IsCall(call'[f]) /\ result'[f] = result[f]
                /\ call'[f].op = "create" /\ call'[f].definitions = left /\ ~call'[f].ran
<1>1. CASE left = <<>>
  <2>1. returns(f, "ok", Head(call[f].definitions))
    BY <1>1 DEF defineNext
  <2> QED
    BY <1>1, <2>1, ReturnsFacts
<1>2. CASE left # <<>>
  <2> DEFINE x == [createIndexes(left) EXCEPT !.phase = "inventory"]
  <2>1. call' = [call EXCEPT ![f] = x] /\ result' = result
    BY <1>2 DEF defineNext
  <2>2. /\ IsCall(x) /\ x.op = "create" /\ x.definitions = left
        /\ x.phase = "inventory" /\ ~x.ran
    BY NoCallFacts DEF createIndexes, IsCall
  <2> HIDE DEF x
  <2>3. call'[f] = x /\ moves(f) /\ result'[f] = result[f]
    BY <2>1 DEF moves
  <2>4. IsCall(x) /\ IsReading(x, {}) /\ x.op = "create" /\ x.definitions = left /\ ~x.ran
    BY <1>2, <2>2 DEF IsReading, asks
  <2> QED
    BY <1>2, <2>3, <2>4
<1> QED
  BY <1>1, <1>2

LEMMA WorksFacts ==
    ASSUME DOMAIN call = Flows, DOMAIN result = Flows, NEW f \in Flows, IsCall(call[f]),
           NEW todo, works(f, todo)
    PROVE  /\ moves(f) /\ IsCall(call'[f]) /\ result'[f] = result[f]
           /\ call'[f].op = call[f].op /\ call'[f].definitions = call[f].definitions
           /\ call'[f].name = call[f].name /\ call'[f].phase = "statements"
           /\ ~call'[f].ran /\ call'[f].todo = todo
<1> DEFINE c == call[f]
           x == [c EXCEPT !.phase = "statements", !.ran = FALSE, !.table = <<>>, !.todo = todo]
<1>1. call' = [call EXCEPT ![f] = x] /\ result' = result
  BY DEF works
<1>2. IsCall(c)
  OBVIOUS
<1> HIDE DEF c
<1>3. /\ IsCall(x) /\ x.op = c.op /\ x.definitions = c.definitions /\ x.name = c.name
      /\ x.phase = "statements" /\ ~x.ran /\ x.todo = todo
  BY <1>2 DEF IsCall
<1> HIDE DEF x
<1>4. call'[f] = x /\ moves(f) /\ result'[f] = result[f]
  BY <1>1 DEF moves
<1> QED
  BY <1>3, <1>4 DEF c

\* What is asked for, when a call begins.
LEMMA SeqOfMembers ==
    ASSUME NEW A, NEW s \in Seq(A), NEW S, \A i \in DOMAIN s : s[i] \in S
    PROVE  s \in Seq(S)
OBVIOUS

LEMMA CallsFacts ==
    ASSUME NEW c \in Calls
    PROVE  /\ IsCall(c) /\ ~c.ran /\ c.op \in {"create", "drop", "dropAll", "search"}
           /\ c.op = "create" => toDefine(c.definitions) \in Seq(Asked)
<1>1. /\ IsCall(search) /\ ~search.ran /\ search.op = "search"
      /\ IsCall(dropIndexes) /\ ~dropIndexes.ran /\ dropIndexes.op = "dropAll"
  BY NoCallFacts DEF search, dropIndexes, IsCall
<1>2. \A name : IsCall(dropIndex(name)) /\ ~dropIndex(name).ran /\ dropIndex(name).op = "drop"
  BY NoCallFacts DEF dropIndex, IsCall
<1>3. \A ds : /\ IsCall(createIndexes(ds)) /\ ~createIndexes(ds).ran
              /\ createIndexes(ds).op = "create"
  BY NoCallFacts DEF createIndexes, IsCall
<1>4. /\ IsCall(c) /\ ~c.ran /\ c.op \in {"create", "drop", "dropAll", "search"}
      /\ c.op = "create" => c.definitions \in Seq(Range(c.definitions))
  BY <1>1, <1>2, <1>3, CallsAssumption DEF CallsAreResolved
<1>5. ASSUME c.op = "create" PROVE toDefine(c.definitions) \in Seq(Asked)
  <2> DEFINE ds == c.definitions
             A == Range(ds)
             S == { d \in A : ~isIdIndexKey(d.key) }
             left == selected(ds, S)
  <2>1. ds \in Seq(A)
    BY <1>4, <1>5
  <2>2. S \subseteq Asked
    BY DEF Asked
  <2>3. toDefine(ds) = left
    BY DEF toDefine
  <2> HIDE DEF S, A, ds
  <2>4. left \in Seq(A) /\ Range(left) = Range(ds) \cap S
    BY <2>1, SelectedFacts
  <2> HIDE DEF left
  <2>5. left \in Seq(Asked)
    <3>1. \A i \in DOMAIN left : left[i] \in Asked
      BY <2>2, <2>4 DEF Range
    <3> QED
      BY <2>4, <3>1, SeqOfMembers
  <2> QED
    BY <2>3, <2>5 DEF ds
<1> QED
  BY <1>4, <1>5

LEMMA OwnerFacts ==
    ASSUME owner \in Owners, NEW f \in Flows
    PROVE  owner[f] \in Collections
<1>1. owner = [g \in Flows |-> owner[g]]
  BY OwnersAssumption
<1>2. owner[f] \in Range(owner)
  BY <1>1 DEF Range
<1> QED
  BY <1>2 DEF Collections

\* A call that stays what it is stays in order while the server keeps what it had.
LEMMA CallKept ==
    ASSUME NEW c, NEW known, NEW done, CallOK(c, known, done), NEW more, known \subseteq more
    PROVE  CallOK(c, more, done)
BY DEF CallOK, IsReading

-----------------------------------------------------------------------------
(* Type correctness *)

LEMMA TypeInit == Init => TypeInv
<1> SUFFICES ASSUME Init PROVE TypeInv
  OBVIOUS
<1>1. WellMade(server)
  <2>1. server \in Tables
    BY DEF Init
  <2>2. /\ IsFiniteSet(DOMAIN server) /\ server = [p \in DOMAIN server |-> server[p]]
        /\ \A p \in DOMAIN server : byHand(server[p])
    BY <2>1, TablesAssumption DEF TablesAreByHand, byHand
  <2> QED
    BY <2>2 DEF WellMade
<1>2. MaxCalls \in Nat /\ MaxLost \in Nat
  BY BoundsAssumption
<1>3. /\ DOMAIN call = Flows /\ DOMAIN result = Flows /\ DOMAIN defined = Flows /\ DOMAIN gone = Flows
      /\ \A f \in Flows : call[f] = NoCall /\ result[f] = NoResult /\ defined[f] = {}
  BY DEF Init
<1>4. \A f \in Flows : CallOK(call[f], DOMAIN server \cup gone[f], defined[f])
  BY <1>3, NoCallFacts DEF CallOK
<1>5. /\ owner \in Owners /\ made = 0 /\ lost = 0 /\ DOMAIN registry = Collections
      /\ loaded \in [Collections -> BOOLEAN] /\ fresh \in [Collections -> BOOLEAN]
      /\ overlapped \in [Flows -> BOOLEAN] /\ entangled \in BOOLEAN
  BY DEF Init
<1> QED
  BY <1>1, <1>2, <1>3, <1>4, <1>5 DEF TypeInv

\* A step in which f moves, and the server keeps what it had or puts it with
\* what is gone.
keeps(f) == /\ moves(f) /\ DOMAIN defined' = Flows /\ DOMAIN gone' = Flows
            /\ \A g \in Flows \ {f} : /\ defined'[g] = defined[g]
                                      /\ DOMAIN server \cup gone[g] \subseteq DOMAIN server' \cup gone'[g]
inOrder(f) == /\ CallOK(call'[f], DOMAIN server' \cup gone'[f], defined'[f])
              /\ call'[f] # NoCall => result'[f] = NoResult
              /\ defined'[f] \subseteq DOMAIN server' \cup gone'[f]
sameTypes == /\ owner' \in Owners /\ WellMade(server') /\ DOMAIN registry' = Collections
             /\ loaded' \in [Collections -> BOOLEAN] /\ fresh' \in [Collections -> BOOLEAN]
             /\ made' \in 0..MaxCalls /\ lost' \in 0..MaxLost
             /\ overlapped' \in [Flows -> BOOLEAN] /\ entangled' \in BOOLEAN

LEMMA TypeFrame ==
    ASSUME TypeInv, NEW f \in Flows, keeps(f), inOrder(f), sameTypes
    PROVE  TypeInv'
<1>1. ASSUME NEW g \in Flows
      PROVE  /\ CallOK(call'[g], DOMAIN server' \cup gone'[g], defined'[g])
             /\ call'[g] # NoCall => result'[g] = NoResult
             /\ defined'[g] \subseteq DOMAIN server' \cup gone'[g]
  <2>1. CASE g = f
    BY <2>1 DEF inOrder
  <2>2. CASE g # f
    <3>1. /\ call'[g] = call[g] /\ result'[g] = result[g] /\ defined'[g] = defined[g]
          /\ DOMAIN server \cup gone[g] \subseteq DOMAIN server' \cup gone'[g]
      BY <2>2 DEF keeps, moves
    <3>2. /\ CallOK(call[g], DOMAIN server \cup gone[g], defined[g])
          /\ call[g] # NoCall => result[g] = NoResult
          /\ defined[g] \subseteq DOMAIN server \cup gone[g]
      BY DEF TypeInv
    <3>3. CallOK(call[g], DOMAIN server' \cup gone'[g], defined[g])
      BY <3>1, <3>2, CallKept
    <3> QED
      BY <3>1, <3>2, <3>3
  <2> QED
    BY <2>1, <2>2
<1> QED
  BY <1>1 DEF TypeInv, keeps, moves, sameTypes

LEMMA TypeBegin ==
    ASSUME TypeInv, NEW f \in Flows, NEW c \in Calls, begin(f, c)
    PROVE  /\ TypeInv' /\ moves(f)
           /\ IsCall(call'[f]) /\ call'[f].op = c.op /\ ~call'[f].ran
           /\ call'[f].phase \in {"inventory", "search"} /\ result'[f] = NoResult
<1> DEFINE left == toDefine(c.definitions)
           known == c.op = "search" /\ loaded[owner[f]]
           x == [c EXCEPT !.phase = IF known THEN "search" ELSE "inventory",
                          !.fields = IF known THEN textFields(owner[f]) ELSE {},
                          !.definitions = left]
<1>1. /\ IsCall(c) /\ ~c.ran /\ c.op \in {"create", "drop", "dropAll", "search"}
      /\ c.op = "create" => left \in Seq(Asked) /\ left # <<>>
      /\ c.op = "drop" => c.name # ID_INDEX_NAME
  BY CallsFacts DEF begin
<1>2. call' = [call EXCEPT ![f] = x] /\ result' = [result EXCEPT ![f] = NoResult]
  BY DEF begin
<1> HIDE DEF left, known
<1>3. /\ IsCall(x) /\ x.op = c.op /\ x.name = c.name /\ x.definitions = left /\ ~x.ran
      /\ x.phase = IF known THEN "search" ELSE "inventory"
  BY <1>1 DEF IsCall
<1> HIDE DEF x
<1>4. moves(f) /\ call'[f] = x /\ result'[f] = NoResult
  BY <1>2 DEF moves, TypeInv
<1>5. known => c.op = "search"
  BY DEF known
<1>6. IsReading(x, {}) \/ IsSearching(x)
  BY <1>1, <1>3, <1>5 DEF IsReading, IsSearching, asks
<1>7. /\ defined' = [defined EXCEPT ![f] = {}] /\ gone' = [gone EXCEPT ![f] = {}]
      /\ UNCHANGED <<server, registry, loaded, owner, lost, fresh>>
  BY DEF begin
<1>8. keeps(f) /\ defined'[f] = {}
  BY <1>4, <1>7 DEF keeps, TypeInv
<1>9. inOrder(f)
  <2>1. IsReading(x, {}) => IsReading(x, DOMAIN server' \cup gone'[f])
    BY DEF IsReading
  <2> QED
    BY <1>3, <1>4, <1>6, <1>8, <2>1 DEF inOrder, CallOK
<1>10. sameTypes
  <2>1. made' \in 0..MaxCalls
    BY BoundsAssumption DEF begin, TypeInv
  <2>2. overlapped' \in [Flows -> BOOLEAN]
    BY DEF begin, TypeInv
  <2>3. entangled' \in BOOLEAN
    BY DEF begin, TypeInv
  <2> QED
    BY <1>7, <2>1, <2>2, <2>3 DEF sameTypes, TypeInv
<1> QED
  BY <1>3, <1>4, <1>8, <1>9, <1>10, TypeFrame

LEMMA TypeInfoRuns ==
    ASSUME TypeInv, NEW f \in Flows, infoRuns(f)
    PROVE  /\ TypeInv' /\ moves(f) /\ IsReading(call[f], DOMAIN server \cup gone[f])
           /\ IsCall(call'[f]) /\ call'[f].op = call[f].op /\ call'[f].phase = "inventory"
           /\ call'[f].ran /\ call'[f].table = server
<1> DEFINE c == call[f]
           x == [c EXCEPT !.ran = TRUE, !.table = server]
<1>1. c.phase = "inventory" /\ call' = [call EXCEPT ![f] = x]
  BY DEF infoRuns
<1>2. UNCHANGED <<server, registry, loaded, owner, made, lost, result, past>>
  BY DEF infoRuns
<1>3. IsCall(c) /\ IsReading(c, DOMAIN server \cup gone[f]) /\ WellMade(server)
  BY <1>1, NoCallFacts DEF TypeInv, CallOK, IsCreating, IsRemoving, IsSearching
<1>4. c # NoCall
  BY <1>1, NoCallFacts
<1>5. result[f] = NoResult /\ defined[f] \subseteq DOMAIN server \cup gone[f]
  BY <1>4 DEF TypeInv
<1> HIDE DEF c
<1>6. /\ IsCall(x) /\ x.op = c.op /\ x.name = c.name /\ x.definitions = c.definitions
      /\ x.phase = c.phase /\ x.ran /\ x.table = server
  BY <1>3 DEF IsCall
<1> HIDE DEF x
<1>7. moves(f) /\ call'[f] = x
  BY <1>1, <1>2 DEF moves, TypeInv
<1>8. IsReading(x, DOMAIN server \cup gone[f])
  BY <1>3, <1>6 DEF IsReading, asks
<1>9. keeps(f) /\ inOrder(f) /\ sameTypes
  <2>1. keeps(f)
    BY <1>2, <1>7 DEF keeps, TypeInv, past
  <2>2. inOrder(f)
    BY <1>2, <1>5, <1>6, <1>7, <1>8 DEF inOrder, CallOK, past
  <2>3. sameTypes
    BY <1>2 DEF sameTypes, TypeInv, past
  <2> QED
    BY <2>1, <2>2, <2>3
<1> QED
  BY <1>1, <1>3, <1>6, <1>7, <1>9, TypeFrame DEF c

LEMMA CreatingIntro ==
    ASSUME NEW e, NEW done, NEW B, B = buildIndexStatements(Head(e.definitions)),
           e.phase = "statements", e.op = "create", asks(e), NEW i \in 1..Len(B),
           e.todo = [k \in 1..(Len(B) - i + 1) |-> B[k + i - 1]],
           done = { B[j][1] : j \in 1..(IF e.ran THEN i ELSE i - 1) }
    PROVE  IsCreating(e, done)
BY SMTT(30) DEF IsCreating

\* What the answer to INFO FOR TABLE makes of a call.
arrived(f) ==
    LET c == call[f]
        e == call'[f]
        d == Head(c.definitions) IN
    \/ /\ c.op = "create" /\ d \in Asked /\ isDefined(c.table, d) /\ e = NoCall
       /\ result'[f] = [op |-> "create", status |-> "ok", of |-> d]
    \/ /\ c.op = "create" /\ IsReading(e, {}) /\ e.op = "create" /\ ~e.ran
       /\ result'[f] = NoResult
    \/ /\ c.op = "create" /\ d \in Asked /\ e = NoCall
       /\ result'[f] = [op |-> "create", status |-> "conflict", of |-> d]
    \/ /\ c.op = "create" /\ d \in Asked /\ ~conflicts(c.table, d)
       /\ IsCreating(e, {}) /\ ~e.ran /\ Head(e.definitions) = d
       /\ namesOf(e.todo) = physicalIndexNames(d)
       /\ result'[f] = NoResult
    \/ /\ c.op = "drop" /\ e = NoCall /\ result'[f].op = "drop"
    \/ /\ c.op = "drop" /\ IsRemoving(e) /\ ~e.ran /\ e.op = "drop" /\ e.name = c.name
       /\ namesOf(e.todo) = partsOf(c.table, c.name) /\ result'[f] = NoResult
    \/ /\ c.op = "dropAll" /\ IsRemoving(e) /\ ~e.ran /\ e.op = "dropAll"
       /\ namesOf(e.todo) = DOMAIN c.table /\ result'[f] = NoResult
    \/ /\ c.op = "search" /\ IsSearching(e) /\ result'[f] = NoResult

LEMMA Arrives ==
    ASSUME TypeInv, NEW f \in Flows, inventoryArrives(f)
    PROVE  /\ moves(f) /\ arrived(f) /\ IsCall(call'[f])
           /\ IsReading(call[f], DOMAIN server \cup gone[f]) /\ call[f].ran
<1> DEFINE c == call[f]
           T == c.table
           d == Head(c.definitions)
<1>1. c.phase = "inventory" /\ c.ran
  BY DEF inventoryArrives
<1>2. DOMAIN call = Flows /\ DOMAIN result = Flows /\ CallOK(c, DOMAIN server \cup gone[f], defined[f])
  BY DEF TypeInv
<1>3. IsCall(c) /\ IsReading(c, DOMAIN server \cup gone[f])
  BY <1>1, <1>2, NoCallFacts DEF CallOK, IsCreating, IsRemoving, IsSearching
<1>4. asks(c) /\ WellMade(T) /\ result[f] = NoResult
  <2>1. c # NoCall
    BY <1>1, NoCallFacts
  <2> QED
    BY <1>1, <1>3, <2>1 DEF IsReading, TypeInv
<1>5. \A names : names \subseteq DOMAIN T => IsFiniteSet(names)
  <2> SUFFICES ASSUME NEW names, names \subseteq DOMAIN T PROVE IsFiniteSet(names)
    OBVIOUS
  <2> DEFINE S == DOMAIN T
  <2>1. IsFiniteSet(S) /\ names \in SUBSET S
    BY <1>4 DEF WellMade
  <2> HIDE DEF S
  <2> QED
    BY <2>1, FS_Subset
<1>6. CASE c.op = "create" /\ defineIndex(f, T)
  <2>1. c.definitions \in Seq(Asked) /\ c.definitions # <<>>
    BY <1>4, <1>6 DEF asks
  <2>2. d \in Asked /\ Tail(c.definitions) \in Seq(Asked)
    <3> DEFINE ds == c.definitions
    <3> HIDE DEF ds
    <3>1. ds \in Seq(Asked) /\ ds # <<>>
      BY <2>1 DEF ds
    <3>2. Head(ds) \in Asked /\ Tail(ds) \in Seq(Asked)
      BY <3>1
    <3> QED
      BY <3>2 DEF ds
  <2> DEFINE left == Tail(c.definitions)
  <2> HIDE DEF left
  <2>3. CASE isDefined(T, d) /\ defineNext(f, left)
    <3>1. /\ moves(f)
          /\ left = <<>> => /\ call'[f] = NoCall
                            /\ result'[f] = [op |-> call[f].op, status |-> "ok",
                                             of |-> Head(call[f].definitions)]
          /\ left # <<>> =>
               /\ IsReading(call'[f], {}) /\ IsCall(call'[f]) /\ result'[f] = result[f]
               /\ call'[f].op = "create" /\ ~call'[f].ran
      BY <1>2, <1>3, <2>2, <2>3, NextFacts DEF left
    <3>2. arrived(f) /\ IsCall(call'[f])
      BY <1>4, <1>6, <2>2, <2>3, <3>1, NoCallFacts DEF arrived
    <3> QED
      BY <1>1, <1>3, <3>1, <3>2
  <2>4. CASE returns(f, "conflict", d)
    <3>1. /\ moves(f) /\ call'[f] = NoCall
          /\ result'[f] = [op |-> call[f].op, status |-> "conflict", of |-> d]
      BY <1>2, <2>4, ReturnsFacts
    <3>2. arrived(f) /\ IsCall(call'[f])
      BY <1>6, <2>2, <3>1, NoCallFacts DEF arrived
    <3> QED
      BY <1>1, <1>3, <3>1, <3>2
  <2>5. CASE ~conflicts(T, d) /\ works(f, buildIndexStatements(d))
    <3> DEFINE B == buildIndexStatements(d)
               n == Len(B)
               e == call'[f]
    <3>1. /\ moves(f) /\ IsCall(e) /\ result'[f] = result[f] /\ e.op = "create"
          /\ e.definitions = c.definitions /\ e.phase = "statements" /\ ~e.ran /\ e.todo = B
      <4> HIDE DEF B, d
      <4>1. works(f, B)
        BY <2>5 DEF B, d
      <4> QED
        BY <1>2, <1>3, <1>6, <4>1, WorksFacts
    <3>2. /\ n \in Nat \ {0} /\ DOMAIN B = 1..n
          /\ physicalIndexNames(d) = { B[j][1] : j \in DOMAIN B }
      BY <2>2, StatementFacts
    <3>3. B = [k \in 1..(n - 1 + 1) |-> B[k + 1 - 1]]
      <4>1. B = [k \in 1..n |-> B[k]]
        <5>1. CASE d.kind = "fulltext"
          BY <3>2, <5>1 DEF buildIndexStatements
        <5>2. CASE d.kind # "fulltext"
          <6>1. \A x : <<x>> = [k \in 1..Len(<<x>>) |-> <<x>>[k]]
            OBVIOUS
          <6>2. \E x : B = <<x>>
            BY <5>2 DEF buildIndexStatements
          <6> HIDE DEF B
          <6> QED
            BY <6>1, <6>2
        <5> QED
          BY <5>1, <5>2
      <4> HIDE DEF B, n
      <4>2. n - 1 + 1 = n /\ \A k \in 1..n : k + 1 - 1 = k
        BY <3>2
      <4> QED
        BY <4>1, <4>2
    <3>4. namesOf(e.todo) = physicalIndexNames(d)
      BY <3>1, <3>2 DEF namesOf
    <3>5. IsCreating(e, {})
      <4>1. 1 \in 1..n /\ 1..(1 - 1) = {}
        BY <3>2
      <4>2. { B[j][1] : j \in 1..(IF e.ran THEN 1 ELSE 1 - 1) } = {}
        BY <3>1, <4>1
      <4>3. asks(e)
        BY <2>1, <3>1 DEF asks
      <4>4. B = buildIndexStatements(Head(e.definitions)) /\ 1 \in 1..Len(B)
        BY <3>1, <4>1
      <4>5. e.todo = [k \in 1..(Len(B) - 1 + 1) |-> B[k + 1 - 1]]
        BY <3>1, <3>3
      <4> HIDE DEF B, e
      <4> QED
        BY <3>1, <4>2, <4>3, <4>4, <4>5, CreatingIntro
    <3>6. arrived(f)
      <4> HIDE DEF e, B, n
      <4>1. Head(e.definitions) = d
        BY <3>1
      <4> QED
        BY <1>4, <1>6, <2>2, <2>5, <3>1, <3>4, <3>5, <4>1 DEF arrived, e
    <3> QED
      BY <1>1, <1>3, <3>1, <3>6
  <2> QED
    BY <1>6, <2>3, <2>4, <2>5 DEF defineIndex, left
<1>7. CASE c.op = "drop" /\ dropNamed(f, T)
  <2> DEFINE todo == removals(T, partsOf(T, c.name))
  <2>1. IsTodo(todo) /\ namesOf(todo) = partsOf(T, c.name)
    <3> DEFINE R == partsOf(T, c.name)
    <3>1. IsFiniteSet(R)
      BY <1>5 DEF partsOf
    <3> HIDE DEF R, T
    <3>2. IsTodo(removals(T, R)) /\ namesOf(removals(T, R)) = R
      BY <3>1, RemovalsFacts
    <3> QED
      BY <3>2 DEF R, T
  <2>2. CASE returns(f, "notFound", NoDefinition)
    <3>1. /\ moves(f) /\ call'[f] = NoCall
          /\ result'[f] = [op |-> c.op, status |-> "notFound", of |-> NoDefinition]
      BY <1>2, <2>2, ReturnsFacts
    <3> QED
      BY <1>1, <1>3, <1>7, <3>1, NoCallFacts DEF arrived
  <2>3. CASE works(f, todo)
    <3> HIDE DEF todo
    <3>1. /\ moves(f) /\ IsCall(call'[f]) /\ result'[f] = result[f] /\ call'[f].op = "drop"
          /\ call'[f].name = c.name /\ call'[f].phase = "statements"
          /\ ~call'[f].ran /\ call'[f].todo = todo
      BY <1>2, <1>3, <1>7, <2>3, WorksFacts
    <3>2. IsRemoving(call'[f])
      BY <1>4, <1>7, <2>1, <3>1 DEF IsRemoving, asks
    <3> QED
      BY <1>1, <1>3, <1>4, <1>7, <2>1, <3>1, <3>2 DEF arrived
  <2> QED
    BY <1>7, <2>2, <2>3 DEF dropNamed
<1>8. CASE c.op = "dropAll" /\ works(f, removals(T, DOMAIN T))
  <2> DEFINE todo == removals(T, DOMAIN T)
  <2>1. IsTodo(todo) /\ namesOf(todo) = DOMAIN T
    <3> DEFINE R == DOMAIN T
    <3>1. IsFiniteSet(R)
      BY <1>5
    <3> HIDE DEF R
    <3>2. IsTodo(removals(T, R)) /\ namesOf(removals(T, R)) = R
      BY <3>1, RemovalsFacts
    <3> QED
      BY <3>2 DEF R
  <2>2. works(f, todo)
    BY <1>8
  <2> HIDE DEF todo
  <2>3. /\ moves(f) /\ IsCall(call'[f]) /\ result'[f] = result[f] /\ call'[f].op = "dropAll"
        /\ call'[f].phase = "statements" /\ ~call'[f].ran /\ call'[f].todo = todo
    BY <1>2, <1>3, <1>8, <2>2, WorksFacts
  <2>4. IsRemoving(call'[f])
    BY <2>1, <2>3 DEF IsRemoving, asks
  <2> QED
    BY <1>1, <1>3, <1>4, <1>8, <2>1, <2>3, <2>4 DEF arrived
<1>9. CASE c.op = "search" /\ searchFor(f, describeIndexes(T))
  <2> DEFINE fields == UNION { textFieldsOfKey(describeIndexes(T)[n].key) : n \in DOMAIN describeIndexes(T) }
             x == [search EXCEPT !.phase = "search", !.fields = fields]
  <2>1. call' = [call EXCEPT ![f] = x] /\ result' = result
    BY <1>9 DEF searchFor
  <2> HIDE DEF fields
  <2>2. IsCall(x) /\ IsSearching(x)
    BY NoCallFacts DEF search, IsCall, IsSearching
  <2> HIDE DEF x
  <2>3. moves(f) /\ call'[f] = x
    BY <1>2, <2>1 DEF moves
  <2> QED
    BY <1>1, <1>3, <1>4, <1>9, <2>1, <2>2, <2>3 DEF arrived
<1> QED
  BY <1>6, <1>7, <1>8, <1>9 DEF inventoryArrives

LEMMA TypeArrives ==
    ASSUME TypeInv, NEW f \in Flows, inventoryArrives(f)
    PROVE  TypeInv'
<1>1. /\ moves(f) /\ arrived(f) /\ IsCall(call'[f])
      /\ IsReading(call[f], DOMAIN server \cup gone[f]) /\ call[f].ran
  BY Arrives
<1>2. /\ defined' = [defined EXCEPT ![f] = {}]
      /\ UNCHANGED <<server, owner, made, lost, overlapped, entangled, gone>>
  BY DEF inventoryArrives
<1>3. /\ DOMAIN registry' = DOMAIN registry
      /\ loaded' = [loaded EXCEPT ![owner[f]] = TRUE]
      /\ fresh' = [fresh EXCEPT ![owner[f]] = (call[f].table = server)]
  BY DEF inventoryArrives, readIndexInventory
<1>4. keeps(f) /\ defined'[f] = {}
  BY <1>1, <1>2 DEF keeps, TypeInv
<1>5. CallOK(call'[f], DOMAIN server' \cup gone'[f], {}) /\ (call'[f] # NoCall => result'[f] = NoResult)
  <2>1. IsReading(call'[f], {}) => IsReading(call'[f], DOMAIN server' \cup gone'[f])
    BY DEF IsReading
  <2> QED
    BY <1>1, <2>1 DEF arrived, CallOK
<1>6. inOrder(f)
  BY <1>4, <1>5 DEF inOrder
<1>7. sameTypes
  BY <1>2, <1>3 DEF sameTypes, TypeInv
<1> QED
  BY <1>4, <1>6, <1>7, TypeFrame

\* What a statement does at the server, and makes of its call.
stands(f, e) == /\ IsCall(e) /\ e.ran /\ e.phase = "statements" /\ e.op = call[f].op
                /\ e.todo = call[f].todo /\ e.name = call[f].name
                /\ e.definitions = call[f].definitions
ends(f, status) ==
    /\ call'[f] = NoCall
    /\ result'[f] = [op |-> "create", status |-> status, of |-> Head(call[f].definitions)]
    /\ Head(call[f].definitions) \in Asked
    /\ entangled' = (entangled \/ defined[f] # {})
    /\ UNCHANGED <<server, overlapped, defined, gone, fresh>>
statementRan(f) ==
    LET c == call[f]
        q == Head(c.todo)[1]
        d == Head(c.definitions) IN
    \/ /\ c.op = "create" /\ q \notin DOMAIN server /\ d \in Asked
       /\ isPartOf(d, q, Head(c.todo)[2])
       /\ server' = with(server, q, Head(c.todo)[2])
       /\ IsCreating(call'[f], defined'[f]) /\ stands(f, call'[f])
       /\ defined' = [defined EXCEPT ![f] = @ \cup {q}]
       /\ staleElsewhere(f) /\ UNCHANGED <<result, overlapped, entangled, gone>>
    \/ c.op = "create" /\ q \in DOMAIN server /\ ends(f, "exists")
    \/ c.op = "create" /\ (single(d) => defined[f] = {}) /\ ends(f, "unreadable")
    \/ /\ c.op \in {"drop", "dropAll"} /\ q \in DOMAIN server
       /\ server' = without(server, q)
       /\ IsRemoving(call'[f]) /\ stands(f, call'[f])
       /\ gone' = [g \in Flows |-> gone[g] \cup {q}]
       /\ staleElsewhere(f) /\ UNCHANGED <<result, overlapped, entangled, defined>>
    \/ /\ c.op \in {"drop", "dropAll"} /\ q \notin DOMAIN server
       /\ call'[f] = NoCall /\ result'[f].op # "create" /\ UNCHANGED <<server, past>>

LEMMA StatementRuns ==
    ASSUME TypeInv, NEW f \in Flows, statementRuns(f)
    PROVE  /\ moves(f) /\ statementRan(f) /\ IsCall(call[f])
           /\ call[f].phase = "statements" /\ ~call[f].ran /\ call[f].todo # <<>>
           /\ IsTodo(call[f].todo)
           /\ IsCreating(call[f], defined[f]) \/ IsRemoving(call[f])
<1> DEFINE c == call[f]
           todo == c.todo
           q == Head(todo)[1]
           index == Head(todo)[2]
           d == Head(c.definitions)
           x == [c EXCEPT !.ran = TRUE]
<1>1. c.phase = "statements" /\ ~c.ran /\ todo # <<>>
  BY DEF statementRuns
<1>2. /\ DOMAIN call = Flows /\ DOMAIN result = Flows
      /\ CallOK(c, DOMAIN server \cup gone[f], defined[f])
  BY DEF TypeInv
<1>3. IsCall(c) /\ (IsCreating(c, defined[f]) \/ IsRemoving(c))
  BY <1>1, <1>2, NoCallFacts DEF CallOK, IsReading, IsSearching
<1>4. stands(f, x)
  <2> HIDE DEF c
  <2>1. /\ IsCall(x) /\ x.ran /\ x.phase = c.phase /\ x.op = c.op /\ x.todo = c.todo
        /\ x.name = c.name /\ x.definitions = c.definitions
    BY <1>3 DEF IsCall
  <2> QED
    BY <1>1, <2>1 DEF stands, c
<1>6. ASSUME call' = [call EXCEPT ![f].ran = TRUE], result' = result
      PROVE  moves(f) /\ call'[f] = x
  BY <1>2, <1>6 DEF moves
<1>7. CASE IsCreating(c, defined[f])
  <2>1. c.op = "create"
    BY <1>7 DEF IsCreating
  <2>2. /\ d \in Asked /\ IsTodo(todo) /\ isPartOf(d, q, index)
        /\ IsCreating(x, defined[f] \cup {q})
        /\ single(d) => defined[f] = {}
    BY <1>1, <1>3, <1>7, CreatingFacts
  <2>3. defineOneIndex(f, Head(todo))
    BY <2>1 DEF statementRuns
  <2> HIDE DEF x
  <2>4. ASSUME NEW status, returns(f, status, d),
               entangled' = (entangled \/ defined[f] # {}),
               UNCHANGED <<server, overlapped, defined, gone, fresh>>
        PROVE  moves(f) /\ ends(f, status)
    <3>1. /\ moves(f) /\ call'[f] = NoCall
          /\ result'[f] = [op |-> c.op, status |-> status, of |-> d]
      BY <1>2, <2>4, ReturnsFacts
    <3> QED
      BY <2>1, <2>2, <2>4, <3>1 DEF ends
  <2>5. CASE q \in DOMAIN server
    <3>1. /\ returns(f, "exists", d) /\ entangled' = (entangled \/ defined[f] # {})
          /\ UNCHANGED <<server, overlapped, defined, gone, fresh>>
      BY <2>3, <2>5 DEF defineOneIndex
    <3>2. moves(f) /\ ends(f, "exists")
      BY <2>4, <3>1
    <3> QED
      BY <1>1, <1>3, <2>1, <2>2, <2>5, <3>2 DEF statementRan
  <2>6. CASE q \notin DOMAIN server /\ index.columns[1] \in Unreadable
    <3>1. /\ returns(f, "unreadable", d) /\ entangled' = (entangled \/ defined[f] # {})
          /\ UNCHANGED <<server, overlapped, defined, gone, fresh>>
      BY <2>3, <2>6 DEF defineOneIndex
    <3>2. moves(f) /\ ends(f, "unreadable")
      BY <2>4, <3>1
    <3> QED
      BY <1>1, <1>3, <2>1, <2>2, <3>2 DEF statementRan
  <2>7. CASE q \notin DOMAIN server /\ index.columns[1] \notin Unreadable
    <3>1. /\ server' = with(server, q, index) /\ call' = [call EXCEPT ![f].ran = TRUE]
          /\ defined' = [defined EXCEPT ![f] = @ \cup {q}] /\ staleElsewhere(f)
          /\ UNCHANGED <<result, overlapped, entangled, gone>>
      BY <2>3, <2>7 DEF defineOneIndex
    <3>2. moves(f) /\ call'[f] = x
      BY <1>6, <3>1
    <3>3. defined'[f] = defined[f] \cup {q}
      BY <3>1 DEF TypeInv
    <3> QED
      BY <1>1, <1>3, <1>4, <2>1, <2>2, <2>7, <3>1, <3>2, <3>3 DEF statementRan
  <2> QED
    BY <2>5, <2>6, <2>7
<1>8. CASE IsRemoving(c)
  <2>1. c.op \in {"drop", "dropAll"} /\ IsTodo(todo)
    BY <1>8 DEF IsRemoving
  <2>2. removeIndex(f, q)
    BY <2>1 DEF statementRuns
  <2>3. CASE q \in DOMAIN server
    <3>1. /\ server' = without(server, q) /\ call' = [call EXCEPT ![f].ran = TRUE]
          /\ gone' = [g \in Flows |-> gone[g] \cup {q}] /\ staleElsewhere(f)
          /\ UNCHANGED <<result, overlapped, entangled, defined>>
      BY <2>2, <2>3 DEF removeIndex
    <3>2. moves(f) /\ call'[f] = x
      BY <1>6, <3>1
    <3>3. IsRemoving(x)
      <4> HIDE DEF x
      <4> QED
        BY <1>1, <1>4, <1>8 DEF IsRemoving, stands, asks
    <3> HIDE DEF x
    <3> QED
      BY <1>1, <1>3, <1>4, <2>1, <2>3, <3>1, <3>2, <3>3 DEF statementRan
  <2>4. CASE q \notin DOMAIN server
    <3>1. returns(f, "missing", NoDefinition) /\ UNCHANGED <<server, past>>
      BY <2>2, <2>4 DEF removeIndex
    <3>2. /\ moves(f) /\ call'[f] = NoCall
          /\ result'[f] = [op |-> c.op, status |-> "missing", of |-> NoDefinition]
      BY <1>2, <3>1, ReturnsFacts
    <3>3. result'[f].op # "create"
      BY <2>1, <3>2
    <3> QED
      BY <1>1, <1>3, <1>8, <2>1, <2>4, <3>1, <3>2, <3>3 DEF statementRan
  <2> QED
    BY <2>3, <2>4
<1> QED
  BY <1>3, <1>7, <1>8

LEMMA TypeStatementRuns ==
    ASSUME TypeInv, NEW f \in Flows, statementRuns(f)
    PROVE  TypeInv'
<1> DEFINE c == call[f]
           q == Head(c.todo)[1]
           d == Head(c.definitions)
           index == Head(c.todo)[2]
<1>1. moves(f) /\ statementRan(f) /\ IsCall(c) /\ c.phase = "statements"
  BY StatementRuns
<1>2. UNCHANGED <<registry, loaded, owner, made, lost>>
  BY DEF statementRuns
<1>3. WellMade(server) /\ fresh \in [Collections -> BOOLEAN] /\ entangled \in BOOLEAN
  BY DEF TypeInv
<1>4. staleElsewhere(f) => fresh' \in [Collections -> BOOLEAN]
  BY <1>3 DEF staleElsewhere
<1>5. c # NoCall /\ result[f] = NoResult /\ defined[f] \subseteq DOMAIN server \cup gone[f]
  BY <1>1, NoCallFacts DEF TypeInv
<1> USE DEF statementRan
<1>6. ASSUME /\ q \notin DOMAIN server /\ d \in Asked
             /\ isPartOf(d, q, index)
             /\ server' = with(server, q, index)
             /\ IsCreating(call'[f], defined'[f]) /\ stands(f, call'[f])
             /\ defined' = [defined EXCEPT ![f] = @ \cup {q}]
             /\ staleElsewhere(f) /\ UNCHANGED <<result, overlapped, entangled, gone>>
      PROVE  TypeInv'
  <2> HIDE DEF q, index, d
  <2>1. WellMade(server') /\ DOMAIN server' = DOMAIN server \cup {q}
    <3> DEFINE T == server
               U == server'
    <3>1. /\ WellMade(T) /\ d \in Asked /\ q \notin DOMAIN T /\ isPartOf(d, q, index)
          /\ U = with(T, q, index)
      BY <1>3, <1>6
    <3> HIDE DEF T, U
    <3>3. WellMade(U) /\ gained(T, U, d, q, index)
      BY <3>1, DefinedTable
    <3>2. WellMade(U) /\ DOMAIN U = DOMAIN T \cup {q}
      BY <3>3 DEF gained
    <3> QED
      BY <3>2 DEF T, U
  <2>2. keeps(f) /\ defined'[f] = defined[f] \cup {q}
    BY <1>1, <1>6, <2>1 DEF keeps, TypeInv
  <2>3. inOrder(f)
    BY <1>5, <1>6, <2>1, <2>2 DEF inOrder, CallOK, stands
  <2>4. sameTypes
    BY <1>2, <1>4, <1>6, <2>1 DEF sameTypes, TypeInv
  <2> QED
    BY <2>2, <2>3, <2>4, TypeFrame
<1>7. ASSUME NEW status, ends(f, status) PROVE TypeInv'
  <2>1. keeps(f)
    BY <1>1, <1>7 DEF keeps, ends, TypeInv
  <2>2. inOrder(f)
    BY <1>5, <1>7, NoCallFacts DEF inOrder, CallOK, ends
  <2>3. sameTypes
    BY <1>2, <1>3, <1>7 DEF sameTypes, ends, TypeInv
  <2> QED
    BY <2>1, <2>2, <2>3, TypeFrame
<1>8. ASSUME /\ q \in DOMAIN server
             /\ server' = without(server, q)
             /\ IsRemoving(call'[f]) /\ stands(f, call'[f])
             /\ gone' = [g \in Flows |-> gone[g] \cup {q}]
             /\ staleElsewhere(f) /\ UNCHANGED <<result, overlapped, entangled, defined>>
      PROVE  TypeInv'
  <2> HIDE DEF q, index, d
  <2>6. WellMade(server') /\ shed(server, server', q)
    BY <1>3, <1>8, RemovedTable
  <2>1. WellMade(server') /\ DOMAIN server' = DOMAIN server \ {q}
    BY <2>6 DEF shed
  <2>2. \A g \in Flows : gone'[g] = gone[g] \cup {q}
    BY <1>8
  <2>3. keeps(f)
    BY <1>1, <1>8, <2>1, <2>2 DEF keeps, TypeInv
  <2>4. inOrder(f)
    BY <1>5, <1>8, <2>1, <2>2 DEF inOrder, CallOK, stands
  <2>5. sameTypes
    BY <1>2, <1>4, <1>8, <2>1 DEF sameTypes, TypeInv
  <2> QED
    BY <2>3, <2>4, <2>5, TypeFrame
<1>9. ASSUME call'[f] = NoCall, UNCHANGED <<server, past>> PROVE TypeInv'
  <2>1. keeps(f) /\ inOrder(f) /\ sameTypes
    BY <1>1, <1>2, <1>5, <1>9, NoCallFacts DEF keeps, inOrder, sameTypes, CallOK, TypeInv, past
  <2> QED
    BY <2>1, TypeFrame
<1> QED
  BY <1>1, <1>6, <1>7, <1>8, <1>9

LEMMA StatementArrives ==
    ASSUME TypeInv, NEW f \in Flows, statementArrives(f)
    PROVE  /\ moves(f) /\ UNCHANGED <<server, registry, loaded, owner, made, lost, result, past>>
           /\ IsCall(call[f]) /\ call[f].phase = "statements" /\ call[f].ran
           /\ IsTodo(call[f].todo)
           /\ IsCall(call'[f]) /\ call'[f].op = call[f].op /\ call'[f].name = call[f].name
           /\ call'[f].definitions = call[f].definitions /\ call'[f].phase = "statements"
           /\ ~call'[f].ran /\ call'[f].todo = Tail(call[f].todo)
           /\ \/ IsCreating(call[f], defined[f]) /\ IsCreating(call'[f], defined[f])
              \/ IsRemoving(call[f]) /\ IsRemoving(call'[f])
<1> DEFINE c == call[f]
           x == [c EXCEPT !.ran = FALSE, !.todo = Tail(c.todo)]
<1>1. /\ c.phase = "statements" /\ c.ran /\ Len(c.todo) > 1
      /\ UNCHANGED <<server, registry, loaded, owner, made, lost, result, past>>
  BY DEF statementArrives
<1>2. call' = [call EXCEPT ![f] = x]
  <2>1. call' = [call EXCEPT ![f].ran = FALSE, ![f].todo = Tail(@)]
    BY DEF statementArrives
  <2> QED
    BY <2>1
<1>3. /\ DOMAIN call = Flows /\ DOMAIN result = Flows
      /\ CallOK(c, DOMAIN server \cup gone[f], defined[f])
  BY DEF TypeInv
<1>4. IsCall(c) /\ (IsCreating(c, defined[f]) \/ IsRemoving(c))
  BY <1>1, <1>3, NoCallFacts DEF CallOK, IsReading, IsSearching
<1>5. /\ IsCall(x) /\ x.op = c.op /\ x.name = c.name /\ x.definitions = c.definitions
      /\ x.phase = c.phase /\ ~x.ran /\ x.todo = Tail(c.todo)
  <2> HIDE DEF c
  <2> QED
    BY <1>4 DEF IsCall
<1>6. moves(f) /\ call'[f] = x
  BY <1>1, <1>2, <1>3 DEF moves
<1>7. IsTodo(c.todo) /\ \/ IsCreating(c, defined[f]) /\ IsCreating(x, defined[f])
                        \/ IsRemoving(c) /\ IsRemoving(x)
  <2>1. CASE IsCreating(c, defined[f])
    <3> HIDE DEF c
    <3>1. IsTodo(c.todo) /\ IsCreating([c EXCEPT !.ran = FALSE, !.todo = Tail(c.todo)], defined[f])
      BY <1>1, <1>4, <2>1, CreatingFacts
    <3> QED
      BY <2>1, <3>1
  <2>2. CASE IsRemoving(c)
    <3> DEFINE todo == c.todo
    <3>1. IsTodo(todo)
      BY <2>2 DEF IsRemoving
    <3> HIDE DEF todo
    <3>2. todo # <<>>
      BY <1>1, <1>4, <2>2 DEF IsRemoving, todo
    <3>3. IsTodo(Tail(todo))
      BY <3>1, <3>2, TodoFacts
    <3> HIDE DEF x, c
    <3>4. IsRemoving(x)
      BY <1>1, <1>5, <2>2, <3>3 DEF IsRemoving, asks, todo
    <3> QED
      BY <2>2, <3>1, <3>4 DEF todo
  <2> QED
    BY <1>4, <2>1, <2>2
<1> HIDE DEF x
<1> QED
  BY <1>1, <1>4, <1>5, <1>6, <1>7

LEMMA TypeStatementArrives ==
    ASSUME TypeInv, NEW f \in Flows, statementArrives(f)
    PROVE  TypeInv'
<1>1. /\ moves(f) /\ UNCHANGED <<server, registry, loaded, owner, made, lost, result, past>>
      /\ call[f].phase = "statements" /\ IsCall(call'[f])
      /\ IsCreating(call'[f], defined[f]) \/ IsRemoving(call'[f])
  BY StatementArrives
<1>2. result[f] = NoResult /\ defined[f] \subseteq DOMAIN server \cup gone[f]
  BY <1>1, NoCallFacts DEF TypeInv
<1>3. keeps(f)
  BY <1>1 DEF keeps, TypeInv, past
<1>4. inOrder(f)
  BY <1>1, <1>2 DEF inOrder, CallOK, past
<1>5. sameTypes
  BY <1>1 DEF sameTypes, TypeInv, past
<1> QED
  BY <1>3, <1>4, <1>5, TypeFrame

\* What the end of a call's statements makes of it.
completed(f) ==
    LET c == call[f]
        d == Head(c.definitions) IN
    \/ /\ c.op = "create" /\ c.ran /\ d \in Asked
       /\ IsCreating(c, defined[f]) /\ defined[f] = physicalIndexNames(d)
       /\ \/ /\ call'[f] = NoCall
             /\ result'[f] = [op |-> "create", status |-> "ok", of |-> d]
          \/ /\ IsReading(call'[f], {}) /\ call'[f].op = "create" /\ ~call'[f].ran
             /\ result'[f] = NoResult
    \/ /\ c.op \in {"drop", "dropAll"} /\ IsRemoving(c) /\ remaining(c) = {}
       /\ call'[f] = NoCall /\ result'[f].op # "create"

LEMMA Completes ==
    ASSUME TypeInv, NEW f \in Flows, completes(f)
    PROVE  /\ moves(f) /\ completed(f) /\ UNCHANGED <<server, loaded, owner, made, lost, past>>
           /\ IsCall(call[f]) /\ call[f].phase = "statements" /\ IsCall(call'[f])
<1> DEFINE c == call[f]
           d == Head(c.definitions)
           todo == c.todo
<1>1. /\ c.phase = "statements" /\ Len(todo) = IF c.ran THEN 1 ELSE 0
      /\ UNCHANGED <<server, loaded, owner, made, lost, past>>
  BY DEF completes
<1>2. /\ DOMAIN call = Flows /\ DOMAIN result = Flows
      /\ CallOK(c, DOMAIN server \cup gone[f], defined[f])
  BY DEF TypeInv
<1>3. IsCall(c) /\ (IsCreating(c, defined[f]) \/ IsRemoving(c))
  BY <1>1, <1>2, NoCallFacts DEF CallOK, IsReading, IsSearching
<1>4. result[f] = NoResult
  BY <1>1, NoCallFacts DEF TypeInv
<1>5. CASE IsCreating(c, defined[f])
  <2>1. c.op = "create"
    BY <1>5 DEF IsCreating
  <2> DEFINE ds == c.definitions
             left == Tail(ds)
  <2>2. /\ d \in Asked /\ ds \in Seq(Asked) /\ ds # <<>> /\ IsTodo(todo) /\ todo # <<>>
        /\ c.ran /\ Len(todo) = 1 => defined[f] = physicalIndexNames(d)
    BY <1>3, <1>5, CreatingFacts
  <2>3. c.ran /\ defined[f] = physicalIndexNames(d)
    <3> HIDE DEF todo
    <3>1. todo = <<>> <=> Len(todo) = 0
      BY <2>2, TodoFacts
    <3> QED
      BY <1>1, <2>2, <3>1
  <2>4. defineNext(f, left)
    BY <2>1 DEF completes
  <2>5. left \in Seq(Asked)
    <3> HIDE DEF ds
    <3> QED
      BY <2>2
  <2> HIDE DEF left
  <2>6. /\ moves(f)
        /\ left = <<>> => /\ call'[f] = NoCall
                          /\ result'[f] = [op |-> call[f].op, status |-> "ok",
                                           of |-> Head(call[f].definitions)]
        /\ left # <<>> => /\ IsReading(call'[f], {}) /\ IsCall(call'[f]) /\ result'[f] = result[f]
                          /\ call'[f].op = "create" /\ ~call'[f].ran
    BY <1>2, <1>3, <2>4, <2>5, NextFacts
  <2>7. completed(f) /\ IsCall(call'[f])
    BY <1>4, <1>5, <2>1, <2>2, <2>3, <2>6, NoCallFacts DEF completed
  <2> QED
    BY <1>1, <1>3, <2>6, <2>7
<1>6. CASE IsRemoving(c)
  <2>1. c.op \in {"drop", "dropAll"} /\ IsTodo(todo)
    BY <1>6 DEF IsRemoving
  <2>2. returns(f, "ok", NoDefinition)
    BY <2>1 DEF completes
  <2>3. /\ moves(f) /\ call'[f] = NoCall
        /\ result'[f] = [op |-> c.op, status |-> "ok", of |-> NoDefinition]
    BY <1>2, <2>2, ReturnsFacts
  <2>4. remaining(c) = {}
    <3> DEFINE rest == IF c.ran THEN Tail(todo) ELSE todo
    <3>1. rest = <<>> \/ (IsTodo(rest) /\ Len(rest) = 0)
      <4> HIDE DEF todo
      <4>1. /\ todo = <<>> <=> Len(todo) = 0
            /\ todo # <<>> => IsTodo(Tail(todo)) /\ Len(Tail(todo)) = Len(todo) - 1
        BY <2>1, TodoFacts
      <4> QED
        BY <1>1, <4>1
    <3>2. namesOf(<<>>) = {}
      BY DEF namesOf
    <3> HIDE DEF rest
    <3>3. namesOf(rest) = {}
      BY <3>1, <3>2, TodoFacts
    <3> QED
      BY <3>3 DEF remaining, rest
  <2>5. result'[f].op = c.op
    BY <2>3
  <2>6. completed(f) /\ IsCall(call'[f])
    BY <1>6, <2>1, <2>3, <2>4, <2>5, NoCallFacts DEF completed
  <2> QED
    BY <1>1, <1>3, <2>3, <2>6
<1> QED
  BY <1>3, <1>5, <1>6

LEMMA TypeCompletes ==
    ASSUME TypeInv, NEW f \in Flows, completes(f)
    PROVE  TypeInv'
<1>1. /\ moves(f) /\ completed(f) /\ UNCHANGED <<server, loaded, owner, made, lost, past>>
      /\ IsCall(call'[f]) /\ call[f].phase = "statements"
  BY Completes
<1>2. DOMAIN registry' = DOMAIN registry
  BY DEF completes
<1>3. defined[f] \subseteq DOMAIN server \cup gone[f]
  BY DEF TypeInv
<1>4. call'[f] = NoCall \/ (IsReading(call'[f], {}) /\ result'[f] = NoResult)
  BY <1>1 DEF completed
<1>5. keeps(f)
  BY <1>1 DEF keeps, TypeInv, past
<1>6. inOrder(f)
  <2>1. IsReading(call'[f], {}) => IsReading(call'[f], DOMAIN server' \cup gone'[f])
    BY DEF IsReading
  <2> QED
    BY <1>1, <1>3, <1>4, <2>1 DEF inOrder, CallOK, past
<1>7. sameTypes
  BY <1>1, <1>2 DEF sameTypes, TypeInv, past
<1> QED
  BY <1>5, <1>6, <1>7, TypeFrame

\* A call that ends at a search, or loses its answer.
leaves(f) == /\ moves(f) /\ call'[f] = NoCall
             /\ \/ result'[f].op # "create" /\ call[f].op = "search"
                \/ result'[f].status = "lost"

LEMMA SearchRuns ==
    ASSUME TypeInv, NEW f \in Flows, searchRuns(f)
    PROVE  leaves(f) /\ UNCHANGED <<server, registry, loaded, owner, made, lost, past>>
<1> DEFINE c == call[f]
<1>1. PICK status : returns(f, status, NoDefinition)
  BY DEF searchRuns
<1>2. c.phase = "search" /\ UNCHANGED <<server, registry, loaded, owner, made, lost, past>>
  BY DEF searchRuns
<1>3. DOMAIN call = Flows /\ DOMAIN result = Flows /\ CallOK(c, DOMAIN server \cup gone[f], defined[f])
  BY DEF TypeInv
<1>4. c.op = "search"
  BY <1>2, <1>3, NoCallFacts DEF CallOK, IsReading, IsCreating, IsRemoving, IsSearching
<1>5. /\ moves(f) /\ call'[f] = NoCall
      /\ result'[f] = [op |-> c.op, status |-> status, of |-> NoDefinition]
  BY <1>1, <1>3, ReturnsFacts
<1>6. result'[f].op = c.op
  BY <1>5
<1> QED
  BY <1>2, <1>4, <1>5, <1>6 DEF leaves

LEMMA AnswerLost ==
    ASSUME TypeInv, NEW f \in Flows, answerLost(f)
    PROVE  /\ leaves(f) /\ call[f] # NoCall
           /\ entangled' = (entangled \/ call[f].phase = "statements")
           /\ UNCHANGED <<server, registry, loaded, owner, made, overlapped, defined, gone, fresh>>
<1>1. /\ returns(f, "lost", NoDefinition) /\ call[f] # NoCall
      /\ entangled' = (entangled \/ call[f].phase = "statements")
      /\ UNCHANGED <<server, registry, loaded, owner, made, overlapped, defined, gone, fresh>>
  BY DEF answerLost
<1>2. DOMAIN call = Flows /\ DOMAIN result = Flows
  BY DEF TypeInv
<1>3. /\ moves(f) /\ call'[f] = NoCall
      /\ result'[f] = [op |-> call[f].op, status |-> "lost", of |-> NoDefinition]
  BY <1>1, <1>2, ReturnsFacts
<1>4. result'[f].status = "lost"
  BY <1>3
<1> QED
  BY <1>1, <1>3, <1>4 DEF leaves

LEMMA TypeLeaves ==
    ASSUME TypeInv, NEW f \in Flows, leaves(f), lost' \in 0..MaxLost, entangled' \in BOOLEAN,
           UNCHANGED <<server, registry, loaded, owner, made, overlapped, defined, gone, fresh>>
    PROVE  TypeInv'
<1>1. moves(f) /\ call'[f] = NoCall
  BY DEF leaves
<1>2. defined[f] \subseteq DOMAIN server \cup gone[f]
  BY DEF TypeInv
<1>3. keeps(f)
  BY <1>1 DEF keeps, TypeInv
<1>4. inOrder(f)
  BY <1>1, <1>2, NoCallFacts DEF inOrder, CallOK
<1>5. sameTypes
  BY DEF sameTypes, TypeInv
<1> QED
  BY <1>3, <1>4, <1>5, TypeFrame

LEMMA TypeStep == TypeInv /\ [Next]_vars => TypeInv'
<1> SUFFICES ASSUME TypeInv, [Next]_vars PROVE TypeInv'
  OBVIOUS
<1>1. ASSUME NEW f \in Flows, NEW c \in Calls, begin(f, c) PROVE TypeInv'
  BY <1>1, TypeBegin
<1>2. ASSUME NEW f \in Flows, infoRuns(f) PROVE TypeInv'
  BY <1>2, TypeInfoRuns
<1>3. ASSUME NEW f \in Flows, inventoryArrives(f) PROVE TypeInv'
  BY <1>3, TypeArrives
<1>4. ASSUME NEW f \in Flows, statementRuns(f) PROVE TypeInv'
  BY <1>4, TypeStatementRuns
<1>5. ASSUME NEW f \in Flows, statementArrives(f) PROVE TypeInv'
  BY <1>5, TypeStatementArrives
<1>6. ASSUME NEW f \in Flows, completes(f) PROVE TypeInv'
  BY <1>6, TypeCompletes
<1>7. ASSUME NEW f \in Flows, searchRuns(f) PROVE TypeInv'
  <2>1. leaves(f) /\ UNCHANGED <<server, registry, loaded, owner, made, lost, past>>
    BY <1>7, SearchRuns
  <2>2. lost' \in 0..MaxLost /\ entangled' \in BOOLEAN
    BY <2>1 DEF past, TypeInv
  <2> QED
    BY <2>1, <2>2, TypeLeaves DEF past
<1>8. ASSUME NEW f \in Flows, answerLost(f) PROVE TypeInv'
  <2>1. /\ leaves(f)
        /\ UNCHANGED <<server, registry, loaded, owner, made, overlapped, defined, gone, fresh>>
    BY <1>8, AnswerLost
  <2>2. lost' \in 0..MaxLost
    BY <1>8, BoundsAssumption DEF answerLost, TypeInv
  <2>3. entangled' \in BOOLEAN
    BY <1>8 DEF answerLost, TypeInv
  <2> QED
    BY <2>1, <2>2, <2>3, TypeLeaves
<1>9. ASSUME UNCHANGED vars PROVE TypeInv'
  BY <1>9 DEF TypeInv, vars, past
<1> QED
  BY <1>1, <1>2, <1>3, <1>4, <1>5, <1>6, <1>7, <1>8, <1>9 DEF Next, step, Done

-----------------------------------------------------------------------------
(* Writers *)

\* A step of f after which it writes only if it did, and others are as they were.
continues(f) ==
    /\ moves(f) /\ \A g \in Flows \ {f} : defined'[g] = defined[g]
    /\ overlapped' = overlapped /\ (entangled => entangled')
    /\ writes(call'[f]) => writes(call[f])
    /\ server' = server \/ writes(call[f])
learns(f) ==
    writes(call'[f]) /\ ~overlapped[f] /\ knows(call[f], server, defined[f])
        => knows(call'[f], server', defined'[f])

LEMMA AloneFrame ==
    ASSUME Alone, Untangled, NEW f \in Flows, continues(f), learns(f)
    PROVE  Alone' /\ Untangled'
<1>1. ASSUME NEW h \in Flows, writes(call'[h]), ~overlapped'[h]
      PROVE  /\ \A g \in Flows \ {h} : ~writes(call'[g])
             /\ knows(call'[h], server', defined'[h])
  <2>1. writes(call[h]) /\ ~overlapped[h]
    <3>1. CASE h = f
      BY <1>1, <3>1 DEF continues
    <3>2. CASE h # f
      BY <1>1, <3>2 DEF continues, moves
    <3> QED
      BY <3>1, <3>2
  <2>2. (\A g \in Flows \ {h} : ~writes(call[g])) /\ knows(call[h], server, defined[h])
    BY <2>1 DEF Alone
  <2>3. \A g \in Flows \ {h} : ~writes(call'[g])
    <3> SUFFICES ASSUME NEW g \in Flows \ {h} PROVE ~writes(call'[g])
      OBVIOUS
    <3>1. ~writes(call[g])
      BY <2>2
    <3>2. CASE g = f
      BY <3>1, <3>2 DEF continues
    <3>3. CASE g # f
      BY <3>1, <3>3 DEF continues, moves
    <3> QED
      BY <3>2, <3>3
  <2>4. knows(call'[h], server', defined'[h])
    <3>1. CASE h = f
      BY <1>1, <2>1, <2>2, <3>1 DEF learns
    <3>2. CASE h # f
      <4>1. call'[h] = call[h] /\ defined'[h] = defined[h] /\ f \in Flows \ {h}
        BY <3>2 DEF continues, moves
      <4>2. server' = server
        BY <2>2, <4>1 DEF continues
      <4> QED
        BY <2>2, <4>1, <4>2
    <3> QED
      BY <3>1, <3>2
  <2> QED
    BY <2>3, <2>4
<1>2. Alone'
  BY <1>1 DEF Alone
<1>3. ASSUME ~entangled', NEW h \in Flows, writes(call'[h]) PROVE ~overlapped'[h]
  <2>1. writes(call[h])
    <3>1. CASE h = f
      BY <1>3, <3>1 DEF continues
    <3>2. CASE h # f
      BY <1>3, <3>2 DEF continues, moves
    <3> QED
      BY <3>1, <3>2
  <2> QED
    BY <1>3, <2>1 DEF Untangled, continues
<1>4. Untangled'
  BY <1>3 DEF Untangled
<1> QED
  BY <1>2, <1>4

LEMMA WritesFacts ==
    ASSUME NEW c
    PROVE  /\ c.op \in {"create", "drop", "dropAll"} <=> writes(c)
           /\ c = NoCall => ~writes(c)
           /\ IsSearching(c) => ~writes(c)
           /\ IsReading(c, {}) /\ ~c.ran => \A T, done : knows(c, T, done)
BY NoCallFacts DEF writes, IsSearching, IsReading, knows

LEMMA AloneInit == Init => Alone /\ Untangled /\ ResultInv /\ WholeInv /\ RegistryInv
<1> SUFFICES ASSUME Init PROVE Alone /\ Untangled /\ ResultInv /\ WholeInv /\ RegistryInv
  OBVIOUS
<1>1. \A f \in Flows : call[f] = NoCall /\ result[f] = NoResult
  BY DEF Init
<1>2. \A f \in Flows : ~writes(call[f])
  BY <1>1, NoCallFacts
<1>3. Alone /\ Untangled
  BY <1>2 DEF Alone, Untangled
<1>4. ResultInv
  <2>1. NoResult.op # "create"
    BY DEF NoResult
  <2> QED
    BY <1>1, <2>1 DEF ResultInv, resultOK
<1>5. \A n : Whole(server, n)
  <2>1. server \in Tables
    BY DEF Init
  <2>2. \A p \in DOMAIN server : byHand(server[p])
    BY <2>1, TablesAssumption DEF TablesAreByHand, byHand
  <2> QED
    BY <2>2 DEF Whole, partsOf
<1>6. \A c \in Collections : registry[c] = <<>> /\ ~loaded[c]
  BY DEF Init
<1>7. DOMAIN <<>> = {}
  OBVIOUS
<1> QED
  BY <1>3, <1>4, <1>5, <1>6, <1>7 DEF WholeInv, RegistryInv

LEMMA AloneBegin ==
    ASSUME TypeInv, Alone, Untangled, NEW f \in Flows, NEW c \in Calls, begin(f, c)
    PROVE  Alone' /\ Untangled'
<1> DEFINE others == { g \in Flows \ {f} : writes(call[g]) }
           e == call'[f]
<1>1. /\ moves(f) /\ IsCall(e) /\ e.op = c.op /\ ~e.ran /\ e.phase \in {"inventory", "search"}
  BY TypeBegin
<1>2. /\ overlapped' = [g \in Flows |-> IF g = f THEN others # {}
                                        ELSE overlapped[g] \/ (g \in others /\ writes(c))]
      /\ entangled' = (entangled \/ (others # {} /\ writes(c)))
      /\ defined' = [defined EXCEPT ![f] = {}] /\ server' = server
  BY DEF begin
<1>3. /\ \A g \in Flows \ {f} : /\ call'[g] = call[g] /\ defined'[g] = defined[g]
                                /\ overlapped'[g] <=> overlapped[g] \/ (g \in others /\ writes(c))
      /\ overlapped'[f] <=> others # {}
  BY <1>1, <1>2 DEF moves, TypeInv
<1>4. writes(e) <=> writes(c)
  BY <1>1 DEF writes
<1>5. knows(e, server', defined'[f])
  BY <1>1 DEF knows
<1>6. ASSUME NEW h \in Flows, writes(call'[h]), ~overlapped'[h]
      PROVE  /\ \A g \in Flows \ {h} : ~writes(call'[g])
             /\ knows(call'[h], server', defined'[h])
  <2>1. CASE h = f
    <3>1. others = {}
      BY <1>3, <1>6, <2>1
    <3>2. \A g \in Flows \ {f} : ~writes(call[g])
      BY <3>1
    <3> QED
      BY <1>3, <1>5, <2>1, <3>2
  <2>2. CASE h # f
    <3>1. writes(call[h]) /\ ~overlapped[h] /\ h \in others
      BY <1>3, <1>6, <2>2
    <3>2. ~writes(e)
      BY <1>3, <1>4, <1>6, <2>2, <3>1
    <3>3. /\ \A g \in Flows \ {h} : ~writes(call[g])
          /\ knows(call[h], server, defined[h])
      BY <3>1 DEF Alone
    <3>4. \A g \in Flows \ {h} : ~writes(call'[g])
      BY <1>3, <3>2, <3>3
    <3> QED
      BY <1>2, <1>3, <2>2, <3>3, <3>4
  <2> QED
    BY <2>1, <2>2
<1>7. Alone'
  BY <1>6 DEF Alone
<1>8. ASSUME ~entangled', NEW h \in Flows, writes(call'[h]) PROVE ~overlapped'[h]
  <2>1. ~entangled /\ (others = {} \/ ~writes(c))
    BY <1>2, <1>8 DEF TypeInv
  <2>2. CASE h = f
    BY <1>3, <1>4, <1>8, <2>1, <2>2
  <2>3. CASE h # f
    <3>1. writes(call[h]) /\ h \in others
      BY <1>3, <1>8, <2>3
    <3> QED
      BY <1>3, <2>1, <2>3, <3>1 DEF Untangled
  <2> QED
    BY <2>2, <2>3
<1>9. Untangled'
  BY <1>8 DEF Untangled
<1> QED
  BY <1>7, <1>9

LEMMA AloneInfoRuns ==
    ASSUME TypeInv, Alone, Untangled, NEW f \in Flows, infoRuns(f)
    PROVE  Alone' /\ Untangled'
<1>1. /\ moves(f) /\ call'[f].op = call[f].op /\ call'[f].phase = "inventory"
      /\ call'[f].ran /\ call'[f].table = server
  BY TypeInfoRuns
<1>2. UNCHANGED <<server, past>>
  BY DEF infoRuns
<1>3. continues(f)
  BY <1>1, <1>2 DEF continues, writes, past
<1>4. knows(call'[f], server', defined'[f])
  BY <1>1, <1>2 DEF knows
<1> QED
  BY <1>3, <1>4, AloneFrame DEF learns

LEMMA AloneArrives ==
    ASSUME TypeInv, Alone, Untangled, NEW f \in Flows, inventoryArrives(f)
    PROVE  Alone' /\ Untangled'
<1> DEFINE c == call[f]
           e == call'[f]
<1>1. moves(f) /\ arrived(f) /\ IsReading(c, DOMAIN server \cup gone[f]) /\ c.ran
  BY Arrives
<1>2. /\ defined' = [defined EXCEPT ![f] = {}]
      /\ UNCHANGED <<server, owner, made, lost, overlapped, entangled, gone>>
  BY DEF inventoryArrives
<1>3. defined'[f] = {} /\ \A g \in Flows \ {f} : defined'[g] = defined[g]
  BY <1>2 DEF TypeInv
<1>4. writes(e) => writes(c)
  <2>1. c.op = "search" => IsSearching(e)
    BY <1>1 DEF arrived
  <2> QED
    BY <1>1, <2>1, WritesFacts DEF IsReading
<1>5. continues(f)
  BY <1>1, <1>2, <1>3, <1>4 DEF continues
<1>6. ASSUME writes(e), c.table = server PROVE knows(e, server', {})
  <2> DEFINE d == Head(c.definitions)
  <2>1. e # NoCall /\ ~IsSearching(e)
    BY <1>6, WritesFacts
  <2>2. CASE IsReading(e, {}) /\ ~e.ran
    BY <2>2, WritesFacts
  <2>3. CASE /\ d \in Asked /\ ~conflicts(c.table, d)
             /\ IsCreating(e, {}) /\ ~e.ran /\ Head(e.definitions) = d
             /\ namesOf(e.todo) = physicalIndexNames(d)
    <3>1. partsOf(server, d.name) = {} /\ physicalIndexNames(d) \cap DOMAIN server = {}
      BY <1>6, <2>3, NoConflict
    <3>2. remaining(e) = physicalIndexNames(d) /\ e.op = "create" /\ e.phase = "statements"
      BY <2>3 DEF remaining, IsCreating
    <3> QED
      BY <1>2, <2>3, <3>1, <3>2 DEF knows
  <2>4. CASE /\ IsRemoving(e) /\ ~e.ran /\ e.op = "drop" /\ e.name = c.name
             /\ namesOf(e.todo) = partsOf(c.table, c.name)
    BY <1>2, <1>6, <2>4 DEF knows, remaining, IsRemoving
  <2>5. CASE /\ IsRemoving(e) /\ ~e.ran /\ e.op = "dropAll"
             /\ namesOf(e.todo) = DOMAIN c.table
    BY <1>2, <1>6, <2>5 DEF knows, remaining, IsRemoving
  <2> QED
    BY <1>1, <2>1, <2>2, <2>3, <2>4, <2>5 DEF arrived
<1>7. knows(c, server, defined[f]) => c.table = server
  BY <1>1 DEF knows, IsReading
<1>8. learns(f)
  BY <1>3, <1>6, <1>7 DEF learns
<1> QED
  BY <1>5, <1>8, AloneFrame

\* What is left to do, when a statement is sent, has run and is answered.
LEMMA RemainingFacts ==
    ASSUME NEW todo, IsTodo(todo), todo # <<>>, NEW c, c.todo = todo
    PROVE  /\ ~c.ran => /\ remaining(c) = {Head(todo)[1]} \cup namesOf(Tail(todo))
                        /\ Head(todo)[1] \in remaining(c)
           /\ c.ran => remaining(c) = namesOf(Tail(todo))
           /\ Head(todo)[1] \notin namesOf(Tail(todo))
BY TodoFacts DEF remaining

LEMMA AloneDefines ==
    ASSUME NEW T, NEW U, NEW d, NEW q, NEW index, isPartOf(d, q, index),
           gained(T, U, d, q, index),
           NEW c, c.phase = "statements", c.op = "create", d = Head(c.definitions),
           IsTodo(c.todo), c.todo # <<>>, ~c.ran, q = Head(c.todo)[1],
           NEW done, knows(c, T, done),
           NEW e, e.phase = "statements", e.op = "create", e.definitions = c.definitions,
           e.todo = c.todo, e.ran
    PROVE  knows(e, U, done \cup {q})
<1> DEFINE rest == namesOf(Tail(c.todo))
<1>1. remaining(c) = {q} \cup rest /\ remaining(e) = rest /\ q \notin rest
  <2> DEFINE todo == c.todo
  <2> HIDE DEF todo
  <2>1. IsTodo(todo) /\ todo # <<>> /\ c.todo = todo /\ e.todo = todo
    BY DEF todo
  <2>2. remaining(c) = {Head(todo)[1]} \cup namesOf(Tail(todo)) /\ Head(todo)[1] \notin namesOf(Tail(todo))
    BY <2>1, RemainingFacts
  <2>3. remaining(e) = namesOf(Tail(todo))
    BY <2>1, RemainingFacts
  <2> QED
    BY <2>2, <2>3 DEF todo
<1>2. /\ remaining(c) \cap DOMAIN T = {} /\ partsOf(T, d.name) = done
      /\ \A p \in done : isPartOf(d, p, T[p])
  BY DEF knows
<1>5. done \subseteq DOMAIN T
  BY <1>2 DEF partsOf
<1> HIDE DEF rest
<1>6. remaining(e) \cap DOMAIN U = {}
  BY <1>1, <1>2 DEF gained
<1>7. \A p \in done \cup {q} : isPartOf(d, p, U[p])
  BY <1>2, <1>5 DEF gained
<1>8. partsOf(U, d.name) = done \cup {q}
  BY <1>2 DEF gained
<1> QED
  BY <1>6, <1>7, <1>8 DEF knows

LEMMA AloneRemoves ==
    ASSUME NEW T, NEW q, NEW U, shed(T, U, q),
           NEW c, c.phase = "statements", c.op \in {"drop", "dropAll"},
           IsTodo(c.todo), c.todo # <<>>, ~c.ran, q = Head(c.todo)[1],
           NEW done, knows(c, T, done),
           NEW e, e.phase = "statements", e.op = c.op, e.name = c.name, e.todo = c.todo, e.ran
    PROVE  knows(e, U, done)
<1> DEFINE rest == namesOf(Tail(c.todo))
<1>1. remaining(c) = {q} \cup rest /\ remaining(e) = rest /\ q \notin rest
  <2> DEFINE todo == c.todo
  <2> HIDE DEF todo
  <2>1. IsTodo(todo) /\ todo # <<>> /\ c.todo = todo /\ e.todo = todo
    BY DEF todo
  <2>2. remaining(c) = {Head(todo)[1]} \cup namesOf(Tail(todo)) /\ Head(todo)[1] \notin namesOf(Tail(todo))
    BY <2>1, RemainingFacts
  <2>3. remaining(e) = namesOf(Tail(todo))
    BY <2>1, RemainingFacts
  <2> QED
    BY <2>2, <2>3 DEF todo
<1> HIDE DEF rest
<1>2. DOMAIN U = DOMAIN T \ {q} /\ partsOf(U, c.name) = partsOf(T, c.name) \ {q}
  BY DEF shed
<1>5. c.op = "drop" => partsOf(T, c.name) = remaining(c)
  BY DEF knows
<1>6. c.op = "dropAll" => DOMAIN T = remaining(c)
  BY DEF knows
<1>3. c.op = "drop" => partsOf(U, c.name) = rest
  BY <1>1, <1>2, <1>5
<1>4. c.op = "dropAll" => DOMAIN U = rest
  BY <1>1, <1>2, <1>6
<1> QED
  BY <1>1, <1>3, <1>4 DEF knows

LEMMA AloneStatementRuns ==
    ASSUME TypeInv, Alone, Untangled, NEW f \in Flows, statementRuns(f)
    PROVE  Alone' /\ Untangled'
<1> DEFINE c == call[f]
           e == call'[f]
           q == Head(c.todo)[1]
           d == Head(c.definitions)
           index == Head(c.todo)[2]
<1>1. /\ moves(f) /\ statementRan(f) /\ c.phase = "statements" /\ ~c.ran /\ c.todo # <<>>
      /\ IsTodo(c.todo) /\ WellMade(server)
      /\ IsCreating(c, defined[f]) \/ IsRemoving(c)
  BY StatementRuns DEF TypeInv
<1>2. writes(c)
  BY <1>1 DEF writes, IsCreating, IsRemoving
<1> USE DEF statementRan
<1>3. ASSUME /\ c.op = "create" /\ q \notin DOMAIN server /\ d \in Asked
             /\ isPartOf(d, q, index)
             /\ server' = with(server, q, index)
             /\ IsCreating(e, defined'[f]) /\ stands(f, e)
             /\ defined' = [defined EXCEPT ![f] = @ \cup {q}]
             /\ UNCHANGED <<overlapped, entangled>>
      PROVE  continues(f) /\ learns(f)
  <2>1. /\ defined'[f] = defined[f] \cup {q}
        /\ \A g \in Flows \ {f} : defined'[g] = defined[g]
    BY <1>3 DEF TypeInv
  <2>2. continues(f)
    BY <1>1, <1>2, <1>3, <2>1 DEF continues
  <2> DEFINE T == server
             U == server'
             done == defined[f]
  <2>3. /\ WellMade(T) /\ d \in Asked /\ q \notin DOMAIN T /\ isPartOf(d, q, index)
        /\ U = with(T, q, index) /\ c.phase = "statements" /\ c.op = "create"
        /\ d = Head(c.definitions) /\ IsTodo(c.todo) /\ c.todo # <<>> /\ ~c.ran
        /\ q = Head(c.todo)[1]
        /\ e.phase = "statements" /\ e.op = "create" /\ e.definitions = c.definitions
        /\ e.todo = c.todo /\ e.ran
    BY <1>1, <1>3 DEF stands
  <2>4. ASSUME knows(c, T, done) PROVE knows(e, U, done \cup {q})
    <3> HIDE DEF T, U, done, c, e, q, d, index
    <3>1. WellMade(T) /\ d \in Asked /\ q \notin DOMAIN T /\ isPartOf(d, q, index) /\ U = with(T, q, index)
      BY <2>3
    <3>2. gained(T, U, d, q, index)
      BY <3>1, DefinedTable
    <3> QED
      BY <2>3, <2>4, <3>2, AloneDefines
  <2>5. learns(f)
    BY <2>1, <2>4 DEF learns
  <2> QED
    BY <2>2, <2>5
<1>4. ASSUME NEW status, ends(f, status) PROVE continues(f) /\ learns(f)
  <2>1. /\ e = NoCall /\ UNCHANGED <<server, overlapped, defined>>
        /\ entangled' = (entangled \/ defined[f] # {})
    BY <1>4 DEF ends
  <2>2. ~writes(e)
    BY <2>1, WritesFacts
  <2> QED
    BY <1>1, <2>1, <2>2 DEF continues, learns
<1>5. ASSUME /\ c.op \in {"drop", "dropAll"} /\ server' = without(server, q)
             /\ stands(f, e) /\ UNCHANGED <<overlapped, entangled, defined>>
      PROVE  continues(f) /\ learns(f)
  <2>1. continues(f)
    BY <1>1, <1>2, <1>5 DEF continues
  <2> DEFINE T == server
             U == server'
             done == defined[f]
  <2>2. /\ WellMade(T) /\ U = without(T, q) /\ c.phase = "statements"
        /\ c.op \in {"drop", "dropAll"} /\ IsTodo(c.todo) /\ c.todo # <<>> /\ ~c.ran
        /\ q = Head(c.todo)[1]
        /\ e.phase = "statements" /\ e.op = c.op /\ e.name = c.name
        /\ e.todo = c.todo /\ e.ran
    BY <1>1, <1>5 DEF stands
  <2>3. ASSUME knows(c, T, done) PROVE knows(e, U, done)
    <3> HIDE DEF T, U, done, c, e, q
    <3>1. WellMade(T) /\ U = without(T, q)
      BY <2>2
    <3>2. shed(T, U, q)
      BY <3>1, RemovedTable
    <3> QED
      BY <2>2, <2>3, <3>2, AloneRemoves
  <2>4. learns(f)
    BY <1>5, <2>3 DEF learns
  <2> QED
    BY <2>1, <2>4
<1>6. ASSUME e = NoCall, UNCHANGED <<server, past>> PROVE continues(f) /\ learns(f)
  <2>1. ~writes(e)
    BY <1>6, WritesFacts
  <2> QED
    BY <1>1, <1>6, <2>1 DEF continues, learns, past
<1>7. continues(f) /\ learns(f)
  BY <1>1, <1>3, <1>4, <1>5, <1>6
<1> QED
  BY <1>7, AloneFrame

LEMMA AloneStatementArrives ==
    ASSUME TypeInv, Alone, Untangled, NEW f \in Flows, statementArrives(f)
    PROVE  Alone' /\ Untangled'
<1> DEFINE c == call[f]
           e == call'[f]
<1>1. /\ moves(f) /\ UNCHANGED <<server, past>>
      /\ c.phase = "statements" /\ c.ran /\ IsTodo(c.todo)
      /\ e.op = c.op /\ e.name = c.name /\ e.definitions = c.definitions
      /\ e.phase = "statements" /\ ~e.ran /\ e.todo = Tail(c.todo)
  BY StatementArrives
<1>2. continues(f)
  BY <1>1 DEF continues, writes, past
<1>3. remaining(e) = remaining(c)
  BY <1>1 DEF remaining
<1>4. learns(f)
  BY <1>1, <1>3 DEF learns, knows, past
<1> QED
  BY <1>2, <1>4, AloneFrame

LEMMA AloneCompletes ==
    ASSUME TypeInv, Alone, Untangled, NEW f \in Flows, completes(f)
    PROVE  Alone' /\ Untangled'
<1> DEFINE e == call'[f]
<1>1. moves(f) /\ completed(f) /\ UNCHANGED <<server, loaded, owner, made, lost, past>>
  BY Completes
<1>2. \/ e = NoCall
      \/ IsReading(e, {}) /\ ~e.ran /\ call[f].op = "create"
  BY <1>1 DEF completed
<1>3. writes(e) => writes(call[f])
  BY <1>2, WritesFacts
<1>4. continues(f)
  BY <1>1, <1>3 DEF continues, past
<1>5. writes(e) => knows(e, server', defined'[f])
  BY <1>2, WritesFacts
<1> QED
  BY <1>4, <1>5, AloneFrame DEF learns

LEMMA AloneLeaves ==
    ASSUME TypeInv, Alone, Untangled, NEW f \in Flows, leaves(f), entangled => entangled',
           UNCHANGED <<server, overlapped, defined>>
    PROVE  Alone' /\ Untangled'
<1>1. moves(f) /\ ~writes(call'[f])
  BY WritesFacts DEF leaves
<1>2. continues(f) /\ learns(f)
  BY <1>1 DEF continues, learns
<1> QED
  BY <1>2, AloneFrame

LEMMA AloneStep == TypeInv /\ Alone /\ Untangled /\ [Next]_vars => Alone' /\ Untangled'
<1> SUFFICES ASSUME TypeInv, Alone, Untangled, [Next]_vars PROVE Alone' /\ Untangled'
  OBVIOUS
<1>1. ASSUME NEW f \in Flows, NEW c \in Calls, begin(f, c) PROVE Alone' /\ Untangled'
  BY <1>1, AloneBegin
<1>2. ASSUME NEW f \in Flows, infoRuns(f) PROVE Alone' /\ Untangled'
  BY <1>2, AloneInfoRuns
<1>3. ASSUME NEW f \in Flows, inventoryArrives(f) PROVE Alone' /\ Untangled'
  BY <1>3, AloneArrives
<1>4. ASSUME NEW f \in Flows, statementRuns(f) PROVE Alone' /\ Untangled'
  BY <1>4, AloneStatementRuns
<1>5. ASSUME NEW f \in Flows, statementArrives(f) PROVE Alone' /\ Untangled'
  BY <1>5, AloneStatementArrives
<1>6. ASSUME NEW f \in Flows, completes(f) PROVE Alone' /\ Untangled'
  BY <1>6, AloneCompletes
<1>7. ASSUME NEW f \in Flows, searchRuns(f) PROVE Alone' /\ Untangled'
  BY <1>7, SearchRuns, AloneLeaves DEF past
<1>8. ASSUME NEW f \in Flows, answerLost(f) PROVE Alone' /\ Untangled'
  BY <1>8, AnswerLost, AloneLeaves
<1>9. ASSUME UNCHANGED vars PROVE Alone' /\ Untangled'
  BY <1>9 DEF Alone, Untangled, vars, past
<1> QED
  BY <1>1, <1>2, <1>3, <1>4, <1>5, <1>6, <1>7, <1>8, <1>9 DEF Next, step, Done

-----------------------------------------------------------------------------
(* What the server has, and what a Collection knows of it *)

\* What is whole stays so, unless f is at it, and f leaves whole what it was at.
makesWhole(f) ==
    ~entangled' =>
        \A n : /\ ~touches(call'[f], defined'[f], n)
               /\ ~touches(call[f], defined[f], n) => Whole(server, n)
               => Whole(server', n)

\* And likewise for what the registry of its Collection has.
followsIndexes(f) ==
    LET c == owner[f] IN
    /\ ID_INDEX_NAME \in DOMAIN registry'[c] =>
          textFieldsOfKey(registry'[c][ID_INDEX_NAME]) = {}
    /\ loaded'[c] /\ fresh'[c] /\ ~entangled' =>
          \A n : /\ n # ID_INDEX_NAME /\ ~touches(call'[f], defined'[f], n)
                 /\ loaded[c] /\ fresh[c] /\ ~touches(call[f], defined[f], n)
                       => agrees(registry[c], server, n)
                 => agrees(registry'[c], server', n)
aloneMoves(f) ==
    /\ moves(f) /\ \A g \in Flows \ {f} : defined'[g] = defined[g]
    /\ owner' = owner /\ (entangled => entangled')
    /\ \A c \in Collections \ {owner[f]} :
          /\ registry'[c] = registry[c] /\ loaded'[c] = loaded[c]
          /\ fresh'[c] => fresh[c] /\ server' = server

LEMMA IndexesFrame ==
    ASSUME WholeInv, RegistryInv, NEW f \in Flows, aloneMoves(f), makesWhole(f), followsIndexes(f)
    PROVE  WholeInv' /\ RegistryInv'
<1>1. \A g \in Flows \ {f} : \A n : touches(call'[g], defined'[g], n) <=> touches(call[g], defined[g], n)
  BY DEF aloneMoves, moves
<1>2. ASSUME ~entangled', NEW n, \A g \in Flows : ~touches(call'[g], defined'[g], n)
      PROVE  Whole(server', n)
  <2>1. ~touches(call[f], defined[f], n) => Whole(server, n)
    <3> SUFFICES ASSUME ~touches(call[f], defined[f], n) PROVE Whole(server, n)
      OBVIOUS
    <3>1. \A g \in Flows : ~touches(call[g], defined[g], n)
      BY <1>1, <1>2
    <3>2. ~entangled
      BY <1>2 DEF aloneMoves
    <3> QED
      BY <3>1, <3>2 DEF WholeInv
  <2> QED
    BY <1>2, <2>1 DEF makesWhole
<1>3. WholeInv'
  BY <1>2 DEF WholeInv
<1>4. ASSUME NEW c \in Collections
      PROVE  ID_INDEX_NAME \in DOMAIN registry'[c] =>
                textFieldsOfKey(registry'[c][ID_INDEX_NAME]) = {}
  <2>1. CASE c = owner[f]
    BY <2>1 DEF followsIndexes
  <2>2. CASE c # owner[f]
    BY <2>2 DEF RegistryInv, aloneMoves
  <2> QED
    BY <2>1, <2>2
<1>5. ASSUME NEW c \in Collections, loaded'[c], fresh'[c], ~entangled',
             NEW n, n # ID_INDEX_NAME,
             \A g \in Flows : owner'[g] = c => ~touches(call'[g], defined'[g], n)
      PROVE  agrees(registry'[c], server', n)
  <2>1. ~entangled /\ owner' = owner
    BY <1>5 DEF aloneMoves
  <2>2. \A g \in Flows \ {f} : owner[g] = c => ~touches(call[g], defined[g], n)
    BY <1>1, <1>5, <2>1
  <2>3. CASE c = owner[f]
    <3>1. ASSUME loaded[c], fresh[c], ~touches(call[f], defined[f], n)
          PROVE  agrees(registry[c], server, n)
      <4>1. \A g \in Flows : owner[g] = c => ~touches(call[g], defined[g], n)
        BY <2>2, <3>1
      <4> QED
        BY <1>5, <2>1, <3>1, <4>1 DEF RegistryInv
    <3>2. ~touches(call'[f], defined'[f], n)
      BY <1>5, <2>1, <2>3
    <3> QED
      BY <1>5, <2>3, <3>1, <3>2 DEF followsIndexes
  <2>4. CASE c # owner[f]
    <3>1. /\ registry'[c] = registry[c] /\ loaded[c] /\ fresh[c] /\ server' = server
      BY <1>5, <2>4 DEF aloneMoves
    <3>2. \A g \in Flows : owner[g] = c => ~touches(call[g], defined[g], n)
      BY <2>2, <2>4
    <3>3. agrees(registry[c], server, n)
      BY <1>5, <2>1, <3>1, <3>2 DEF RegistryInv
    <3> QED
      BY <3>1, <3>3
  <2> QED
    BY <2>3, <2>4
<1>6. RegistryInv'
  BY <1>4, <1>5 DEF RegistryInv
<1> QED
  BY <1>3, <1>6

\* A step that leaves the indexes as they were, and what f is at.
LEMMA IndexesKept ==
    ASSUME TypeInv, WholeInv, RegistryInv, NEW f \in Flows, moves(f),
           \A g \in Flows \ {f} : defined'[g] = defined[g],
           UNCHANGED <<server, registry, loaded, owner, fresh>>,
           entangled => entangled',
           ~entangled' => \A n : touches(call[f], defined[f], n) => touches(call'[f], defined'[f], n)
    PROVE  WholeInv' /\ RegistryInv'
<1>1. owner[f] \in Collections
  BY OwnerFacts DEF TypeInv
<1>2. aloneMoves(f)
  BY DEF aloneMoves
<1>3. makesWhole(f)
  BY DEF makesWhole
<1>4. followsIndexes(f)
  BY <1>1 DEF followsIndexes, RegistryInv
<1> QED
  BY <1>2, <1>3, <1>4, IndexesFrame

LEMMA IndexesBegin ==
    ASSUME TypeInv, WholeInv, RegistryInv, NEW f \in Flows, NEW c \in Calls, begin(f, c)
    PROVE  WholeInv' /\ RegistryInv'
<1>1. moves(f)
  BY TypeBegin
<1>2. /\ call[f] = NoCall /\ UNCHANGED <<server, registry, loaded, owner, fresh>>
      /\ defined' = [defined EXCEPT ![f] = {}]
  BY DEF begin
<1>3. entangled => entangled'
  BY DEF begin
<1>4. \A n : ~touches(call[f], defined[f], n)
  BY <1>2, NoCallFacts DEF touches
<1>5. \A g \in Flows \ {f} : defined'[g] = defined[g]
  BY <1>2 DEF TypeInv
<1> QED
  BY <1>1, <1>2, <1>3, <1>4, <1>5, IndexesKept

LEMMA IndexesInfoRuns ==
    ASSUME TypeInv, WholeInv, RegistryInv, NEW f \in Flows, infoRuns(f)
    PROVE  WholeInv' /\ RegistryInv'
<1>1. moves(f)
  BY TypeInfoRuns
<1>2. call[f].phase = "inventory" /\ UNCHANGED <<server, registry, loaded, owner, past>>
  BY DEF infoRuns
<1>3. \A n : ~touches(call[f], defined[f], n)
  BY <1>2 DEF touches
<1> QED
  BY <1>1, <1>2, <1>3, IndexesKept DEF past

LEMMA IndexesArrives ==
    ASSUME TypeInv, WholeInv, RegistryInv, NEW f \in Flows, inventoryArrives(f)
    PROVE  WholeInv' /\ RegistryInv'
<1> DEFINE c == call[f]
           o == owner[f]
           T == c.table
           found == describeIndexes(T)
<1>1. moves(f) /\ IsReading(c, DOMAIN server \cup gone[f])
  BY Arrives
<1>2. /\ defined' = [defined EXCEPT ![f] = {}]
      /\ UNCHANGED <<server, owner, made, lost, overlapped, entangled, gone>>
  BY DEF inventoryArrives
<1>3. /\ registry' = [registry EXCEPT ![o] = [n \in DOMAIN found |-> found[n].key]]
      /\ loaded' = [loaded EXCEPT ![o] = TRUE]
      /\ fresh' = [fresh EXCEPT ![o] = (T = server)]
  BY DEF inventoryArrives, readIndexInventory
<1>4. o \in Collections /\ DOMAIN registry = Collections
  BY OwnerFacts DEF TypeInv
<1> HIDE DEF found
<1>5. registry'[o] = [n \in DOMAIN found |-> found[n].key]
  BY <1>3, <1>4
<1>6. fresh'[o] <=> T = server
  BY <1>3, <1>4 DEF TypeInv
<1>7. \A k \in Collections \ {o} : /\ registry'[k] = registry[k] /\ loaded'[k] = loaded[k]
                                   /\ fresh'[k] = fresh[k]
  BY <1>3, <1>4 DEF TypeInv
<1>8. aloneMoves(f)
  BY <1>1, <1>2, <1>7 DEF aloneMoves, TypeInv
<1>9. \A n : ~touches(c, defined[f], n)
  BY <1>1 DEF touches, IsReading
<1>10. makesWhole(f)
  BY <1>2, <1>9 DEF makesWhole
<1>11. ID_INDEX_NAME \in DOMAIN found /\ textFieldsOfKey(found[ID_INDEX_NAME].key) = {}
  BY IdIndexFacts DEF found
<1>12. \A n : T = server => agrees(registry'[o], server, n)
  BY <1>5 DEF agrees, found
<1>13. followsIndexes(f)
  BY <1>2, <1>5, <1>6, <1>11, <1>12 DEF followsIndexes
<1> QED
  BY <1>8, <1>10, <1>13, IndexesFrame

LEMMA IndexesStatementArrives ==
    ASSUME TypeInv, WholeInv, RegistryInv, NEW f \in Flows, statementArrives(f)
    PROVE  WholeInv' /\ RegistryInv'
<1>1. /\ moves(f) /\ UNCHANGED <<server, registry, loaded, owner, past>>
      /\ call'[f].op = call[f].op /\ call'[f].name = call[f].name
      /\ call'[f].definitions = call[f].definitions /\ call'[f].phase = "statements"
  BY StatementArrives
<1>2. \A n : touches(call[f], defined[f], n) => touches(call'[f], defined'[f], n)
  BY <1>1 DEF touches, past
<1> QED
  BY <1>1, <1>2, IndexesKept DEF past

LEMMA IndexesLeaves ==
    ASSUME TypeInv, WholeInv, RegistryInv, NEW f \in Flows, leaves(f), entangled => entangled',
           call[f].phase = "statements" /\ call[f].op # "search" => entangled',
           UNCHANGED <<server, registry, loaded, owner, defined, fresh>>
    PROVE  WholeInv' /\ RegistryInv'
<1>1. moves(f)
  BY DEF leaves
<1>2. ~entangled' => \A n : ~touches(call[f], defined[f], n)
  BY DEF touches
<1> QED
  BY <1>1, <1>2, IndexesKept

LEMMA Unshared ==
    ASSUME Alone, Untangled, ~entangled, NEW f \in Flows, writes(call[f])
    PROVE  knows(call[f], server, defined[f]) /\ \A g \in Flows \ {f} : ~writes(call[g])
BY DEF Alone, Untangled

\* An index whose parts stay stays whole, and what is known of it right.
samePartsIn(T, U, n) == partsOf(T, n) = partsOf(U, n) /\ \A p \in partsOf(T, n) : T[p] = U[p]
LEMMA PartsKept ==
    ASSUME NEW T, NEW U, NEW n, samePartsIn(T, U, n)
    PROVE  /\ Whole(T, n) => Whole(U, n)
           /\ \A held : n # ID_INDEX_NAME /\ agrees(held, T, n) => agrees(held, U, n)
<1>1. Whole(T, n) => Whole(U, n)
  BY DEF samePartsIn, Whole, isAllOf
<1>2. ASSUME n # ID_INDEX_NAME
      PROVE  /\ n \in DOMAIN describeIndexes(T) <=> n \in DOMAIN describeIndexes(U)
             /\ n \in DOMAIN describeIndexes(T) => describeIndexes(T)[n] = describeIndexes(U)[n]
  BY <1>2, SameParts DEF samePartsIn
<1>3. ASSUME NEW held, n # ID_INDEX_NAME, agrees(held, T, n) PROVE agrees(held, U, n)
  BY <1>2, <1>3 DEF agrees
<1> QED
  BY <1>1, <1>3

LEMMA GainedKeeps ==
    ASSUME NEW T, NEW U, NEW d, NEW q, NEW index, gained(T, U, d, q, index), NEW n, n # d.name
    PROVE  samePartsIn(T, U, n)
<1>1. partsOf(U, n) = partsOf(T, n) /\ \A p \in DOMAIN T : U[p] = T[p]
  BY DEF gained
<1>2. partsOf(T, n) \subseteq DOMAIN T
  BY DEF partsOf
<1> QED
  BY <1>1, <1>2 DEF samePartsIn

LEMMA ShedKeeps ==
    ASSUME NEW T, NEW U, NEW q, shed(T, U, q), NEW n, q \notin partsOf(T, n)
    PROVE  samePartsIn(T, U, n)
<1>1. partsOf(U, n) = partsOf(T, n) /\ \A p \in DOMAIN U : U[p] = T[p]
  BY DEF shed
<1>2. partsOf(U, n) \subseteq DOMAIN U
  BY DEF partsOf
<1> QED
  BY <1>1, <1>2 DEF samePartsIn

LEMMA OnePartOf ==
    ASSUME NEW T, NEW p, NEW m, p \in partsOf(T, m), NEW n, n # m
    PROVE  p \notin partsOf(T, n)
BY DEF partsOf

\* A step that changes what f is at, and nothing else at the server.
LEMMA IndexesChanged ==
    ASSUME TypeInv, WholeInv, RegistryInv, NEW f \in Flows, moves(f),
           \A g \in Flows \ {f} : defined'[g] = defined[g],
           UNCHANGED <<registry, loaded, owner>>, staleElsewhere(f), entangled => entangled',
           ~entangled' => \A n : ~touches(call'[f], defined'[f], n)
                                 => /\ samePartsIn(server, server', n)
                                    /\ ~touches(call[f], defined[f], n)
    PROVE  WholeInv' /\ RegistryInv'
<1> DEFINE c == owner[f]
<1>1. c \in Collections
  BY OwnerFacts DEF TypeInv
<1>2. \A k \in Collections : fresh'[k] <=> fresh[k] /\ k = c
  BY DEF staleElsewhere
<1>3. aloneMoves(f)
  BY <1>2 DEF aloneMoves
<1>4. makesWhole(f)
  BY PartsKept DEF makesWhole
<1>5. followsIndexes(f)
  <2>1. ID_INDEX_NAME \in DOMAIN registry'[c] => textFieldsOfKey(registry'[c][ID_INDEX_NAME]) = {}
    BY <1>1 DEF RegistryInv
  <2>2. ASSUME loaded'[c], fresh'[c], ~entangled', NEW n, n # ID_INDEX_NAME,
               ~touches(call'[f], defined'[f], n),
               loaded[c] /\ fresh[c] /\ ~touches(call[f], defined[f], n)
                   => agrees(registry[c], server, n)
        PROVE  agrees(registry'[c], server', n)
    <3>1. agrees(registry[c], server, n)
      BY <1>1, <1>2, <2>2
    <3>2. samePartsIn(server, server', n)
      BY <2>2
    <3> DEFINE T == server
               U == server'
               held == registry[c]
    <3>3. agrees(held, T, n) /\ samePartsIn(T, U, n) /\ n # ID_INDEX_NAME
      BY <2>2, <3>1, <3>2
    <3> HIDE DEF T, U, held
    <3>4. agrees(held, U, n)
      BY <3>3, PartsKept
    <3> QED
      BY <3>4 DEF U, held
  <2> QED
    BY <2>1, <2>2 DEF followsIndexes
<1> QED
  BY <1>3, <1>4, <1>5, IndexesFrame

LEMMA IndexesStatementRuns ==
    ASSUME TypeInv, Alone, Untangled, WholeInv, RegistryInv, NEW f \in Flows, statementRuns(f)
    PROVE  WholeInv' /\ RegistryInv'
<1> DEFINE c == call[f]
           e == call'[f]
           q == Head(c.todo)[1]
           d == Head(c.definitions)
           index == Head(c.todo)[2]
<1>1. /\ moves(f) /\ statementRan(f) /\ c.phase = "statements" /\ ~c.ran /\ c.todo # <<>>
      /\ IsTodo(c.todo) /\ WellMade(server)
      /\ IsCreating(c, defined[f]) \/ IsRemoving(c)
  BY StatementRuns DEF TypeInv
<1>2. UNCHANGED <<registry, loaded, owner>>
  BY DEF statementRuns
<1>3. writes(c)
  BY <1>1 DEF writes, IsCreating, IsRemoving
<1>4. q \in remaining(c)
  <2> DEFINE todo == c.todo
  <2>1. IsTodo(todo) /\ todo # <<>> /\ ~c.ran /\ c.todo = todo
    BY <1>1
  <2> HIDE DEF todo, c
  <2>2. Head(todo)[1] \in remaining(c)
    BY <2>1, RemainingFacts
  <2> QED
    BY <2>2 DEF todo, c
<1>5. ASSUME ~entangled, c.op \in {"drop", "dropAll"}
      PROVE  q \in DOMAIN server /\ (c.op = "drop" => q \in partsOf(server, c.name))
  <2>1. knows(c, server, defined[f])
    BY <1>3, <1>5, Unshared
  <2>2. CASE c.op = "drop"
    <3>1. partsOf(server, c.name) = remaining(c)
      BY <1>1, <2>1, <2>2 DEF knows
    <3> QED
      BY <1>4, <3>1 DEF partsOf
  <2>3. CASE c.op = "dropAll"
    BY <1>1, <1>4, <2>1, <2>3 DEF knows
  <2> QED
    BY <1>5, <2>2, <2>3
<1> USE DEF statementRan
<1>6. ASSUME /\ c.op = "create" /\ q \notin DOMAIN server /\ d \in Asked
             /\ isPartOf(d, q, index)
             /\ server' = with(server, q, index)
             /\ IsCreating(e, defined'[f]) /\ stands(f, e)
             /\ defined' = [defined EXCEPT ![f] = @ \cup {q}]
             /\ staleElsewhere(f) /\ UNCHANGED <<result, overlapped, entangled, gone>>
      PROVE  WholeInv' /\ RegistryInv'
  <2>1. q \in defined'[f] /\ \A g \in Flows \ {f} : defined'[g] = defined[g]
    BY <1>6 DEF TypeInv
  <2>2. touches(e, defined'[f], d.name)
    BY <1>6, <2>1 DEF touches, stands
  <2> DEFINE T == server
             U == server'
  <2>3. gained(T, U, d, q, index)
    <3>1. WellMade(T) /\ d \in Asked /\ q \notin DOMAIN T /\ isPartOf(d, q, index) /\ U = with(T, q, index)
      BY <1>1, <1>6
    <3> HIDE DEF T, U, q, d, index
    <3> QED
      BY <3>1, DefinedTable
  <2>4. ASSUME NEW n, n # d.name PROVE samePartsIn(T, U, n)
    <3> HIDE DEF T, U, q, d, index
    <3> QED
      BY <2>3, <2>4, GainedKeeps
  <2>5. \A n : n # d.name => ~touches(c, defined[f], n)
    BY <1>6 DEF touches
  <2>6. \A n : ~touches(e, defined'[f], n)
               => samePartsIn(server, server', n) /\ ~touches(c, defined[f], n)
    BY <2>2, <2>4, <2>5
  <2> QED
    BY <1>1, <1>2, <1>6, <2>1, <2>6, IndexesChanged
<1>7. ASSUME NEW status, c.op = "create", ends(f, status) PROVE WholeInv' /\ RegistryInv'
  <2>1. /\ entangled' = (entangled \/ defined[f] # {})
        /\ UNCHANGED <<server, overlapped, defined, gone, fresh>>
    BY <1>7 DEF ends
  <2>2. ~entangled' => \A n : ~touches(c, defined[f], n)
    BY <1>7, <2>1 DEF touches
  <2> QED
    BY <1>1, <1>2, <2>1, <2>2, IndexesKept
<1>8. ASSUME /\ c.op \in {"drop", "dropAll"} /\ q \in DOMAIN server
             /\ server' = without(server, q)
             /\ IsRemoving(e) /\ stands(f, e)
             /\ staleElsewhere(f) /\ UNCHANGED <<result, overlapped, entangled, defined>>
      PROVE  WholeInv' /\ RegistryInv'
  <2> DEFINE T == server
             U == server'
  <2>1. shed(T, U, q)
    <3>1. WellMade(T) /\ U = without(T, q)
      BY <1>1, <1>8
    <3> HIDE DEF T, U, q
    <3> QED
      BY <3>1, RemovedTable
  <2>2. \A n : touches(e, defined'[f], n) <=> touches(c, defined[f], n)
    BY <1>1, <1>8 DEF touches, stands
  <2>3. ASSUME ~entangled', NEW n, ~touches(e, defined'[f], n) PROVE samePartsIn(T, U, n)
    <3>1. c.op = "drop" /\ n # c.name
      BY <1>1, <1>8, <2>2, <2>3 DEF touches
    <3>2. q \in partsOf(T, c.name)
      BY <1>5, <1>8, <2>3, <3>1
    <3>3. q \notin partsOf(T, n)
      BY <3>1, <3>2, OnePartOf
    <3> HIDE DEF T, U, q
    <3> QED
      BY <2>1, <3>3, ShedKeeps
  <2>4. ~entangled' => \A n : ~touches(e, defined'[f], n)
               => samePartsIn(server, server', n) /\ ~touches(c, defined[f], n)
    BY <2>2, <2>3
  <2> QED
    BY <1>1, <1>2, <1>8, <2>4, IndexesChanged
<1>9. ASSUME /\ c.op \in {"drop", "dropAll"} /\ q \notin DOMAIN server
             /\ UNCHANGED <<server, past>>
      PROVE  WholeInv' /\ RegistryInv'
  <2>1. entangled' /\ entangled
    BY <1>5, <1>9 DEF past
  <2> QED
    BY <1>1, <1>2, <1>9, <2>1, IndexesKept DEF past
<1> QED
  BY <1>1, <1>6, <1>7, <1>8, <1>9

\* What a registry knows after add() and after remove().
LEMMA WithAgrees ==
    ASSUME NEW T, WellMade(T), NEW d \in Asked, isAllOf(T, d),
           NEW held, NEW after, after = with(held, d.name, keyToObject(d.key))
    PROVE  agrees(after, T, d.name)
<1>1. /\ d.name \in DOMAIN describeIndexes(T)
      /\ textFieldsOfKey(describeIndexes(T)[d.name].key) = textFieldsOfKey(keyToObject(d.key))
  BY AllOfFacts
<1>2. d.name \in DOMAIN after /\ after[d.name] = keyToObject(d.key)
  BY DEF with
<1> QED
  BY <1>1, <1>2 DEF agrees

LEMMA OthersAgree ==
    ASSUME NEW T, NEW held, NEW m, NEW key, NEW n, n # m, agrees(held, T, n)
    PROVE  agrees(with(held, m, key), T, n) /\ agrees(without(held, m), T, n)
BY DEF agrees, with, without

LEMMA IndexesCompletes ==
    ASSUME TypeInv, Alone, Untangled, WholeInv, RegistryInv, NEW f \in Flows, completes(f)
    PROVE  WholeInv' /\ RegistryInv'
<1> DEFINE c == call[f]
           d == Head(c.definitions)
           o == owner[f]
           T == server
           held == registry[o]
           after == registry'[o]
<1>1. /\ moves(f) /\ completed(f) /\ UNCHANGED <<server, loaded, owner, made, lost, past>>
      /\ c.phase = "statements" /\ WellMade(T)
  BY Completes DEF TypeInv
<1>2. o \in Collections /\ DOMAIN registry = Collections
  BY OwnerFacts DEF TypeInv
<1>3. registry' = [registry EXCEPT ![o] = tracked(c, @)]
  BY DEF completes
<1>4. after = tracked(c, held) /\ \A k \in Collections \ {o} : registry'[k] = registry[k]
  BY <1>2, <1>3
<1>5. aloneMoves(f)
  BY <1>1, <1>4 DEF aloneMoves, past
<1>7. ID_INDEX_NAME \in DOMAIN held => textFieldsOfKey(held[ID_INDEX_NAME]) = {}
  BY <1>2 DEF RegistryInv
<1>8. ASSUME ~entangled, writes(c) PROVE knows(c, T, defined[f])
  BY <1>8, Unshared
<1>9. CASE /\ c.op = "create" /\ d \in Asked /\ IsCreating(c, defined[f])
           /\ defined[f] = physicalIndexNames(d)
  <2>1. after = with(held, d.name, keyToObject(d.key))
    BY <1>4, <1>9 DEF tracked
  <2>2. \A n : n # d.name => ~touches(c, defined[f], n)
    BY <1>9 DEF touches
  <2>3. ASSUME ~entangled PROVE isAllOf(T, d)
    <3>1. knows(c, T, defined[f])
      BY <1>8, <1>9, <2>3, WritesFacts
    <3> QED
      BY <1>1, <1>9, <3>1 DEF knows, isAllOf
  <2>4. makesWhole(f)
    <3>1. ASSUME ~entangled PROVE Whole(T, d.name)
      BY <1>9, <2>3, <3>1 DEF Whole
    <3> QED
      BY <1>1, <2>2, <3>1 DEF makesWhole, past
  <2>5. ID_INDEX_NAME \in DOMAIN after => textFieldsOfKey(after[ID_INDEX_NAME]) = {}
    <3>1. d.name # ID_INDEX_NAME
      BY <1>9, AskedFacts
    <3> QED
      BY <1>7, <2>1, <3>1 DEF with
  <2>6. ASSUME ~entangled PROVE agrees(after, T, d.name)
    <3>1. isAllOf(T, d) /\ WellMade(T) /\ d \in Asked
      BY <1>1, <1>9, <2>3, <2>6
    <3> HIDE DEF T, d, held, after
    <3> QED
      BY <2>1, <3>1, WithAgrees
  <2>7. \A n : n # d.name /\ agrees(held, T, n) => agrees(after, T, n)
    <3> HIDE DEF T, d, held, after
    <3> QED
      BY <2>1, OthersAgree
  <2>8. followsIndexes(f)
    BY <1>1, <2>2, <2>5, <2>6, <2>7 DEF followsIndexes, past
  <2> QED
    BY <1>5, <2>4, <2>8, IndexesFrame
<1>10. CASE c.op = "drop" /\ remaining(c) = {}
  <2>1. after = without(held, c.name)
    BY <1>4, <1>10 DEF tracked
  <2>2. \A n : n # c.name => ~touches(c, defined[f], n)
    BY <1>10 DEF touches
  <2>3. ASSUME ~entangled PROVE partsOf(T, c.name) = {}
    <3>1. knows(c, T, defined[f])
      BY <1>8, <1>10, <2>3, WritesFacts
    <3> QED
      BY <1>1, <1>10, <3>1 DEF knows
  <2>4. makesWhole(f)
    <3>1. ASSUME ~entangled PROVE Whole(T, c.name)
      BY <2>3, <3>1 DEF Whole
    <3> QED
      BY <1>1, <2>2, <3>1 DEF makesWhole, past
  <2>5. ID_INDEX_NAME \in DOMAIN after => textFieldsOfKey(after[ID_INDEX_NAME]) = {}
    BY <1>7, <2>1 DEF without
  <2>6. ASSUME ~entangled, c.name # ID_INDEX_NAME PROVE agrees(after, T, c.name)
    <3> DEFINE m == c.name
    <3>1. WellMade(T) /\ m # ID_INDEX_NAME /\ partsOf(T, m) = {}
      BY <1>1, <2>3, <2>6
    <3> HIDE DEF T, m
    <3>2. m \notin DOMAIN describeIndexes(T)
      BY <3>1, InventoryFacts
    <3>3. m \notin DOMAIN after
      BY <2>1 DEF without, m
    <3> QED
      BY <3>2, <3>3 DEF agrees, m
  <2>7. \A n : n # c.name /\ agrees(held, T, n) => agrees(after, T, n)
    <3> HIDE DEF T, c, held, after
    <3> QED
      BY <2>1, OthersAgree
  <2>8. followsIndexes(f)
    BY <1>1, <2>2, <2>5, <2>6, <2>7 DEF followsIndexes, past
  <2> QED
    BY <1>5, <2>4, <2>8, IndexesFrame
<1>11. CASE c.op = "dropAll" /\ remaining(c) = {}
  <2>1. after = <<>>
    BY <1>4, <1>11 DEF tracked
  <2>2. ASSUME ~entangled, NEW n PROVE partsOf(T, n) = {}
    <3>1. knows(c, T, defined[f])
      BY <1>8, <1>11, <2>2, WritesFacts
    <3>2. DOMAIN T = {}
      BY <1>1, <1>11, <3>1 DEF knows
    <3> QED
      BY <3>2 DEF partsOf
  <2>3. makesWhole(f)
    <3>1. ASSUME ~entangled, NEW n PROVE Whole(T, n)
      BY <2>2, <3>1 DEF Whole
    <3> QED
      BY <1>1, <3>1 DEF makesWhole, past
  <2>4. \A n : n \notin DOMAIN after
    <3>1. DOMAIN <<>> = {}
      OBVIOUS
    <3> QED
      BY <2>1, <3>1
  <2>5. ASSUME ~entangled, NEW n, n # ID_INDEX_NAME PROVE agrees(after, T, n)
    <3>1. WellMade(T) /\ partsOf(T, n) = {}
      BY <1>1, <2>2, <2>5
    <3> HIDE DEF T
    <3>2. n \notin DOMAIN describeIndexes(T)
      BY <2>5, <3>1, InventoryFacts
    <3> QED
      BY <2>4, <3>2 DEF agrees
  <2>6. followsIndexes(f)
    BY <1>1, <2>4, <2>5 DEF followsIndexes, past
  <2> QED
    BY <1>5, <2>3, <2>6, IndexesFrame
<1> QED
  BY <1>1, <1>9, <1>10, <1>11 DEF completed

LEMMA IndexesStep ==
    TypeInv /\ Alone /\ Untangled /\ WholeInv /\ RegistryInv /\ [Next]_vars => WholeInv' /\ RegistryInv'
<1> SUFFICES ASSUME TypeInv, Alone, Untangled, WholeInv, RegistryInv, [Next]_vars
             PROVE  WholeInv' /\ RegistryInv'
  OBVIOUS
<1>1. ASSUME NEW f \in Flows, NEW c \in Calls, begin(f, c) PROVE WholeInv' /\ RegistryInv'
  BY <1>1, IndexesBegin
<1>2. ASSUME NEW f \in Flows, infoRuns(f) PROVE WholeInv' /\ RegistryInv'
  BY <1>2, IndexesInfoRuns
<1>3. ASSUME NEW f \in Flows, inventoryArrives(f) PROVE WholeInv' /\ RegistryInv'
  BY <1>3, IndexesArrives
<1>4. ASSUME NEW f \in Flows, statementRuns(f) PROVE WholeInv' /\ RegistryInv'
  BY <1>4, IndexesStatementRuns
<1>5. ASSUME NEW f \in Flows, statementArrives(f) PROVE WholeInv' /\ RegistryInv'
  BY <1>5, IndexesStatementArrives
<1>6. ASSUME NEW f \in Flows, completes(f) PROVE WholeInv' /\ RegistryInv'
  BY <1>6, IndexesCompletes
<1>7. ASSUME NEW f \in Flows, searchRuns(f) PROVE WholeInv' /\ RegistryInv'
  <2>1. leaves(f) /\ UNCHANGED <<server, registry, loaded, owner, made, lost, past>>
    BY <1>7, SearchRuns
  <2>2. call[f].phase = "search"
    BY <1>7 DEF searchRuns
  <2> QED
    BY <2>1, <2>2, IndexesLeaves DEF past
<1>8. ASSUME NEW f \in Flows, answerLost(f) PROVE WholeInv' /\ RegistryInv'
  BY <1>8, AnswerLost, IndexesLeaves
<1>9. ASSUME UNCHANGED vars PROVE WholeInv' /\ RegistryInv'
  BY <1>9 DEF WholeInv, RegistryInv, vars, past
<1> QED
  BY <1>1, <1>2, <1>3, <1>4, <1>5, <1>6, <1>7, <1>8, <1>9 DEF Next, step, Done

-----------------------------------------------------------------------------
(* How calls end *)

LEMMA ResultFrame ==
    ASSUME ResultInv, NEW f \in Flows, keeps(f), entangled => entangled',
           \A g \in Flows \ {f} : overlapped[g] => overlapped'[g],
           resultOK(result'[f], DOMAIN server' \cup gone'[f], overlapped'[f], defined'[f], entangled')
    PROVE  ResultInv'
<1>1. ASSUME NEW g \in Flows, g # f
      PROVE  resultOK(result'[g], DOMAIN server' \cup gone'[g], overlapped'[g], defined'[g], entangled')
  <2>1. /\ result'[g] = result[g] /\ defined'[g] = defined[g]
        /\ DOMAIN server \cup gone[g] \subseteq DOMAIN server' \cup gone'[g]
    BY <1>1 DEF keeps, moves
  <2>2. resultOK(result[g], DOMAIN server \cup gone[g], overlapped[g], defined[g], entangled)
    BY DEF ResultInv
  <2>3. overlapped[g] => overlapped'[g]
    BY <1>1
  <2> QED
    BY <2>1, <2>2, <2>3 DEF resultOK
<1> QED
  BY <1>1 DEF ResultInv

LEMMA NoResultOK == \A has, overlaps, done, tangled : resultOK(NoResult, has, overlaps, done, tangled)
BY DEF NoResult, resultOK

\* A step after which f is still at its call, or had none.
LEMMA ResultUnended ==
    ASSUME TypeInv, ResultInv, NEW f \in Flows, moves(f), result'[f] = NoResult,
           DOMAIN defined' = Flows, DOMAIN gone' = Flows,
           \A g \in Flows \ {f} :
               /\ defined'[g] = defined[g] /\ (overlapped[g] => overlapped'[g])
               /\ DOMAIN server \cup gone[g] \subseteq DOMAIN server' \cup gone'[g],
           entangled => entangled'
    PROVE  ResultInv'
BY NoResultOK, ResultFrame DEF keeps

LEMMA ResultBegin ==
    ASSUME TypeInv, ResultInv, NEW f \in Flows, NEW c \in Calls, begin(f, c)
    PROVE  ResultInv'
<1>1. moves(f) /\ result'[f] = NoResult
  BY TypeBegin
<1>2. /\ server' = server /\ defined' = [defined EXCEPT ![f] = {}]
      /\ gone' = [gone EXCEPT ![f] = {}]
  BY DEF begin
<1>3. entangled => entangled'
  BY DEF begin
<1>4. \A g \in Flows \ {f} : overlapped[g] => overlapped'[g]
  BY DEF begin
<1> QED
  BY <1>1, <1>2, <1>3, <1>4, ResultUnended DEF TypeInv

LEMMA ResultWaits ==
    ASSUME TypeInv, ResultInv, NEW f \in Flows, infoRuns(f) \/ statementArrives(f)
    PROVE  ResultInv'
<1>1. moves(f) /\ UNCHANGED <<server, result, past>>
  BY TypeInfoRuns, StatementArrives DEF infoRuns
<1>2. result[f] = NoResult
  BY NoCallFacts DEF TypeInv, infoRuns, statementArrives
<1> QED
  BY <1>1, <1>2, ResultUnended DEF TypeInv, past, moves

\* Whoever finds an index that is whole finds all of it.
LEMMA ResultArrives ==
    ASSUME TypeInv, Alone, Untangled, WholeInv, ResultInv, NEW f \in Flows, inventoryArrives(f)
    PROVE  ResultInv'
<1> DEFINE c == call[f]
           e == call'[f]
           d == Head(c.definitions)
           T == c.table
<1>1. moves(f) /\ arrived(f) /\ IsReading(c, DOMAIN server \cup gone[f]) /\ c.ran
  BY Arrives
<1>2. /\ defined' = [defined EXCEPT ![f] = {}]
      /\ UNCHANGED <<server, owner, made, lost, overlapped, entangled, gone>>
  BY DEF inventoryArrives
<1>3. keeps(f) /\ defined'[f] = {}
  BY <1>1, <1>2 DEF keeps, TypeInv
<1>4. WellMade(T) /\ DOMAIN T \subseteq DOMAIN server \cup gone[f] /\ c.phase = "inventory"
  BY <1>1 DEF IsReading
<1>5. CASE /\ c.op = "create" /\ d \in Asked /\ isDefined(T, d)
           /\ result'[f] = [op |-> "create", status |-> "ok", of |-> d]
  <2>1. ASSUME single(d) \/ ~entangled PROVE physicalIndexNames(d) \subseteq DOMAIN T
    <3>1. CASE single(d)
      <4> HIDE DEF T, d
      <4> QED
        BY <1>4, <1>5, <3>1, DefinedNames
    <3>2. CASE ~entangled
      <4>1. writes(c)
        BY <1>5, WritesFacts
      <4>2. knows(c, server, defined[f]) /\ \A g \in Flows \ {f} : ~writes(call[g])
        BY <3>2, <4>1, Unshared
      <4>3. T = server
        BY <1>1, <1>4, <4>2 DEF knows
      <4>4. \A g \in Flows \ {f} : ~touches(call[g], defined[g], d.name)
        BY <4>2 DEF touches, writes
      <4>5. ~touches(c, defined[f], d.name)
        BY <1>4 DEF touches
      <4>6. Whole(T, d.name)
        BY <3>2, <4>3, <4>4, <4>5 DEF WholeInv
      <4> HIDE DEF T, d
      <4> QED
        BY <1>4, <1>5, <4>6, DefinedNames
    <3> QED
      BY <2>1, <3>1, <3>2
  <2>2. (~single(d) /\ entangled) \/ physicalIndexNames(d) \subseteq DOMAIN server \cup gone[f]
    BY <1>4, <2>1
  <2>3. result'[f].op = "create" /\ result'[f].status = "ok" /\ result'[f].of = d
    BY <1>5
  <2> HIDE DEF d
  <2>4. resultOK(result'[f], DOMAIN server' \cup gone'[f], overlapped'[f], defined'[f], entangled')
    BY <1>2, <2>2, <2>3 DEF resultOK
  <2> QED
    BY <1>2, <1>3, <2>4, ResultFrame
<1>6. CASE result'[f] = [op |-> "create", status |-> "conflict", of |-> d]
  <2>1. result'[f].status = "conflict"
    BY <1>6
  <2>2. resultOK(result'[f], DOMAIN server' \cup gone'[f], overlapped'[f], defined'[f], entangled')
    BY <1>3, <2>1 DEF resultOK
  <2> QED
    BY <1>2, <1>3, <2>2, ResultFrame
<1>7. CASE result'[f] = NoResult \/ result'[f].op = "drop"
  <2>1. resultOK(result'[f], DOMAIN server' \cup gone'[f], overlapped'[f], defined'[f], entangled')
    BY <1>7, NoResultOK DEF resultOK
  <2> QED
    BY <1>2, <1>3, <2>1, ResultFrame
<1> QED
  BY <1>1, <1>5, <1>6, <1>7 DEF arrived

LEMMA ResultStatementRuns ==
    ASSUME TypeInv, Alone, Untangled, ResultInv, NEW f \in Flows, statementRuns(f)
    PROVE  ResultInv'
<1> DEFINE c == call[f]
           e == call'[f]
           q == Head(c.todo)[1]
           d == Head(c.definitions)
           index == Head(c.todo)[2]
<1>1. /\ moves(f) /\ statementRan(f) /\ c.phase = "statements" /\ ~c.ran /\ c.todo # <<>>
      /\ IsTodo(c.todo) /\ WellMade(server)
  BY StatementRuns DEF TypeInv
<1>2. result[f] = NoResult
  BY <1>1, NoCallFacts DEF TypeInv
<1>3. q \in remaining(c)
  <2> DEFINE todo == c.todo
  <2>1. IsTodo(todo) /\ todo # <<>> /\ ~c.ran /\ c.todo = todo
    BY <1>1
  <2> HIDE DEF todo, c
  <2>2. Head(todo)[1] \in remaining(c)
    BY <2>1, RemainingFacts
  <2> QED
    BY <2>2 DEF todo, c
<1> USE DEF statementRan
<1>4. ASSUME /\ c.op = "create" /\ q \notin DOMAIN server /\ d \in Asked
             /\ isPartOf(d, q, index)
             /\ server' = with(server, q, index)
             /\ IsCreating(e, defined'[f]) /\ stands(f, e)
             /\ defined' = [defined EXCEPT ![f] = @ \cup {q}]
             /\ staleElsewhere(f) /\ UNCHANGED <<result, overlapped, entangled, gone>>
      PROVE  ResultInv'
  <2>1. DOMAIN server' = DOMAIN server \cup {q}
    BY <1>4 DEF with
  <2>2. DOMAIN defined' = Flows /\ DOMAIN gone' = Flows /\ result'[f] = NoResult
    BY <1>2, <1>4 DEF TypeInv
  <2>3. \A g \in Flows \ {f} :
          /\ defined'[g] = defined[g] /\ (overlapped[g] => overlapped'[g])
          /\ DOMAIN server \cup gone[g] \subseteq DOMAIN server' \cup gone'[g]
    BY <1>4, <2>1 DEF TypeInv
  <2> QED
    BY <1>1, <1>4, <2>2, <2>3, ResultUnended
<1>5. ASSUME NEW status, ends(f, status), c.op = "create",
             \/ status = "exists" /\ q \in DOMAIN server
             \/ status = "unreadable" /\ (single(d) => defined[f] = {})
      PROVE  ResultInv'
  <2>1. /\ result'[f] = [op |-> "create", status |-> status, of |-> d]
        /\ entangled' = (entangled \/ defined[f] # {})
        /\ UNCHANGED <<server, overlapped, defined, gone, fresh>>
    BY <1>5 DEF ends
  <2>2. keeps(f)
    BY <1>1, <2>1 DEF keeps, TypeInv
  <2>3. result'[f].op = "create" /\ result'[f].status = status /\ result'[f].of = d
    BY <2>1
  <2>4. status = "exists" => overlapped[f]
    <3> SUFFICES ASSUME status = "exists", ~overlapped[f] PROVE FALSE
      BY DEF TypeInv
    <3>1. writes(c) /\ q \in DOMAIN server
      BY <1>5, WritesFacts
    <3>2. knows(c, server, defined[f])
      BY <3>1 DEF Alone
    <3> QED
      BY <1>1, <1>3, <1>5, <3>1, <3>2 DEF knows
  <2> HIDE DEF d
  <2>5. resultOK(result'[f], DOMAIN server' \cup gone'[f], overlapped'[f], defined'[f], entangled')
    BY <1>5, <2>1, <2>3, <2>4 DEF resultOK
  <2> QED
    BY <2>1, <2>2, <2>5, ResultFrame
<1>6. ASSUME /\ c.op \in {"drop", "dropAll"} /\ q \in DOMAIN server
             /\ server' = without(server, q)
             /\ IsRemoving(e) /\ stands(f, e)
             /\ gone' = [g \in Flows |-> gone[g] \cup {q}]
             /\ staleElsewhere(f) /\ UNCHANGED <<result, overlapped, entangled, defined>>
      PROVE  ResultInv'
  <2>1. DOMAIN server' = DOMAIN server \ {q}
    BY <1>6 DEF without
  <2>2. DOMAIN defined' = Flows /\ DOMAIN gone' = Flows /\ result'[f] = NoResult
    BY <1>2, <1>6 DEF TypeInv
  <2>3. \A g \in Flows \ {f} :
          /\ defined'[g] = defined[g] /\ (overlapped[g] => overlapped'[g])
          /\ DOMAIN server \cup gone[g] \subseteq DOMAIN server' \cup gone'[g]
    BY <1>6, <2>1
  <2> QED
    BY <1>1, <1>6, <2>2, <2>3, ResultUnended
<1>7. ASSUME result'[f].op # "create", UNCHANGED <<server, past>> PROVE ResultInv'
  <2>1. keeps(f)
    BY <1>1, <1>7 DEF keeps, TypeInv, past
  <2>2. resultOK(result'[f], DOMAIN server' \cup gone'[f], overlapped'[f], defined'[f], entangled')
    BY <1>7 DEF resultOK
  <2> QED
    BY <1>7, <2>1, <2>2, ResultFrame DEF past
<1> QED
  BY <1>1, <1>4, <1>5, <1>6, <1>7

LEMMA ResultCompletes ==
    ASSUME TypeInv, ResultInv, NEW f \in Flows, completes(f)
    PROVE  ResultInv'
<1> DEFINE d == Head(call[f].definitions)
<1>1. moves(f) /\ completed(f) /\ UNCHANGED <<server, loaded, owner, made, lost, past>>
  BY Completes
<1>2. keeps(f)
  BY <1>1 DEF keeps, TypeInv, past
<1>3. defined[f] \subseteq DOMAIN server \cup gone[f]
  BY DEF TypeInv
<1>4. CASE /\ defined[f] = physicalIndexNames(d)
           /\ result'[f] = [op |-> "create", status |-> "ok", of |-> d]
  <2>1. result'[f].op = "create" /\ result'[f].status = "ok" /\ result'[f].of = d
    BY <1>4
  <2> HIDE DEF d
  <2>2. resultOK(result'[f], DOMAIN server' \cup gone'[f], overlapped'[f], defined'[f], entangled')
    BY <1>1, <1>3, <1>4, <2>1 DEF resultOK, past
  <2> QED
    BY <1>1, <1>2, <2>2, ResultFrame DEF past
<1>5. CASE result'[f] = NoResult \/ result'[f].op # "create"
  <2>1. resultOK(result'[f], DOMAIN server' \cup gone'[f], overlapped'[f], defined'[f], entangled')
    BY <1>5, NoResultOK DEF resultOK
  <2> QED
    BY <1>1, <1>2, <2>1, ResultFrame DEF past
<1> QED
  BY <1>1, <1>4, <1>5 DEF completed

LEMMA ResultLeaves ==
    ASSUME TypeInv, ResultInv, NEW f \in Flows, leaves(f), entangled => entangled',
           UNCHANGED <<server, overlapped, defined, gone>>
    PROVE  ResultInv'
<1>1. moves(f) /\ (result'[f].op # "create" \/ result'[f].status = "lost")
  BY DEF leaves
<1>2. keeps(f)
  BY <1>1 DEF keeps, TypeInv
<1>3. resultOK(result'[f], DOMAIN server' \cup gone'[f], overlapped'[f], defined'[f], entangled')
  BY <1>1 DEF resultOK
<1> QED
  BY <1>2, <1>3, ResultFrame

LEMMA ResultStep ==
    TypeInv /\ Alone /\ Untangled /\ WholeInv /\ ResultInv /\ [Next]_vars => ResultInv'
<1> SUFFICES ASSUME TypeInv, Alone, Untangled, WholeInv, ResultInv, [Next]_vars PROVE ResultInv'
  OBVIOUS
<1>1. ASSUME NEW f \in Flows, NEW c \in Calls, begin(f, c) PROVE ResultInv'
  BY <1>1, ResultBegin
<1>2. ASSUME NEW f \in Flows, infoRuns(f) \/ statementArrives(f) PROVE ResultInv'
  BY <1>2, ResultWaits
<1>3. ASSUME NEW f \in Flows, inventoryArrives(f) PROVE ResultInv'
  BY <1>3, ResultArrives
<1>4. ASSUME NEW f \in Flows, statementRuns(f) PROVE ResultInv'
  BY <1>4, ResultStatementRuns
<1>5. ASSUME NEW f \in Flows, completes(f) PROVE ResultInv'
  BY <1>5, ResultCompletes
<1>6. ASSUME NEW f \in Flows, searchRuns(f) PROVE ResultInv'
  BY <1>6, SearchRuns, ResultLeaves DEF past
<1>7. ASSUME NEW f \in Flows, answerLost(f) PROVE ResultInv'
  BY <1>7, AnswerLost, ResultLeaves
<1>8. ASSUME UNCHANGED vars PROVE ResultInv'
  BY <1>8 DEF ResultInv, vars, past
<1> QED
  BY <1>1, <1>2, <1>3, <1>4, <1>5, <1>6, <1>7, <1>8 DEF Next, step, Done

-----------------------------------------------------------------------------
(* The theorems *)

LEMMA Inductive == IInv /\ [Next]_vars => IInv'
BY TypeStep, AloneStep, IndexesStep, ResultStep DEF IInv

\* The invariant holds: a call under way has, at every round trip, the inventory
\* it read, the statements of the definition it is at and what they have defined
\* of it (TypeInv); a writer that no other overlaps still knows what the server
\* has; and every index nobody is at is whole, and known to every Collection
\* whose registry is current.
THEOREM InvariantHolds == Spec => []IInv
<1>1. Init => IInv
  BY TypeInit, AloneInit DEF IInv
<1> QED
  BY <1>1, Inductive, PTL DEF Spec

\* Type correctness: what INFO FOR TABLE answered, what is left of the statements
\* and what they have defined fit together in every call, and the server's indexes
\* are those of definitions that were asked for or made by hand.
THEOREM TypeCorrect == Spec => []TypeInv
<1>1. IInv => TypeInv
  BY DEF IInv
<1> QED
  BY <1>1, InvariantHolds, PTL

\* A createIndex that resolved left every SurrealDB index of its definition, and
\* one that was refused left none, as far as the code does so: indexes.ts,
\* defineIndex and defineOneIndex.
THEOREM CreatesAll == Spec => []CreatesAllOrNothing
<1>1. IInv => CreatesAllOrNothing
  BY DEF IInv, ResultInv, resultOK, CreatesAllOrNothing, created
<1> QED
  BY <1>1, InvariantHolds, PTL

LEMMA QuietTouchesNothing ==
    ASSUME quiet, NEW f \in Flows, NEW n
    PROVE  ~touches(call[f], defined[f], n)
BY DEF quiet, touches, writes

\* What listIndexes reports of an index is what is indexed for it, and all of it:
\* index-definition.ts, describeIndexes.
THEOREM ListsWhatIsIndexed == Spec => []ListedIsIndexed
<1>1. ASSUME IInv PROVE ListedIsIndexed
  <2> DEFINE T == server
             inventory == describeIndexes(T)
  <2>1. ASSUME quiet, ~entangled, NEW n \in DOMAIN inventory \ {ID_INDEX_NAME}
        PROVE  Range(fieldsOf(inventory[n].key)) = indexedBy(T, partsOf(T, n))
    <3>1. Whole(T, n)
      BY <1>1, <2>1, QuietTouchesNothing DEF IInv, WholeInv
    <3>2. WellMade(T) /\ n # ID_INDEX_NAME /\ n \in DOMAIN describeIndexes(T)
      BY <1>1, <2>1 DEF IInv, TypeInv
    <3> HIDE DEF T
    <3> QED
      BY <3>1, <3>2, WholeFields
  <2> QED
    BY <2>1 DEF ListedIsIndexed, indexedBy
<1> QED
  BY <1>1, InvariantHolds, PTL

LEMMA NameOfPart ==
    ASSUME NEW T, WellMade(T), NEW p \in DOMAIN T
    PROVE  describeOne(p, T[p]).name = ID_INDEX_NAME <=> p = ID_INDEX_NAME
<1>1. CASE byHand(T[p])
  BY <1>1, ByHandFacts
<1>2. ASSUME NEW d \in Asked, isPartOf(d, p, T[p])
      PROVE  describeOne(p, T[p]).name # ID_INDEX_NAME /\ p # ID_INDEX_NAME
  BY <1>2, PartFacts, AskedFacts
<1> QED
  BY <1>1, <1>2 DEF WellMade

\* The text indexes of a server whose indexes are all whole, name by name.
LEMMA FieldsByName ==
    ASSUME NEW T, WellMade(T), \A n : Whole(T, n),
           NEW names, names = DOMAIN describeIndexes(T) \ {ID_INDEX_NAME}
    PROVE  UNION { textFieldsOfKey(describeIndexes(T)[n].key) : n \in names } =
           indexedBy(T, { q \in DOMAIN T : T[q].kind = "fulltext" /\ q # ID_INDEX_NAME })
<1> DEFINE found == describeIndexes(T)
           texts == { q \in DOMAIN T : T[q].kind = "fulltext" /\ q # ID_INDEX_NAME }
           of(n) == textFieldsOfKey(found[n].key)
<1>1. \A n \in names : of(n) = indexedBy(T, textParts(T, n))
  <2> SUFFICES ASSUME NEW n \in names PROVE of(n) = indexedBy(T, textParts(T, n))
    OBVIOUS
  <2>1. n # ID_INDEX_NAME /\ n \in DOMAIN describeIndexes(T) /\ Whole(T, n)
    OBVIOUS
  <2> QED
    BY <2>1, WholeFields
<1>2. \A n \in names : textParts(T, n) \subseteq texts
  <2> SUFFICES ASSUME NEW n \in names, NEW p \in textParts(T, n) PROVE p \in texts
    OBVIOUS
  <2>1. p \in DOMAIN T /\ describeOne(p, T[p]).name = n /\ T[p].kind = "fulltext"
    BY DEF textParts, partsOf
  <2>2. p # ID_INDEX_NAME
    BY <2>1, NameOfPart
  <2> QED
    BY <2>1, <2>2
<1>3. \A p \in texts : \E n \in names : p \in textParts(T, n)
  <2> SUFFICES ASSUME NEW p \in texts PROVE \E n \in names : p \in textParts(T, n)
    OBVIOUS
  <2> DEFINE n == describeOne(p, T[p]).name
  <2>1. n # ID_INDEX_NAME
    BY NameOfPart
  <2>2. p \in partsOf(T, n) /\ p \in textParts(T, n)
    BY DEF partsOf, textParts
  <2> HIDE DEF n
  <2>3. n \in DOMAIN describeIndexes(T)
    BY <2>1, <2>2, InventoryFacts
  <2> QED
    BY <2>1, <2>2, <2>3
<1> HIDE DEF texts
<1>4. \A n \in names : indexedBy(T, textParts(T, n)) \subseteq indexedBy(T, texts)
  BY <1>2 DEF indexedBy
<1>5. ASSUME NEW x \in indexedBy(T, texts)
      PROVE  \E n \in names : x \in indexedBy(T, textParts(T, n))
  <2>1. PICK p \in texts : \E c \in Range(T[p].columns) : x = fieldOf(c)
    BY DEF indexedBy
  <2>2. PICK n \in names : p \in textParts(T, n)
    BY <1>3
  <2> QED
    BY <2>1, <2>2 DEF indexedBy
<1> HIDE DEF of
<1>6. UNION { of(n) : n \in names } = indexedBy(T, texts)
  BY <1>1, <1>4, <1>5
<1> QED
  BY <1>6 DEF of, texts

\* The fields a $text search expands to are those that have a text index, for every
\* Collection whose registry nobody else's write has overtaken: index-registry.ts,
\* add() and remove() keep up with the server without another reading.
THEOREM StaysCurrent == Spec => []RegistryStaysCurrent
<1>1. ASSUME IInv PROVE RegistryStaysCurrent
  <2> SUFFICES ASSUME NEW c \in Collections, loaded[c], fresh[c], quiet, ~entangled
               PROVE  textFields(c) = indexedBy(server, { q \in DOMAIN server :
                                   /\ server[q].kind = "fulltext" /\ q # ID_INDEX_NAME })
    BY DEF RegistryStaysCurrent, indexedBy
  <2> DEFINE T == server
             held == registry[c]
             names == DOMAIN describeIndexes(T) \ {ID_INDEX_NAME}
             of(n) == textFieldsOfKey(describeIndexes(T)[n].key)
  <2>1. WellMade(T) /\ \A n : Whole(T, n)
    BY <1>1, QuietTouchesNothing DEF IInv, TypeInv, WholeInv
  <2>2. \A n : n # ID_INDEX_NAME => agrees(held, T, n)
    BY <1>1, QuietTouchesNothing DEF IInv, RegistryInv
  <2>3. ID_INDEX_NAME \in DOMAIN held => textFieldsOfKey(held[ID_INDEX_NAME]) = {}
    BY <1>1 DEF IInv, RegistryInv
  <2>4. DOMAIN held \ {ID_INDEX_NAME} = names
    BY <2>2 DEF agrees
  <2>5. \A n \in names : textFieldsOfKey(held[n]) = of(n)
    BY <2>2, <2>4 DEF agrees
  <2>6. UNION { of(n) : n \in names } =
        indexedBy(T, { q \in DOMAIN T : T[q].kind = "fulltext" /\ q # ID_INDEX_NAME })
    <3> HIDE DEF T
    <3> QED
      BY <2>1, FieldsByName
  <2>7. textFields(c) = UNION { of(n) : n \in names }
    <3> HIDE DEF held, names, of
    <3>1. UNION { textFieldsOfKey(held[n]) : n \in DOMAIN held } = UNION { of(n) : n \in names }
      BY <2>3, <2>4, <2>5
    <3> QED
      BY <3>1 DEF textFields, held
  <2> QED
    BY <2>6, <2>7
<1> QED
  BY <1>1, InvariantHolds, PTL
=============================================================================
