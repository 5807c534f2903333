-------------------------- MODULE EventEmitterProofs --------------------------
(***************************************************************************)
(* The emitter's counts, for any number of listeners, registrations and    *)
(* emits, nested as they may be: what an emit still owes a registration is *)
(* whether its frame on the stack still holds it.                          *)
(***************************************************************************)
EXTENDS EventEmitter, FunctionTheorems, FiniteSetTheorems, SequenceTheorems,
        WellFoundedInduction, TLAPS

\* Registrations in the order they were made, none twice.
InOrder(q) == \A i, j \in 1..Len(q) : i < j => q[i] < q[j]

\* The emits of a stack that have yet to call a registration.
Owing(r, st) == {i \in 1..Len(st) : r \in ToSet(st[i])}

\* Those of the innermost k.
Near(r, st, k) == {i \in 1..k : r \in ToSet(st[i])}

\* The stack without its innermost k.
Beyond(k, st, rest) ==
    /\ Len(st) = k + Len(rest)
    /\ \A i \in 1..Len(rest) : rest[i] = st[i + k]

\* What is registered, or on its way to be called, was made, once.
ListsOK ==
    /\ InOrder(registry) /\ ToSet(registry) \subseteq 1..added
    /\ \A i \in 1..Len(stack) : InOrder(stack[i]) /\ ToSet(stack[i]) \subseteq 1..added

\* A registration is owed the calls it had and those of the emits still to call it.
Owed == \A r \in Added : due[r] = calls[r] + Cardinality(Owing(r, stack))

IInv == TypeOK /\ ListsOK /\ Owed /\ StaysUntilRemoved

-----------------------------------------------------------------------------
(* Facts about lists of registrations *)

\* The head of a list is not in its tail.
LEMMA HeadAndTail ==
    ASSUME NEW q \in Seq(Added), q # << >>, InOrder(q)
    PROVE  /\ Head(q) \in ToSet(q) /\ Head(q) \notin ToSet(Tail(q))
           /\ ToSet(q) = ToSet(Tail(q)) \cup {Head(q)}
           /\ InOrder(Tail(q)) /\ Tail(q) \in Seq(Added)
<1>1. /\ Len(q) \in Nat /\ Len(q) >= 1 /\ Head(q) = q[1] /\ Tail(q) \in Seq(Added)
      /\ Len(Tail(q)) = Len(q) - 1 /\ DOMAIN q = 1..Len(q)
      /\ DOMAIN Tail(q) = 1..(Len(q) - 1)
      /\ \A i \in 1..(Len(q) - 1) : Tail(q)[i] = q[i + 1]
      /\ \A i \in 1..Len(q) : q[i] \in Added /\ q[i] \in Nat
  BY BoundsAreNat DEF Added
<1>2. \A i \in 1..(Len(q) - 1) : i + 1 \in 1..Len(q) /\ Tail(q)[i] = q[i + 1] /\ q[1] < q[i + 1]
  BY <1>1 DEF InOrder
<1>3. Head(q) \in ToSet(q)
  BY <1>1 DEF ToSet
<1>4. Head(q) \notin ToSet(Tail(q))
  BY <1>1, <1>2 DEF ToSet
<1>5. ToSet(Tail(q)) \subseteq ToSet(q)
  BY <1>1, <1>2 DEF ToSet
<1>6. ToSet(q) \subseteq ToSet(Tail(q)) \cup {Head(q)}
  <2>1. ASSUME NEW i \in 1..Len(q) PROVE q[i] \in ToSet(Tail(q)) \cup {Head(q)}
    <3>1. i = 1 \/ (i - 1 \in 1..(Len(q) - 1) /\ Tail(q)[i - 1] = q[i])
      BY <1>1
    <3>2. QED
      BY <1>1, <3>1 DEF ToSet
  <2>2. QED
    BY <1>1, <2>1 DEF ToSet
<1>7. InOrder(Tail(q))
  BY <1>1, <1>2 DEF InOrder
<1>8. QED
  BY <1>1, <1>3, <1>4, <1>5, <1>6, <1>7

\* Taking one registration out leaves the others, in their order.
LEMMA Without ==
    ASSUME NEW q \in Seq(Added), InOrder(q), NEW k \in 1..Len(q)
    PROVE  /\ RemoveAt(q, k) \in Seq(Added) /\ InOrder(RemoveAt(q, k))
           /\ ToSet(RemoveAt(q, k)) = ToSet(q) \ {q[k]}
<1> DEFINE w == RemoveAt(q, k)
<1>1. /\ Len(q) \in Nat /\ DOMAIN q = 1..Len(q) /\ \A i \in 1..Len(q) : q[i] \in Added /\ q[i] \in Nat
  BY BoundsAreNat DEF Added
<1>2. /\ w \in Seq(Added) /\ Len(w) = Len(q) - 1 /\ DOMAIN w = 1..(Len(q) - 1)
      /\ \A i \in 1..(Len(q) - 1) : w[i] = IF i < k THEN q[i] ELSE q[i + 1]
  <2> DEFINE left == SubSeq(q, 1, k - 1)
             right == SubSeq(q, k + 1, Len(q))
  <2>1. /\ left \in Seq(Added) /\ Len(left) = k - 1
        /\ \A i \in 1..(k - 1) : left[i] = q[i]
    <3>1. 1 \in Int /\ k - 1 \in Int /\ \A i \in 1..(k - 1) : q[i] \in Added
      BY <1>1
    <3>2. /\ left \in Seq(Added)
          /\ Len(left) = IF 1 <= k - 1 THEN (k - 1) - 1 + 1 ELSE 0
          /\ \A i \in 1..((k - 1) - 1 + 1) : left[i] = q[1 + i - 1]
      BY <3>1, SubSeqProperties, SMT
    <3> HIDE DEF left
    <3>3. QED
      BY <1>1, <3>2
  <2>2. /\ right \in Seq(Added) /\ Len(right) = Len(q) - k
        /\ \A i \in 1..(Len(q) - k) : right[i] = q[k + i]
    <3>1. k + 1 \in Int /\ Len(q) \in Int /\ \A i \in (k + 1)..Len(q) : q[i] \in Added
      BY <1>1
    <3>2. /\ right \in Seq(Added)
          /\ Len(right) = IF k + 1 <= Len(q) THEN Len(q) - (k + 1) + 1 ELSE 0
          /\ \A i \in 1..(Len(q) - (k + 1) + 1) : right[i] = q[(k + 1) + i - 1]
      BY <3>1, SubSeqProperties, SMT
    <3>3. \A i \in 1..(Len(q) - k) : (k + 1) + i - 1 = k + i
      BY <1>1
    <3>4. Len(q) - (k + 1) + 1 = Len(q) - k /\ k <= Len(q) /\ k \in Nat
      BY <1>1
    <3> HIDE DEF right
    <3>5. Len(right) = Len(q) - k
      <4>1. CASE k + 1 <= Len(q)
        BY <3>2, <3>4, <4>1
      <4>2. CASE ~(k + 1 <= Len(q))
        <5>1. \A m, n \in Nat : m <= n /\ ~(m + 1 <= n) => n - m = 0
          OBVIOUS
        <5>2. Len(q) \in Nat /\ k \in Nat /\ k <= Len(q)
          BY <1>1, <3>4
        <5>3. Len(q) - k = 0
          BY <4>2, <5>1, <5>2
        <5>4. QED
          BY <3>2, <4>2, <5>3
      <4>3. QED
        BY <4>1, <4>2
    <3>6. QED
      BY <3>2, <3>3, <3>4, <3>5
  <2>3. w = left \o right
    BY DEF RemoveAt
  <2> HIDE DEF left, right, w
  <2>4. /\ w \in Seq(Added) /\ Len(w) = Len(left) + Len(right)
        /\ \A i \in 1..(Len(left) + Len(right)) :
              w[i] = IF i <= Len(left) THEN left[i] ELSE right[i - Len(left)]
    BY <2>1, <2>2, <2>3, ConcatProperties
  <2>5. Len(w) = Len(q) - 1 /\ DOMAIN w = 1..(Len(q) - 1)
    BY <1>1, <2>1, <2>2, <2>4
  <2>6. ASSUME NEW i \in 1..(Len(q) - 1)
        PROVE  w[i] = IF i < k THEN q[i] ELSE q[i + 1]
    <3>1. w[i] = IF i <= k - 1 THEN left[i] ELSE right[i - (k - 1)]
      BY <1>1, <2>1, <2>2, <2>4
    <3>2. CASE i < k
      <4>1. i \in 1..(k - 1)
        BY <1>1, <3>2
      <4>2. QED
        BY <2>1, <3>1, <3>2, <4>1
    <3>3. CASE ~(i < k)
      <4>1. i - (k - 1) \in 1..(Len(q) - k) /\ k + (i - (k - 1)) = i + 1 /\ ~(i <= k - 1)
        BY <1>1, <3>3
      <4>2. right[i - (k - 1)] = q[k + (i - (k - 1))]
        BY <2>2, <4>1
      <4>3. QED
        BY <3>1, <3>3, <4>1, <4>2
    <3>4. QED
      BY <3>2, <3>3
  <2>7. QED
    BY <2>4, <2>5, <2>6
<1> HIDE DEF w
<1>3. \A i \in 1..(Len(q) - 1) : \E j \in 1..Len(q) : j # k /\ w[i] = q[j]
  <2>1. ASSUME NEW i \in 1..(Len(q) - 1) PROVE \E j \in 1..Len(q) : j # k /\ w[i] = q[j]
    <3>1. CASE i < k
      <4>1. i \in 1..Len(q) /\ i # k /\ w[i] = q[i]
        BY <1>1, <1>2, <3>1
      <4>2. QED
        BY <4>1
    <3>2. CASE ~(i < k)
      <4>1. i + 1 \in 1..Len(q) /\ i + 1 # k /\ w[i] = q[i + 1]
        BY <1>1, <1>2, <3>2
      <4>2. QED
        BY <4>1
    <3>3. QED
      BY <3>1, <3>2
  <2>2. QED
    BY <2>1
<1>4. \A j \in 1..Len(q) : j # k => \E i \in 1..(Len(q) - 1) : w[i] = q[j]
  <2>1. ASSUME NEW j \in 1..Len(q), j # k PROVE \E i \in 1..(Len(q) - 1) : w[i] = q[j]
    <3>1. CASE j < k
      <4>1. j \in 1..(Len(q) - 1) /\ w[j] = q[j]
        BY <1>1, <1>2, <3>1
      <4>2. QED
        BY <4>1
    <3>2. CASE j > k
      <4>1. j - 1 \in 1..(Len(q) - 1) /\ w[j - 1] = q[j]
        BY <1>1, <1>2, <3>2
      <4>2. QED
        BY <4>1
    <3>3. QED
      BY <2>1, <3>1, <3>2
  <2>2. QED
    BY <2>1
<1>5. \A j \in 1..Len(q) : j # k => q[j] # q[k]
  <2>1. ASSUME NEW j \in 1..Len(q), j # k PROVE q[j] # q[k]
    <3>1. q[j] < q[k] \/ q[k] < q[j]
      BY <2>1 DEF InOrder
    <3>2. QED
      BY <1>1, <3>1
  <2>2. QED
    BY <2>1
<1>6. ToSet(w) = ToSet(q) \ {q[k]}
  <2>1. ToSet(w) = {w[i] : i \in 1..(Len(q) - 1)} /\ ToSet(q) = {q[j] : j \in 1..Len(q)}
    BY <1>1, <1>2 DEF ToSet
  <2>2. \A i \in 1..(Len(q) - 1) : w[i] \in ToSet(q) \ {q[k]}
    BY <1>3, <1>5, <2>1
  <2>3. \A x \in ToSet(q) \ {q[k]} : x \in ToSet(w)
    BY <1>4, <2>1
  <2>4. QED
    BY <2>1, <2>2, <2>3
<1>7. InOrder(w)
  <2>1. ASSUME NEW i \in 1..Len(w), NEW j \in 1..Len(w), i < j
        PROVE  w[i] < w[j]
    <3>1. /\ w[i] = IF i < k THEN q[i] ELSE q[i + 1]
          /\ w[j] = IF j < k THEN q[j] ELSE q[j + 1]
          /\ i \in 1..Len(q) /\ i + 1 \in 1..Len(q) /\ j \in 1..Len(q) /\ j + 1 \in 1..Len(q)
      BY <1>1, <1>2
    <3>2. QED
      BY <2>1, <3>1, <1>1 DEF InOrder
  <2>2. QED
    BY <2>1 DEF InOrder
<1>8. QED
  BY <1>2, <1>6, <1>7 DEF w

\* What the emits of a stack owe is what the innermost k owe and what the rest do.
LEMMA OwingSplits ==
    ASSUME NEW r, NEW S, NEW st \in Seq(S), NEW rest \in Seq(S), NEW k \in Nat,
           Beyond(k, st, rest)
    PROVE  /\ Cardinality(Near(r, st, k)) \in Nat
           /\ Cardinality(Owing(r, rest)) \in Nat
           /\ Cardinality(Owing(r, st)) = Cardinality(Near(r, st, k))
                                          + Cardinality(Owing(r, rest))
<1> DEFINE near == Near(r, st, k)
           far  == {i \in 1..Len(st) : i > k /\ r \in ToSet(st[i])}
           here == Owing(r, rest)
           move == [i \in here |-> i + k]
<1>1. /\ Len(st) \in Nat /\ Len(rest) \in Nat /\ Len(st) = k + Len(rest)
      /\ \A i \in 1..Len(rest) : rest[i] = st[i + k]
  BY DEF Beyond
<1>2. IsFiniteSet(near) /\ IsFiniteSet(far) /\ IsFiniteSet(here)
  <2>1. IsFiniteSet(1..k) /\ IsFiniteSet(1..Len(st)) /\ IsFiniteSet(1..Len(rest))
    BY <1>1, FS_Interval
  <2>2. near \in SUBSET (1..k) /\ far \in SUBSET (1..Len(st)) /\ here \in SUBSET (1..Len(rest))
    BY DEF Owing, Near
  <2>3. QED
    BY <2>1, <2>2, FS_Subset
<1>3. Owing(r, st) = near \cup far /\ near \cap far = {}
  BY <1>1 DEF Owing, Near
<1>4. move \in Bijection(here, far)
  <2>1. \A i \in here : i \in 1..Len(rest) /\ i + k \in far
    BY <1>1 DEF Owing
  <2>2. \A j \in far : j - k \in here /\ (j - k) + k = j
    <3>1. ASSUME NEW j \in far PROVE j - k \in here /\ (j - k) + k = j
      <4>1. j \in 1..Len(st) /\ j > k /\ r \in ToSet(st[j])
        OBVIOUS
      <4>2. j - k \in 1..Len(rest) /\ (j - k) + k = j
        BY <1>1, <4>1
      <4>3. rest[j - k] = st[j]
        BY <1>1, <4>2
      <4>4. QED
        BY <4>1, <4>2, <4>3 DEF Owing
    <3>2. QED
      BY <3>1
  <2> HIDE DEF here, far
  <2>3. move \in [here -> far]
    BY <2>1
  <2>4. \A a, b \in here : move[a] = move[b] => a = b
    BY <2>1
  <2>5. \A j \in far : \E i \in here : move[i] = j
    BY <2>2
  <2>6. QED
    BY <2>3, <2>4, <2>5, Fun_IsBij
<1>5. Cardinality(far) = Cardinality(here)
  BY <1>2, <1>4, FS_Bijection DEF ExistsBijection
<1> HIDE DEF near, far, here
<1>6. Cardinality(near) \in Nat /\ Cardinality(here) \in Nat
  BY <1>2, FS_CardinalityType
<1>7. Cardinality(near \cup far) = Cardinality(near) + Cardinality(far) - Cardinality({})
  BY <1>2, <1>3, FS_Union
<1>8. QED
  BY <1>3, <1>5, <1>6, <1>7, FS_EmptySet DEF near, here

\* The innermost frame owes one call to what it still holds.
LEMMA OwingFirst ==
    ASSUME NEW r, NEW S, NEW st \in Seq(S), NEW rest \in Seq(S),
           Len(st) = 1 + Len(rest), \A i \in 1..Len(rest) : rest[i] = st[i + 1]
    PROVE  /\ Cardinality(Owing(r, rest)) \in Nat
           /\ Cardinality(Owing(r, st)) = Cardinality(Owing(r, rest))
                                          + (IF r \in ToSet(st[1]) THEN 1 ELSE 0)
<1> DEFINE near == Near(r, st, 1)
<1>1. near = IF r \in ToSet(st[1]) THEN {1} ELSE {}
  BY DEF Near
<1>2. Cardinality({1}) = 1 /\ Cardinality({}) = 0
  BY FS_Singleton, FS_EmptySet
<1>3. /\ Cardinality(Owing(r, rest)) \in Nat
      /\ Cardinality(Owing(r, st)) = Cardinality(near) + Cardinality(Owing(r, rest))
  <2>1. 1 \in Nat /\ Beyond(1, st, rest)
    BY DEF Beyond
  <2>2. QED
    BY <2>1, OwingSplits
<1>4. Cardinality(near) = IF r \in ToSet(st[1]) THEN 1 ELSE 0
  BY <1>1, <1>2
<1>5. QED
  BY <1>3, <1>4

\* ... when an emit has pushed it,
LEMMA OwingOne ==
    ASSUME NEW r, NEW S, NEW f \in S, NEW rest \in Seq(S)
    PROVE  /\ <<f>> \o rest \in Seq(S) /\ Len(<<f>> \o rest) = 1 + Len(rest)
           /\ (<<f>> \o rest)[1] = f
           /\ \A i \in 1..Len(rest) : rest[i] = (<<f>> \o rest)[i + 1]
           /\ Cardinality(Owing(r, rest)) \in Nat
           /\ Cardinality(Owing(r, <<f>> \o rest)) = Cardinality(Owing(r, rest))
                                          + (IF r \in ToSet(f) THEN 1 ELSE 0)
<1> DEFINE st == <<f>> \o rest
<1>1. <<f>> \in Seq(S) /\ Len(<<f>>) = 1 /\ <<f>>[1] = f /\ Len(rest) \in Nat
  OBVIOUS
<1>2. /\ st \in Seq(S) /\ Len(st) = 1 + Len(rest)
      /\ \A i \in 1..(1 + Len(rest)) : st[i] = IF i <= 1 THEN <<f>>[i] ELSE rest[i - 1]
  BY <1>1, ConcatProperties
<1>3. \A i \in 1..Len(rest) : i + 1 \in 1..(1 + Len(rest)) /\ ~(i + 1 <= 1) /\ (i + 1) - 1 = i
  BY <1>1
<1>4. st[1] = f /\ \A i \in 1..Len(rest) : rest[i] = st[i + 1]
  BY <1>1, <1>2, <1>3
<1> HIDE DEF st
<1>5. /\ Cardinality(Owing(r, rest)) \in Nat
      /\ Cardinality(Owing(r, st)) = Cardinality(Owing(r, rest)) + (IF r \in ToSet(f) THEN 1 ELSE 0)
  BY <1>2, <1>4, OwingFirst
<1>6. QED
  BY <1>2, <1>4, <1>5 DEF st

\* ... and when it is on top of a stack.
LEMMA OwingHead ==
    ASSUME NEW r, NEW S, NEW st \in Seq(S), st # << >>
    PROVE  /\ Head(st) \in S /\ Tail(st) \in Seq(S) /\ Head(st) = st[1] /\ 1 \in 1..Len(st)
           /\ Len(st) = 1 + Len(Tail(st))
           /\ \A i \in 1..Len(Tail(st)) : i + 1 \in 1..Len(st) /\ Tail(st)[i] = st[i + 1]
           /\ Cardinality(Owing(r, Tail(st))) \in Nat
           /\ Cardinality(Owing(r, st)) = Cardinality(Owing(r, Tail(st)))
                                          + (IF r \in ToSet(Head(st)) THEN 1 ELSE 0)
<1>1. /\ Head(st) \in S /\ Tail(st) \in Seq(S) /\ Len(Tail(st)) = Len(st) - 1
      /\ \A i \in 1..Len(Tail(st)) : Tail(st)[i] = st[i + 1]
  BY HeadTailProperties
<1>2. Len(st) \in Nat /\ Len(st) >= 1 /\ Head(st) = st[1]
  OBVIOUS
<1>3. /\ Len(st) = 1 + Len(Tail(st)) /\ 1 \in 1..Len(st)
      /\ \A i \in 1..Len(Tail(st)) : i + 1 \in 1..Len(st)
  BY <1>1, <1>2
<1> DEFINE rest == Tail(st)
<1> HIDE DEF rest
<1>4. rest \in Seq(S) /\ Len(st) = 1 + Len(rest) /\ \A i \in 1..Len(rest) : rest[i] = st[i + 1]
  BY <1>1, <1>3 DEF rest
<1>5. /\ Cardinality(Owing(r, rest)) \in Nat
      /\ Cardinality(Owing(r, st)) = Cardinality(Owing(r, rest)) + (IF r \in ToSet(st[1]) THEN 1 ELSE 0)
  BY <1>4, OwingFirst
<1>6. QED
  BY <1>1, <1>2, <1>3, <1>5 DEF rest

-----------------------------------------------------------------------------
(* What the parts of a step keep *)

\* A set of naturals has a least member.
LEMMA Least ==
    ASSUME NEW T, T \subseteq Nat, T # {}
    PROVE  \E x \in T : \A y \in T : x <= y
<1> DEFINE below == OpToRel(<, Nat)
<1>1. \A x, y \in Nat : x < y => <<x, y>> \in below
  BY DEF OpToRel
<1>2. IsWellFoundedOn(below, Nat)
  BY NatLessThanWellFounded
<1> HIDE DEF below
<1>3. PICK x \in T : \A y \in T : <<y, x>> \notin below
  BY <1>2, WFMin
<1>4. ASSUME NEW y \in T PROVE x <= y
  <2>1. x \in Nat /\ y \in Nat
    OBVIOUS
  <2>2. ~(y < x)
    BY <1>1, <1>3, <2>1
  <2>3. QED
    BY <2>1, <2>2
<1>5. QED
  BY <1>4

\* Detaching a function takes one registration of it out, where there is one still.
LEMMA WithoutKeeps ==
    ASSUME TypeOK, ListsOK, NEW f
    PROVE  /\ without(f) \in Seq(Added) /\ InOrder(without(f))
           /\ ToSet(without(f)) \subseteq ToSet(registry)
           /\ first(f) # 0 => /\ registry[first(f)] \in ToSet(registry)
                              /\ listener[registry[first(f)]] = f
                              /\ ToSet(without(f)) = ToSet(registry) \ {registry[first(f)]}
           /\ first(f) = 0 => without(f) = registry
<1> DEFINE at == {i \in 1..Len(registry) : listener[registry[i]] = f}
<1>1. /\ registry \in Seq(Added) /\ InOrder(registry) /\ Len(registry) \in Nat
      /\ ToSet(registry) = {registry[i] : i \in 1..Len(registry)}
  <2>1. /\ registry \in Seq(Added) /\ InOrder(registry)
        /\ DOMAIN registry = 1..Len(registry) /\ Len(registry) \in Nat
    BY DEF TypeOK, ListsOK
  <2>2. QED
    BY <2>1 DEF ToSet
<1>2. CASE at = {}
  <2>1. first(f) = 0 /\ without(f) = registry
    BY <1>2 DEF first, without
  <2>2. QED
    BY <1>1, <2>1
<1>3. CASE at # {}
  <2>1. at \subseteq Nat
    BY <1>1
  <2>2. \E i \in at : \A j \in at : i <= j
    BY <1>3, <2>1, Least
  <2>3. first(f) = CHOOSE i \in at : \A j \in at : i <= j
    BY <1>3 DEF first
  <2>4. first(f) \in at
    BY <2>2, <2>3
  <2>5. first(f) \in 1..Len(registry) /\ listener[registry[first(f)]] = f /\ first(f) # 0
    BY <2>4
  <2>6. without(f) = RemoveAt(registry, first(f))
    BY <2>5 DEF without
  <2>7. /\ without(f) \in Seq(Added) /\ InOrder(without(f))
        /\ ToSet(without(f)) = ToSet(registry) \ {registry[first(f)]}
    BY <1>1, <2>5, <2>6, Without
  <2>8. QED
    BY <1>1, <2>5, <2>7
<1>4. QED
  BY <1>2, <1>3

\* One turn of emit's loop.
LEMMA TurnKeeps ==
    ASSUME TypeOK, ListsOK, StaysUntilRemoved,
           NEW left \in Seq(Added), left # << >>, InOrder(left), ToSet(left) \subseteq 1..added,
           NEW under \in Seq(Seq(Added)),
           \A i \in 1..Len(under) : InOrder(under[i]) /\ ToSet(under[i]) \subseteq 1..added,
           turn(left, under), UNCHANGED <<listener, once, added, removed>>
    PROVE  /\ registry' \in Seq(Added) /\ stack' \in Seq(Seq(Added)) /\ calls' \in [Added -> Nat]
           /\ ListsOK' /\ StaysUntilRemoved'
           /\ \A r \in Added : calls'[r] + Cardinality(Owing(r, stack'))
                 = calls[r] + Cardinality(Owing(r, under)) + (IF r \in ToSet(left) THEN 1 ELSE 0)
<1> DEFINE h == Head(left)
           t == Tail(left)
<1>1. /\ h \in ToSet(left) /\ h \notin ToSet(t) /\ ToSet(left) = ToSet(t) \cup {h}
      /\ InOrder(t) /\ t \in Seq(Added) /\ h \in 1..added /\ h \in Added
  <2>1. added \in Nat /\ MaxAdded \in Nat /\ added <= MaxAdded
    BY BoundsAreNat DEF TypeOK
  <2>2. QED
    BY <2>1, HeadAndTail DEF Added
<1>2. /\ registry' = (IF once[h] THEN without(listener[h]) ELSE registry)
      /\ calls' = [calls EXCEPT ![h] = @ + 1]
      /\ stack' = <<t>> \o under
  BY DEF turn
<1> HIDE DEF h, t
<1>3. /\ registry' \in Seq(Added) /\ InOrder(registry') /\ ToSet(registry') \subseteq ToSet(registry)
      /\ \A r \in ToSet(registry) \ ToSet(registry') : once[h] /\ listener[r] = listener[h]
  <2>1. CASE once[h]
    BY <1>2, <2>1, WithoutKeeps
  <2>2. CASE ~once[h]
    BY <1>2, <2>2 DEF TypeOK, ListsOK
  <2>3. QED
    BY <2>1, <2>2
<1>4. /\ stack' \in Seq(Seq(Added)) /\ Len(stack') = 1 + Len(under) /\ stack'[1] = t
      /\ \A i \in 1..Len(under) : under[i] = stack'[i + 1]
  BY <1>1, <1>2, OwingOne
<1>5. calls' \in [Added -> Nat]
  BY SMTT(30), <1>1, <1>2 DEF TypeOK
<1>6. ListsOK'
  <2>1. ASSUME NEW i \in 1..Len(stack')
        PROVE  InOrder(stack'[i]) /\ ToSet(stack'[i]) \subseteq 1..added
    <3>1. CASE i = 1
      BY <1>1, <1>4, <3>1
    <3>2. CASE i # 1
      <4>1. i - 1 \in 1..Len(under) /\ (i - 1) + 1 = i
        BY <1>4, <3>2
      <4>2. QED
        BY <1>4, <4>1
    <3>3. QED
      BY <3>1, <3>2
  <2>2. QED
    BY <1>3, <2>1 DEF ListsOK
<1>8. StaysUntilRemoved'
  <2>1. calls'[h] > 0 /\ \A r \in Added : calls[r] > 0 => calls'[r] > 0
    BY <1>1, <1>2 DEF TypeOK
  <2>2. 1..added \subseteq Added
    BY BoundsAreNat DEF TypeOK, Added
  <2>3. ASSUME NEW r \in 1..added, ~once[r], r \notin removed, r \notin ToSet(registry')
        PROVE  \E o \in 1..added : once[o] /\ listener[o] = listener[r] /\ calls'[o] > 0
    <3>1. CASE r \in ToSet(registry)
      BY <1>1, <1>3, <2>1, <2>3, <3>1
    <3>2. CASE r \notin ToSet(registry)
      <4>1. PICK o \in 1..added : once[o] /\ listener[o] = listener[r] /\ calls[o] > 0
        BY <2>3, <3>2 DEF StaysUntilRemoved
      <4>2. QED
        BY <2>1, <2>2, <4>1
    <3>3. QED
      BY <3>1, <3>2
  <2>4. QED
    BY <2>3 DEF StaysUntilRemoved
<1>9. ASSUME NEW r \in Added
      PROVE  calls'[r] + Cardinality(Owing(r, stack'))
               = calls[r] + Cardinality(Owing(r, under)) + (IF r \in ToSet(left) THEN 1 ELSE 0)
  <2>1. /\ Cardinality(Owing(r, under)) \in Nat
        /\ Cardinality(Owing(r, stack')) = Cardinality(Owing(r, under))
                                           + (IF r \in ToSet(t) THEN 1 ELSE 0)
    BY <1>1, <1>2, OwingOne
  <2>2. calls'[r] = IF r = h THEN calls[r] + 1 ELSE calls[r]
    BY <1>1, <1>2 DEF TypeOK
  <2>3. r \in ToSet(left) <=> r \in ToSet(t) \/ r = h
    BY <1>1
  <2>4. r = h => r \notin ToSet(t)
    BY <1>1
  <2>5. calls[r] \in Nat
    BY DEF TypeOK
  <2> DEFINE owing == Cardinality(Owing(r, under))
  <2> HIDE DEF owing
  <2>6. CASE r = h
    BY <2>1, <2>2, <2>3, <2>4, <2>5, <2>6 DEF owing
  <2>7. CASE r # h
    BY <2>1, <2>2, <2>3, <2>5, <2>7 DEF owing
  <2>8. QED
    BY <2>6, <2>7
<1>10. QED
  BY <1>3, <1>4, <1>5, <1>6, <1>8, <1>9

-----------------------------------------------------------------------------
(* The invariant *)

LEMMA InitKeeps == Init => IInv
<1> SUFFICES ASSUME Init PROVE IInv
  OBVIOUS
<1>1. Len(registry) = 0 /\ Len(stack) = 0 /\ ToSet(registry) = {}
  BY DEF Init, ToSet
<1>2. TypeOK
  BY BoundsAreNat DEF Init, TypeOK, Added
<1>3. ListsOK /\ StaysUntilRemoved
  BY <1>1 DEF Init, ListsOK, InOrder, StaysUntilRemoved
<1>4. Owed
  <2>1. \A r \in Added : Owing(r, stack) = {}
    BY <1>1 DEF Owing
  <2>2. \A r \in Added : Cardinality(Owing(r, stack)) = 0
    BY <2>1, FS_EmptySet
  <2>3. \A r \in Added : due[r] = 0 /\ calls[r] = 0
    BY DEF Init
  <2>4. QED
    BY <2>2, <2>3 DEF Owed
<1>5. QED
  BY <1>2, <1>3, <1>4 DEF IInv

LEMMA RegisterKeeps ==
    ASSUME IInv, NEW f \in Listeners, NEW isOnce \in BOOLEAN, register(f, isOnce)
    PROVE  IInv'
<1> DEFINE a == added + 1
<1>1. /\ TypeOK /\ ListsOK /\ Owed /\ StaysUntilRemoved
      /\ added \in Nat /\ a \in Added /\ a \in Nat /\ a \in 1..a /\ a \notin 1..added
      /\ 1..a = (1..added) \cup {a} /\ a \in 0..MaxAdded /\ 1..added \subseteq Added
  <2>1. TypeOK /\ ListsOK /\ Owed /\ StaysUntilRemoved
    BY DEF IInv
  <2>2. added \in Nat /\ MaxAdded \in Nat /\ added < MaxAdded
    BY <2>1, BoundsAreNat DEF TypeOK, register
  <2>3. a \in Added /\ a \in Nat /\ a \in 0..MaxAdded /\ 1..added \subseteq Added
    BY <2>2 DEF Added
  <2>4. a \in 1..a /\ a \notin 1..added
    BY <2>2
  <2>5. 1..a = (1..added) \cup {a}
    BY <2>2
  <2>6. QED
    BY <2>1, <2>2, <2>3, <2>4, <2>5
<1>2. /\ added' = a /\ registry' = Append(registry, a)
      /\ listener' = [listener EXCEPT ![a] = f] /\ once' = [once EXCEPT ![a] = isOnce]
      /\ UNCHANGED <<stack, emits, calls, removed, due>>
  BY DEF register
<1> HIDE DEF a
<1>3. /\ registry' \in Seq(Added) /\ Len(registry') = Len(registry) + 1 /\ Len(registry) \in Nat
      /\ \A i \in 1..Len(registry) : registry'[i] = registry[i]
      /\ registry'[Len(registry) + 1] = a
      /\ DOMAIN registry = 1..Len(registry) /\ DOMAIN registry' = 1..Len(registry')
  BY <1>1, <1>2, AppendProperties DEF TypeOK
<1>4. \A i \in 1..Len(registry) : registry[i] \in 1..added
  BY <1>1, <1>3 DEF ListsOK, ToSet
<1>5. \A i \in 1..Len(registry') : i \in 1..Len(registry) \/ i = Len(registry) + 1
  BY <1>3
<1>6. ToSet(registry') = ToSet(registry) \cup {a}
  <2>1. ToSet(registry') = {registry'[i] : i \in 1..Len(registry')}
        /\ ToSet(registry) = {registry[i] : i \in 1..Len(registry)}
    BY <1>3 DEF ToSet
  <2>2. 1..Len(registry) \subseteq 1..Len(registry') /\ Len(registry) + 1 \in 1..Len(registry')
    BY <1>3
  <2>3. \A x \in ToSet(registry') : x \in ToSet(registry) \cup {a}
    BY <1>3, <1>5, <2>1
  <2>4. \A x \in ToSet(registry) \cup {a} : x \in ToSet(registry')
    BY <1>3, <2>1, <2>2
  <2>5. QED
    BY <2>3, <2>4
<1>7. InOrder(registry')
  <2>1. ASSUME NEW i \in 1..Len(registry'), NEW j \in 1..Len(registry'), i < j
        PROVE  registry'[i] < registry'[j]
    <3>1. i \in 1..Len(registry)
      BY <1>3, <2>1
    <3>2. CASE j \in 1..Len(registry)
      BY <1>1, <1>3, <2>1, <3>1, <3>2 DEF ListsOK, InOrder
    <3>3. CASE j = Len(registry) + 1
      <4>1. registry[i] \in 1..added
        BY <1>4, <3>1
      <4>2. registry'[i] = registry[i] /\ registry'[j] = a
        BY <1>3, <3>1, <3>3
      <4>3. QED
        BY <1>1, <4>1, <4>2 DEF a
    <3>4. QED
      BY <1>5, <3>2, <3>3
  <2>2. QED
    BY <2>1 DEF InOrder
<1>8. TypeOK'
  BY <1>1, <1>2, <1>3 DEF TypeOK
<1>9. ListsOK'
  BY <1>1, <1>2, <1>6, <1>7 DEF ListsOK
<1>10. /\ listener'[a] = f /\ once'[a] = isOnce
       /\ \A r \in 1..added : listener'[r] = listener[r] /\ once'[r] = once[r]
  BY <1>1, <1>2 DEF TypeOK
<1>12. Owed'
  BY <1>1, <1>2 DEF Owed
<1>13. StaysUntilRemoved'
  <2>1. ASSUME NEW r \in 1..added, ~once[r], r \notin removed, r \notin ToSet(registry)
        PROVE  \E o \in 1..a : once'[o] /\ listener'[o] = listener'[r] /\ calls[o] > 0
    <3>1. PICK o \in 1..added : once[o] /\ listener[o] = listener[r] /\ calls[o] > 0
      BY <1>1, <2>1 DEF StaysUntilRemoved
    <3>2. QED
      BY <1>1, <1>10, <3>1
  <2>2. ASSUME NEW r \in 1..a, ~once'[r], r \notin removed, r \notin ToSet(registry')
        PROVE  \E o \in 1..a : once'[o] /\ listener'[o] = listener'[r] /\ calls[o] > 0
    BY <1>1, <1>6, <1>10, <2>1, <2>2
  <2>3. QED
    BY <1>2, <2>2 DEF StaysUntilRemoved
<1>14. QED
  BY <1>8, <1>9, <1>12, <1>13 DEF IInv

LEMMA RemoveListenerKeeps ==
    ASSUME IInv, NEW f \in Listeners, removeListener(f)
    PROVE  IInv'
<1>1. /\ TypeOK /\ ListsOK /\ Owed /\ StaysUntilRemoved
      /\ registry' = without(f) /\ removed' = removed \cup {registry[first(f)]}
      /\ UNCHANGED <<stack, listener, once, added, emits, calls, due>> /\ first(f) # 0
      /\ 1..added \subseteq Added
  BY BoundsAreNat DEF IInv, TypeOK, removeListener, Added
<1>2. /\ registry' \in Seq(Added) /\ InOrder(registry')
      /\ ToSet(registry') = ToSet(registry) \ {registry[first(f)]}
      /\ registry[first(f)] \in ToSet(registry) /\ registry[first(f)] \in 1..added
  BY <1>1, WithoutKeeps DEF ListsOK
<1>3. TypeOK'
  BY <1>1, <1>2 DEF TypeOK
<1>4. ListsOK'
  BY <1>1, <1>2 DEF ListsOK
<1>5. StaysUntilRemoved'
  BY <1>1, <1>2 DEF StaysUntilRemoved
<1>6. Owed'
  BY <1>1 DEF Owed
<1>7. QED
  BY <1>3, <1>4, <1>5, <1>6 DEF IInv

LEMMA RemoveAllKeeps ==
    ASSUME IInv, removeAllListeners
    PROVE  IInv'
<1>1. /\ TypeOK /\ ListsOK /\ Owed /\ StaysUntilRemoved
      /\ registry' = << >> /\ removed' = removed \cup ToSet(registry)
      /\ UNCHANGED <<stack, listener, once, added, emits, calls, due>>
      /\ 1..added \subseteq Added
  BY SMTT(30), BoundsAreNat DEF IInv, TypeOK, removeAllListeners, Added
<1>2. registry' \in Seq(Added) /\ Len(registry') = 0 /\ ToSet(registry') = {}
  BY <1>1 DEF ToSet
<1>3. ToSet(registry) \subseteq Added
  BY <1>1 DEF ListsOK
<1>4. TypeOK'
  BY <1>1, <1>2, <1>3 DEF TypeOK
<1>5. ListsOK'
  BY <1>1, <1>2 DEF ListsOK, InOrder
<1>6. Owed' /\ StaysUntilRemoved'
  BY <1>1 DEF Owed, StaysUntilRemoved
<1>7. QED
  BY <1>4, <1>5, <1>6 DEF IInv

LEMMA EmitKeeps ==
    ASSUME IInv, emit
    PROVE  IInv'
<1>1. /\ TypeOK /\ ListsOK /\ Owed /\ StaysUntilRemoved
      /\ registry # << >> /\ emits' = emits + 1 /\ emits < MaxEmits
      /\ due' = [r \in Added |-> due[r] + IF r \in ToSet(registry) THEN 1 ELSE 0]
      /\ turn(registry, stack) /\ UNCHANGED <<listener, once, added, removed>>
  BY DEF IInv, emit
<1>2. /\ registry \in Seq(Added) /\ InOrder(registry) /\ ToSet(registry) \subseteq 1..added
      /\ stack \in Seq(Seq(Added))
      /\ \A i \in 1..Len(stack) : InOrder(stack[i]) /\ ToSet(stack[i]) \subseteq 1..added
  BY <1>1 DEF TypeOK, ListsOK
<1>3. /\ registry' \in Seq(Added) /\ stack' \in Seq(Seq(Added)) /\ calls' \in [Added -> Nat]
      /\ ListsOK' /\ StaysUntilRemoved'
      /\ \A r \in Added : calls'[r] + Cardinality(Owing(r, stack'))
            = calls[r] + Cardinality(Owing(r, stack)) + (IF r \in ToSet(registry) THEN 1 ELSE 0)
  BY <1>1, <1>2, TurnKeeps
<1>4. due' \in [Added -> Nat]
  BY <1>1 DEF TypeOK
<1>5. TypeOK'
  BY <1>1, <1>3, <1>4, BoundsAreNat DEF TypeOK
<1>6. Owed'
  BY <1>1, <1>3 DEF Owed
<1>7. QED
  BY <1>3, <1>5, <1>6 DEF IInv

LEMMA CallNextKeeps ==
    ASSUME IInv, callNext
    PROVE  IInv'
<1>1. /\ TypeOK /\ ListsOK /\ Owed /\ StaysUntilRemoved
      /\ stack # << >> /\ Head(stack) # << >> /\ turn(Head(stack), Tail(stack))
      /\ UNCHANGED <<listener, once, added, emits, removed, due>> /\ stack \in Seq(Seq(Added))
  BY DEF IInv, callNext, TypeOK
<1>2. /\ Head(stack) \in Seq(Added) /\ Tail(stack) \in Seq(Seq(Added))
      /\ InOrder(Head(stack)) /\ ToSet(Head(stack)) \subseteq 1..added
      /\ \A i \in 1..Len(Tail(stack)) :
            InOrder(Tail(stack)[i]) /\ ToSet(Tail(stack)[i]) \subseteq 1..added
      /\ \A r \in Added : Cardinality(Owing(r, stack)) = Cardinality(Owing(r, Tail(stack)))
                                      + (IF r \in ToSet(Head(stack)) THEN 1 ELSE 0)
      /\ \A r \in Added : Cardinality(Owing(r, Tail(stack))) \in Nat
  BY <1>1, OwingHead DEF ListsOK
<1>3. /\ registry' \in Seq(Added) /\ stack' \in Seq(Seq(Added)) /\ calls' \in [Added -> Nat]
      /\ ListsOK' /\ StaysUntilRemoved'
      /\ \A r \in Added : calls'[r] + Cardinality(Owing(r, stack'))
            = calls[r] + Cardinality(Owing(r, Tail(stack)))
              + (IF r \in ToSet(Head(stack)) THEN 1 ELSE 0)
  BY <1>1, <1>2, TurnKeeps
<1>4. TypeOK'
  BY <1>1, <1>3 DEF TypeOK
<1>5. \A r \in Added : calls[r] \in Nat
  BY <1>1 DEF TypeOK
<1>6. Owed'
  <2>1. ASSUME NEW r \in Added
        PROVE  due'[r] = calls'[r] + Cardinality(Owing(r, stack'))
    <3>1. due'[r] = calls[r] + Cardinality(Owing(r, stack))
      BY <1>1 DEF Owed
    <3>2. Cardinality(Owing(r, stack)) = Cardinality(Owing(r, Tail(stack)))
                                         + (IF r \in ToSet(Head(stack)) THEN 1 ELSE 0)
          /\ Cardinality(Owing(r, Tail(stack))) \in Nat
      BY <1>2
    <3>3. calls'[r] + Cardinality(Owing(r, stack'))
            = calls[r] + Cardinality(Owing(r, Tail(stack)))
              + (IF r \in ToSet(Head(stack)) THEN 1 ELSE 0)
      BY <1>3
    <3>4. CASE r \in ToSet(Head(stack))
      BY <1>5, <3>1, <3>2, <3>3, <3>4
    <3>5. CASE r \notin ToSet(Head(stack))
      BY <1>5, <3>1, <3>2, <3>3, <3>5
    <3>6. QED
      BY <3>4, <3>5
  <2>2. QED
    BY <2>1 DEF Owed
<1>7. QED
  BY <1>3, <1>4, <1>6 DEF IInv

\* A throw ends the k innermost emits, and what they owed is owed no more.
LEMMA ListenerThrowsKeeps ==
    ASSUME IInv, listenerThrows
    PROVE  IInv'
<1>1. /\ TypeOK /\ ListsOK /\ Owed /\ StaysUntilRemoved /\ stack \in Seq(Seq(Added))
      /\ UNCHANGED <<registry, listener, once, added, emits, calls, removed>>
      /\ Len(stack) \in Nat
  BY DEF IInv, listenerThrows, TypeOK
<1>2. PICK k \in 1..Len(stack) :
        /\ stack' = SubSeq(stack, k + 1, Len(stack))
        /\ due' = [r \in Added |-> due[r] - Cardinality(Near(r, stack, k))]
  BY DEF listenerThrows, Near
<1> DEFINE rest == SubSeq(stack, k + 1, Len(stack))
<1>3. k \in Nat /\ k + 1 \in Int /\ Len(stack) \in Int
      /\ \A i \in (k + 1)..Len(stack) : stack[i] \in Seq(Added)
  BY <1>1
<1>4. /\ rest \in Seq(Seq(Added))
      /\ Len(rest) = IF k + 1 <= Len(stack) THEN Len(stack) - (k + 1) + 1 ELSE 0
      /\ \A i \in 1..(Len(stack) - (k + 1) + 1) : rest[i] = stack[(k + 1) + i - 1]
  BY <1>3, SubSeqProperties, SMT
<1> HIDE DEF rest
<1>5. Len(stack) = k + Len(rest)
  <2>1. CASE k + 1 <= Len(stack)
    BY <1>1, <1>3, <1>4, <2>1
  <2>2. CASE ~(k + 1 <= Len(stack))
    BY <1>1, <1>3, <1>4, <2>2
  <2>3. QED
    BY <2>1, <2>2
<1>6. \A i \in 1..Len(rest) : i + k \in 1..Len(stack) /\ rest[i] = stack[i + k]
  <2>1. ASSUME NEW i \in 1..Len(rest) PROVE i + k \in 1..Len(stack) /\ rest[i] = stack[i + k]
    <3>1. Len(rest) \in Nat
      BY <1>4
    <3>2. i \in 1..(Len(stack) - (k + 1) + 1) /\ (k + 1) + i - 1 = i + k /\ i + k \in 1..Len(stack)
      BY <1>1, <1>3, <1>5, <3>1
    <3>3. QED
      BY <1>4, <3>2
  <2>2. QED
    BY <2>1
<1>7. stack' = rest
  BY <1>2 DEF rest
<1>8. \A r \in Added : /\ Cardinality(Near(r, stack, k)) \in Nat
                       /\ Cardinality(Owing(r, rest)) \in Nat
                       /\ Cardinality(Owing(r, stack)) = Cardinality(Near(r, stack, k))
                                                         + Cardinality(Owing(r, rest))
  <2>1. ASSUME NEW r \in Added
        PROVE  /\ Cardinality(Near(r, stack, k)) \in Nat
               /\ Cardinality(Owing(r, rest)) \in Nat
               /\ Cardinality(Owing(r, stack)) = Cardinality(Near(r, stack, k))
                                                 + Cardinality(Owing(r, rest))
    <3>1. /\ k \in Nat /\ stack \in Seq(Seq(Added)) /\ rest \in Seq(Seq(Added))
          /\ Beyond(k, stack, rest)
      BY <1>1, <1>3, <1>4, <1>5, <1>6 DEF Beyond
    <3>2. QED
      BY ONLY <3>1, OwingSplits
  <2>2. QED
    BY <2>1
<1>9. \A r \in Added : due'[r] = calls[r] + Cardinality(Owing(r, rest))
                       /\ due'[r] \in Nat
  <2>1. ASSUME NEW r \in Added
        PROVE  due'[r] = calls[r] + Cardinality(Owing(r, rest)) /\ due'[r] \in Nat
    <3>1. due'[r] = due[r] - Cardinality(Near(r, stack, k))
      BY <1>2
    <3>2. due[r] = calls[r] + Cardinality(Owing(r, stack)) /\ calls[r] \in Nat
      BY <1>1 DEF Owed, TypeOK
    <3>3. QED
      BY <1>8, <3>1, <3>2
  <2>2. QED
    BY <2>1
<1>10. due' \in [Added -> Nat]
  BY <1>2, <1>9
<1>11. TypeOK'
  BY <1>1, <1>4, <1>7, <1>10 DEF TypeOK
<1>12. ListsOK'
  BY <1>1, <1>6, <1>7 DEF ListsOK
<1>13. StaysUntilRemoved'
  BY <1>1 DEF StaysUntilRemoved
<1>14. Owed'
  BY <1>1, <1>7, <1>9 DEF Owed
<1>15. QED
  BY <1>11, <1>12, <1>13, <1>14 DEF IInv

LEMMA EmitReturnsKeeps ==
    ASSUME IInv, emitReturns
    PROVE  IInv'
<1>1. /\ TypeOK /\ ListsOK /\ Owed /\ StaysUntilRemoved /\ stack \in Seq(Seq(Added))
      /\ stack # << >> /\ Head(stack) = << >> /\ stack' = Tail(stack)
      /\ UNCHANGED <<registry, listener, once, added, emits, calls, removed, due>>
  BY DEF IInv, emitReturns, TypeOK
<1>2. ToSet(Head(stack)) = {}
  BY <1>1 DEF ToSet
<1>3. /\ Tail(stack) \in Seq(Seq(Added))
      /\ \A i \in 1..Len(Tail(stack)) :
            InOrder(Tail(stack)[i]) /\ ToSet(Tail(stack)[i]) \subseteq 1..added
      /\ \A r \in Added : Cardinality(Owing(r, stack)) = Cardinality(Owing(r, Tail(stack)))
  BY SMTT(30), <1>1, <1>2, OwingHead DEF ListsOK
<1>4. TypeOK'
  BY <1>1, <1>3 DEF TypeOK
<1>5. ListsOK'
  BY <1>1, <1>3 DEF ListsOK
<1>6. Owed' /\ StaysUntilRemoved'
  BY <1>1, <1>3 DEF Owed, StaysUntilRemoved
<1>7. QED
  BY <1>4, <1>5, <1>6 DEF IInv

LEMMA StepKeeps == IInv /\ [Next]_vars => IInv'
<1> SUFFICES ASSUME IInv, [Next]_vars PROVE IInv'
  OBVIOUS
<1>1. CASE \E f \in Listeners, isOnce \in BOOLEAN : register(f, isOnce)
  BY <1>1, RegisterKeeps
<1>2. CASE \E f \in Listeners : removeListener(f)
  BY <1>2, RemoveListenerKeeps
<1>3. CASE removeAllListeners
  BY <1>3, RemoveAllKeeps
<1>4. CASE emit
  BY <1>4, EmitKeeps
<1>5. CASE callNext
  BY <1>5, CallNextKeeps
<1>6. CASE listenerThrows
  BY <1>6, ListenerThrowsKeeps
<1>7. CASE emitReturns
  BY <1>7, EmitReturnsKeeps
<1>8. CASE UNCHANGED vars
  BY <1>8 DEF vars, IInv, TypeOK, ListsOK, InOrder, Owed, Owing, StaysUntilRemoved
<1>9. QED
  BY <1>1, <1>2, <1>3, <1>4, <1>5, <1>6, <1>7, <1>8 DEF Next

LEMMA Invariant == Spec => []IInv
<1>1. IInv /\ [Next]_vars => IInv'
  BY StepKeeps
<1>2. QED
  BY <1>1, InitKeeps, PTL DEF Spec

-----------------------------------------------------------------------------
(* Theorems *)

\* The emitter's state has its types: what is snapshotted and what is registered
\* are registrations that were made, and no emit is owed a negative number of calls.
THEOREM TypeCorrect == Spec => []TypeOK
<1>1. IInv => TypeOK
  BY DEF IInv
<1>2. QED
  BY <1>1, Invariant, PTL

\* However emits nest, throw and change the list from within, each registration is
\* called by exactly the emits that found it there, even where a function is
\* registered twice.
THEOREM EmitsCallTheirSnapshot == Spec => []CallsAreDue
<1>1. IInv => CallsAreDue
  <2> SUFFICES ASSUME IInv, stack = << >>, NEW r \in Added PROVE calls[r] = due[r]
    BY DEF CallsAreDue
  <2>1. Owing(r, stack) = {}
    BY DEF Owing
  <2>2. Cardinality(Owing(r, stack)) = 0
    BY <2>1, FS_EmptySet
  <2>3. QED
    BY <2>2 DEF IInv, Owed, TypeOK
<1>2. QED
  BY <1>1, Invariant, PTL

\* ... and one made with on() stays until a caller removes it, as long as its function
\* was not called for a once(): detaching looks for a function and takes the first
\* registration of it, which need not be the one that is to go.
THEOREM EveryEmitCalls == Spec => []CalledByEveryEmit
<1>1. IInv => StaysUntilRemoved
  BY DEF IInv
<1>2. Spec => []CallsAreDue
  BY EmitsCallTheirSnapshot
<1>3. CallsAreDue /\ StaysUntilRemoved => CalledByEveryEmit
  BY DEF CalledByEveryEmit
<1>4. QED
  BY <1>1, <1>2, <1>3, Invariant, PTL
=============================================================================
