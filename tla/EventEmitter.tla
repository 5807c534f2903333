----------------------------- MODULE EventEmitter -----------------------------
(***************************************************************************)
(* MqlEventEmitter (client/event-emitter.ts) for one event: registrations, *)
(* and emits, which a listener may start from within its own call. emit is *)
(* synchronous, so what is under way is a stack.                           *)
(***************************************************************************)
EXTENDS Naturals, Sequences, FiniteSets, SequencesExt

CONSTANTS
    Listeners,      \* functions
    MaxAdded,       \* bound: registrations made
    MaxEmits,       \* bound: emits started
    EmitsWithin     \* may a listener emit the event?

ASSUME BoundsAreNat == MaxAdded \in Nat /\ MaxEmits \in Nat
ASSUME SwitchIsBoolean == EmitsWithin \in BOOLEAN

Added == 1..MaxAdded        \* registrations, in the order they were made

VARIABLES
    registry,   \* the registrations of the event, in order
    stack,      \* the emits under way, innermost first: what each has yet to call
    listener,   \* per registration: its function
    once,       \* per registration: its `once`
    added,      \* registrations made
    emits,      \* emits started
    calls,      \* history: how often each registration has been called
    removed,    \* history: registrations a caller asked to be removed
    due         \* history: calls each registration was owed: the emits that
                \*          started while it was registered, less those a throw ended

vars == <<registry, stack, listener, once, added, emits, calls, removed, due>>

TypeOK ==
    /\ registry \in Seq(Added)
    /\ stack \in Seq(Seq(Added))
    /\ listener \in [Added -> Listeners]
    /\ once \in [Added -> BOOLEAN]
    /\ added \in 0..MaxAdded
    /\ emits \in 0..MaxEmits
    /\ calls \in [Added -> Nat]
    /\ removed \subseteq Added
    /\ due \in [Added -> Nat]

Init ==
    /\ registry = << >>
    /\ stack = << >>
    /\ \E f \in Listeners : listener = [r \in Added |-> f]
    /\ once = [r \in Added |-> FALSE]
    /\ added = 0
    /\ emits = 0
    /\ calls = [r \in Added |-> 0]
    /\ removed = {}
    /\ due = [r \in Added |-> 0]

\* Code runs at the top level, or within the listener the innermost emit called last.
\* A function may be registered that is registered already, by on() or by once().
register(f, isOnce) ==
    /\ added < MaxAdded
    /\ added' = added + 1
    /\ registry' = Append(registry, added + 1)
    /\ listener' = [listener EXCEPT ![added + 1] = f]
    /\ once' = [once EXCEPT ![added + 1] = isOnce]
    /\ UNCHANGED <<stack, emits, calls, removed, due>>

\* The first registration of the function, whatever kind it is.
first(f) ==
    LET at == {i \in 1..Len(registry) : listener[registry[i]] = f}
    IN  IF at = {} THEN 0 ELSE CHOOSE i \in at : \A j \in at : i <= j

without(f) == IF first(f) = 0 THEN registry ELSE RemoveAt(registry, first(f))

removeListener(f) ==
    /\ first(f) # 0
    /\ registry' = without(f)
    /\ removed' = removed \cup {registry[first(f)]}
    /\ UNCHANGED <<stack, listener, once, added, emits, calls, due>>

removeAllListeners ==
    /\ registry # << >>
    /\ registry' = << >>
    /\ removed' = removed \cup ToSet(registry)
    /\ UNCHANGED <<stack, listener, once, added, emits, calls, due>>

\* Mutant: a registration that has been removed meanwhile is passed over.
turn_live(left, under) ==
    LET r == Head(left) IN
    /\ IF r \in ToSet(registry)
       THEN /\ registry' = (IF once[r] THEN without(listener[r]) ELSE registry)
            /\ calls' = [calls EXCEPT ![r] = @ + 1]
       ELSE UNCHANGED <<registry, calls>>
    /\ stack' = <<Tail(left)>> \o under

\* One turn of emit's loop: a `once` is detached, then the listener is called.
turn(left, under) ==
    LET r == Head(left) IN
    /\ registry' = (IF once[r] THEN without(listener[r]) ELSE registry)
    /\ calls' = [calls EXCEPT ![r] = @ + 1]
    /\ stack' = <<Tail(left)>> \o under

\* The registrations are snapshotted, and the first turn is taken.
emit ==
    /\ emits < MaxEmits
    /\ registry # << >>
    /\ EmitsWithin \/ stack = << >>
    /\ emits' = emits + 1
    /\ due' = [r \in Added |-> due[r] + IF r \in ToSet(registry) THEN 1 ELSE 0]
    /\ turn(registry, stack)
    /\ UNCHANGED <<listener, once, added, removed>>

\* The listener returns, and the next turn is taken.
callNext ==
    /\ stack # << >>
    /\ Head(stack) # << >>
    /\ turn(Head(stack), Tail(stack))
    /\ UNCHANGED <<listener, once, added, emits, removed, due>>

\* It throws instead: the emit is over, and so are those the exception leaves
\* through, up to a listener that catches it.
listenerThrows ==
    \E k \in 1..Len(stack) :
        /\ stack' = SubSeq(stack, k + 1, Len(stack))
        /\ due' = [r \in Added |->
                      due[r] - Cardinality({i \in 1..k : r \in ToSet(stack[i])})]
        /\ UNCHANGED <<registry, listener, once, added, emits, calls, removed>>

emitReturns ==
    /\ stack # << >>
    /\ Head(stack) = << >>
    /\ stack' = Tail(stack)
    /\ UNCHANGED <<registry, listener, once, added, emits, calls, removed, due>>

Next ==
    \/ \E f \in Listeners :
          \/ \E isOnce \in BOOLEAN : register(f, isOnce)
          \/ removeListener(f)
    \/ removeAllListeners \/ emit \/ callNext \/ listenerThrows \/ emitReturns

Spec == Init /\ [][Next]_vars

-----------------------------------------------------------------------------
(* Properties *)

\* When no emit is under way, every registration has been called by each emit that
\* started while it was there and that no listener ended by throwing, and by no
\* other, whatever was added and removed from within those calls.
CallsAreDue == stack = << >> => \A r \in Added : calls[r] = due[r]

\* A registration made with on() is there until a caller removes it, but where its
\* function has also been called for a once(): that detaches the first registration
\* of the function there is, which an emit that is over or a caller may have left
\* to be another one.
StaysUntilRemoved ==
    \A r \in 1..added :
        \/ once[r] \/ r \in removed
        \/ r \in ToSet(registry)
        \/ \E o \in 1..added : once[o] /\ listener[o] = listener[r] /\ calls[o] > 0

\* "A listener that subscribes or unsubscribes changes only later emits", also where
\* it emits or throws, or where one function is registered several times; and nothing
\* but a caller's removal ends a subscription, of a function nobody gave to once().
CalledByEveryEmit == CallsAreDue /\ StaysUntilRemoved

\* "Add `listener` for the next `event` only": what emits that nest, or a function
\* that is registered twice, do not keep.
OnceIsCalledOnce == \A r \in 1..added : once[r] => calls[r] <= 1
=============================================================================
