---------------------------- MODULE MongoUpdate ----------------------------
(***************************************************************************)
(* What MongoDB makes of a document: the specification Update is checked   *)
(* against. Every change is made to the document as it was, and changes    *)
(* that overlap, or that a value does not allow, raise. Updates are        *)
(* written as in Update.                                                   *)
(***************************************************************************)
EXTENDS MongoQuery, Update

RAISES == <<"raises", 0>>

\* Whether an element meets the conditions put on it.
meets(item, conditions) ==
    \A k \in DOMAIN conditions :
        LET xs == reached(item, conditions[k][1])
        IN  satisfies(xs, spread(xs), conditions[k][2])

isPulled(x, condition) ==
    CASE condition[1] = "value" -> x = condition[2]
      [] condition[1] = "where" -> satisfies({x}, spread({x}), condition[2])
      [] condition[1] = "fields" -> isType(x, "object") /\ meets(x, condition[2])

insertAt(s, at, new) ==
    LET i == IF at < 0 THEN IF Len(s) + at > 0 THEN Len(s) + at ELSE 0
             ELSE IF at < Len(s) THEN at ELSE Len(s)
    IN  SubSeq(s, 1, i) \o new \o SubSeq(s, i + 1, Len(s))

pushed(s, mods) ==
    LET has(m) == m \in DOMAIN mods
        placed == insertAt(s, IF has("$position") THEN mods["$position"] ELSE Len(s),
                           mods["$each"][2])
        ordered == IF has("$sort")
                   THEN SortSeq(placed, LAMBDA x, y : IF mods["$sort"] = 1 THEN below(x, y)
                                                      ELSE below(y, x))
                   ELSE placed
        n == IF has("$slice") THEN mods["$slice"] ELSE Len(ordered)
        least(x, y) == IF x < y THEN x ELSE y
    IN  IF n >= 0 THEN SubSeq(ordered, 1, least(n, Len(ordered)))
        ELSE SubSeq(ordered, Len(ordered) + 1 - least(-n, Len(ordered)), Len(ordered))

\* The sequence an array operator makes of another.
rebuilt(op, w, s) ==
    CASE op = "$push" -> IF w[1] = "one" THEN Append(s, w[2]) ELSE pushed(s, w[2])
      [] op = "$addToSet" ->
           FoldLeft(LAMBDA t, x : IF Contains(t, x) THEN t ELSE Append(t, x), s,
                    IF w[1] = "one" THEN <<w[2]>> ELSE w[2][2])
      [] op = "$pull"    -> SelectSeq(s, LAMBDA x : ~isPulled(x, w))
      [] op = "$pullAll" -> SelectSeq(s, LAMBDA x : x \notin elements(w))
      [] op = "$pop" -> IF s = <<>> THEN s ELSE IF w = -1 THEN Tail(s) ELSE Front(s)

mongoBecomes(op, w, v) ==
    LET numeric == v = NONE \/ isType(v, "number") IN
    CASE op = "$set"   -> w
      [] op = "$unset" -> NONE
      [] op = "$currentDate" -> NOW
      [] op = "$inc"   -> IF ~numeric THEN RAISES
                          ELSE number(w[2] + (IF v = NONE THEN 0 ELSE v[2]))
      [] op = "$mul"   -> IF ~numeric THEN RAISES
                          ELSE number(IF v = NONE THEN 0 ELSE (v[2] * w[2]) \div 2)
      [] op = "$min"   -> IF v = NONE \/ below(w, v) THEN w ELSE v
      [] op = "$max"   -> IF v = NONE \/ below(v, w) THEN w ELSE v
      [] v = NONE /\ op \notin {"$push", "$addToSet"} -> NONE
      [] v # NONE /\ ~isArray(v) -> RAISES
      [] OTHER -> array(rebuilt(op, w, IF v = NONE THEN <<>> ELSE v[2]))

\* A change is <<path, operator, operand>>; several are a set.
below1(changes, name) == { <<Tail(c[1]), c[2], c[3]>> : c \in { d \in changes : Head(d[1]) = name } }
never(op) == op \in {"$unset", "$pull", "$pullAll", "$pop"}       \* creates a field

RECURSIVE changed(_, _, _)
changed(v, changes, arrayFilters) ==
    LET heads == { Head(c[1]) : c \in changes }
        meant(m, item) == m = "$[]" \/ meets(item, resolveArrayFilter(m, arrayFilters))
        entry(item) ==
          LET new == changed(item, UNION { below1(changes, m) : m \in { n \in heads : meant(n, item) } },
                             arrayFilters)
          IN  IF new = NONE THEN NULL ELSE new
        held == IF isType(v, "object") THEN v[2] ELSE <<>>
        new(n) == IF n \in heads THEN changed(member(v, n), below1(changes, n), arrayFilters)
                  ELSE held[n]
        kept == { n \in heads \cup DOMAIN held : new(n) # NONE }
    IN  IF changes = {} THEN v
        ELSE IF \E c \in changes : c[1] = <<>>
        THEN IF Cardinality(changes) > 1 THEN RAISES
             ELSE LET c == CHOOSE d \in changes : TRUE IN mongoBecomes(c[2], c[3], v)
        ELSE IF heads \cap Markers # {}
        THEN IF ~isArray(v) \/ ~(heads \subseteq Markers) THEN RAISES
             ELSE LET made == [i \in DOMAIN v[2] |-> entry(v[2][i])]
                  IN  IF RAISES \in Range(made) THEN RAISES ELSE array(made)
        ELSE IF v # NONE /\ ~isType(v, "object")
        THEN IF \A c \in changes : never(c[2]) THEN v ELSE RAISES
        ELSE IF RAISES \in { new(n) : n \in heads } THEN RAISES
        ELSE IF v = NONE /\ kept = {} THEN NONE
        ELSE object([n \in kept |-> new(n)])

\* A $rename is the removal of one field and the setting of another.
changesOf(update, doc, inserts) ==
    LET us == assignments(update) IN
    UNION { LET u == us[i] IN
            CASE u[1] = "$setOnInsert" -> IF inserts THEN {<<u[2], "$set", u[3]>>} ELSE {}
              [] u[1] = "$rename" -> IF read(doc, u[2]) = NONE THEN {}
                                     ELSE {<<u[2], "$unset", NONE>>, <<u[3], "$set", read(doc, u[2])>>}
              [] OTHER -> {<<u[2], u[1], u[3]>>} : i \in DOMAIN us }

\* Two changes at or around one path raise, and so do several that are alike.
overlap(update) ==
    LET us == assignments(update)
        paths == FlattenSeq([i \in DOMAIN us |->
                    IF us[i][1] = "$rename" THEN <<us[i][2], us[i][3]>> ELSE <<us[i][2]>>])
    IN  \E i, k \in DOMAIN paths : i # k /\ IsPrefix(paths[i], paths[k])

\* An _id is never assigned.
writesId(update) ==
    LET us == assignments(update) IN
    \E i \in DOMAIN us : us[i][2] = <<"_id">> \/ (us[i][1] = "$rename" /\ us[i][3] = <<"_id">>)

\* A $rename goes through documents alone.
renamesInArray(update, doc) ==
    LET us == assignments(update) IN
    \E i \in DOMAIN us : /\ us[i][1] = "$rename"
                        /\ \E p \in {us[i][2], us[i][3]} : \E n \in 1..(Len(p) - 1) :
                              isArray(read(doc, SubSeq(p, 1, n)))

mongoUpdate(update, doc, arrayFilters, inserts) ==
    IF overlap(update) \/ writesId(update) \/ renamesInArray(update, doc) THEN RAISES
    ELSE changed(doc, changesOf(update, doc, inserts), arrayFilters)

\* An upsert that inserts: the update, made to the filter's equalities.
mongoUpsert(filter, update, arrayFilters, generated) ==
    LET seed == seedFromFilter(filter)
        id == IF <<"_id">> \in DOMAIN seed THEN seed[<<"_id">>] ELSE generated
        start == FoldLeft(LAMBDA doc, e : assign(doc, e[1], e[2]), object("id" :> record(id)),
                          SelectSeq(entriesOf(seed), LAMBDA e : e[1] # <<"_id">>))
    IN  mongoUpdate(update, start, arrayFilters, TRUE)
=============================================================================
