--------------------------- MODULE MCTranslation ---------------------------
(***************************************************************************)
(* A call is built up a step at a time: a filter, an update, an update     *)
(* that upserts under a filter, a read, an aggregation expression or a     *)
(* pipeline. In every state the translators' answer is compared with       *)
(* MongoDB's over a collection of documents.                               *)
(***************************************************************************)
EXTENDS MCUpdate, MCReads, MCAggregate

\* bounds: the steps each is built in
CONSTANTS FilterSteps, UpdateSteps, ReadSteps, ExpressionSteps, PipelineSteps

ASSUME {FilterSteps, UpdateSteps, ReadSteps, ExpressionSteps, PipelineSteps} \subseteq Nat

VARIABLE steps
calls == <<filter, update, find, expression, pipeline>>
vars  == <<calls, steps>>

Init == /\ filter = <<>> /\ update = <<>> /\ find = NoRead
        /\ expression = NoExpression /\ pipeline = <<>>
        /\ steps = 0

step(bound) == steps < bound /\ steps' = steps + 1

writesFilter ==
    /\ step(FilterSteps)
    /\ update = <<>> /\ find = NoRead /\ expression = NoExpression /\ pipeline = <<>>
    /\ buildsFilter
    /\ UNCHANGED <<update, find, expression, pipeline>>
writesUpdate ==
    /\ step(UpdateSteps)
    /\ filter = <<>> /\ find = NoRead /\ expression = NoExpression /\ pipeline = <<>>
    /\ buildsUpdate
    /\ UNCHANGED <<filter, find, expression, pipeline>>
upserts ==
    /\ step(UpdateSteps)
    /\ filter = <<>> /\ update # <<>>
    /\ filter' \in UpsertFilters
    /\ UNCHANGED <<update, find, expression, pipeline>>
writesRead ==
    /\ step(ReadSteps)
    /\ filter = <<>> /\ update = <<>> /\ expression = NoExpression /\ pipeline = <<>>
    /\ buildsRead
    /\ UNCHANGED <<filter, update, expression, pipeline>>
writesExpression ==
    /\ step(ExpressionSteps)
    /\ filter = <<>> /\ update = <<>> /\ find = NoRead /\ pipeline = <<>>
    /\ buildsExpression
    /\ UNCHANGED <<filter, update, find, pipeline>>
writesPipeline ==
    /\ step(PipelineSteps)
    /\ filter = <<>> /\ update = <<>> /\ find = NoRead /\ expression = NoExpression
    /\ buildsPipeline
    /\ UNCHANGED <<filter, update, find, expression>>

Next == \/ writesFilter \/ writesUpdate \/ upserts \/ writesRead
        \/ writesExpression \/ writesPipeline
Spec == Init /\ [][Next]_vars
=============================================================================
