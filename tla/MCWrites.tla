------------------------------ MODULE MCWrites ------------------------------
(* Instances of Writes for TLC: two documents a and b, each pending or      *)
(* taken, and the ids that upserts generate.                               *)
EXTENDS Writes

CONSTANTS c1, c2, a, b, pending, taken

MCClients   == {c1, c2}
MCIds       == {a, b} \cup (MCClients \X Positions)
MCValues    == {pending, taken}
MCGenerated == [c \in MCClients |-> [i \in Positions |-> <<c, i>>]]

lone(m) == bulkWrite(<<m>>, TRUE)
new(d)  == insertOne(d, pending)

\* Calls whose upserts generate their document's id, or create it.
MCCalls ==
    { insertMany(s, o) : s \in {<<new(a), new(b)>>, <<new(b)>>}, o \in BOOLEAN }
    \cup { bulkWrite(<<new(a), updateOne({a, b}, {pending}, taken, FALSE),
                       deleteOne({b}, {pending})>>, o) : o \in BOOLEAN }
    \cup { lone(findOneAndUpdate({a, b}, {pending}, taken, TRUE)),
           lone(findOneAndDelete({a, b}, {pending})),
           lone(replaceOne({a}, {pending}, taken, TRUE)),
           lone(updateMany(MCIds, {pending}, taken, TRUE)),
           lone(deleteMany(MCIds, {pending})) }

\* An update that upserts under an _id its filter names.
MCPinnedCalls == { lone(updateOne({a}, {pending}, taken, TRUE)), lone(new(a)) }

\* A batch whose answer may be lost.
MCBatchCalls == { insertMany(<<new(a), new(b)>>, TRUE) }
=============================================================================
