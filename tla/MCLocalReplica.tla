--------------------------- MODULE MCLocalReplica ----------------------------
(***************************************************************************)
(* The instance of LocalReplica for TLC.                                   *)
(***************************************************************************)
EXTENDS LocalReplica

op(kind, id) == [table |-> LocalTable, id |-> id, kind |-> kind]
Foreign(id) == [table |-> "tags", id |-> id, kind |-> "Upsert"]

MCBatches ==
  { <<op("Upsert", 1)>>, <<op("CrdtPatch", 1)>>, <<op("Upsert", 2), op("Upsert", 1)>>,
    <<op("Upsert", 2), op("Delete", 1)>>,     <<op("Upsert", 1), Foreign(2)>> }

\* Batches in which a deletion follows two other ops.
LongBatches == { <<op("Upsert", 2), op("Upsert", 3), op("Delete", 1)>>, <<op("Upsert", 1)>> }

First == [field |-> "id", op |-> "lte", value |-> 1]
Unpatched == [field |-> "crdt_state", op |-> "isNull"]
MCQueries ==
  { [filter |-> [logic |-> "or", clauses |-> {First, Unpatched}], sort |-> "desc", limit |-> 1],
    [filter |-> NoFilter, sort |-> "asc", limit |-> 2],
    [filter |-> [logic |-> "and", clauses |-> {First, Unpatched}], sort |-> "asc", limit |-> 1] }

\* A filter with a nested group.
NestedQueries ==
  { [filter |-> [logic |-> "and", clauses |-> {[logic |-> "or", clauses |-> {First}]}],
     sort |-> "asc", limit |-> 2] }
=============================================================================
