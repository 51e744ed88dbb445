----------------------------- MODULE ListQuery -------------------------------
(***************************************************************************)
(* What list() of pem-transport.ts asks of the local table: compileFilter,  *)
(* clauseToSql and compileSort, and what SQL makes of the query they build. *)
(* A filter is [logic, clauses]; a clause is [field, op, value], or a group *)
(* of clauses (a nested FilterGroup).  A row is a function of its columns.  *)
(***************************************************************************)
EXTENDS Integers, Sequences, FiniteSets

CONSTANT Null   \* SQL NULL

NoFilter == [logic |-> "and", clauses |-> {}]
IsGroup(c) == "logic" \in DOMAIN c

\* The truth of one clause on a row, as SQL has it: a comparison with NULL is
\* not true.  The value of a pattern clause is the set of texts ILIKE matches,
\* that of "in" the array given to ANY.
ClauseHolds(c, row) ==
  LET v == row[c.field] IN
  CASE c.op = "isNull" -> v = Null
    [] c.op = "isNotNull" -> v # Null
    [] OTHER ->
         /\ v # Null
         /\ CASE c.op = "eq" -> v = c.value
              [] c.op = "neq" -> v # c.value
              [] c.op = "gt" -> v > c.value
              [] c.op = "gte" -> v >= c.value
              [] c.op = "lt" -> v < c.value
              [] c.op = "lte" -> v <= c.value
              [] OTHER -> v \in c.value

\* clauseToSql answers null for a predicate that only the caller can evaluate.
Translatable(c) == ~IsGroup(c) /\ c.op # "custom"

-----------------------------------------------------------------------------
(* A faulty variant of the definition below.                               *)

\* Fragments of an "or" group that are joined with AND.
BadCompileFilter(filter) ==
  [logic |-> "and", clauses |-> {c \in filter.clauses : Translatable(c)}]

-----------------------------------------------------------------------------

\* compileFilter: the WHERE clause is the fragments of the translatable
\* clauses joined by OR or AND; there is none when nothing is left.
CompileFilter(filter) ==
  LET fragments == {c \in filter.clauses : Translatable(c)} IN
  [logic |-> IF filter.logic = "or" /\ fragments # {} THEN "or" ELSE "and",
   clauses |-> fragments]

\* The rows a WHERE clause selects.
Selects(where, row) ==
  IF where.logic = "or" THEN \E c \in where.clauses : ClauseHolds(c, row)
                        ELSE \A c \in where.clauses : ClauseHolds(c, row)

\* What the filter means, nested groups included.
Satisfies(filter, row) ==
  LET holds(c) == IF IsGroup(c) THEN Selects(c, row) ELSE ClauseHolds(c, row) IN
  IF filter.logic = "or" THEN \E c \in filter.clauses : holds(c)
                         ELSE \A c \in filter.clauses : holds(c)

\* compileSort on the primary key; without a sort there is no ORDER BY, and
\* the rows come in any order.
Orders(sort, ids) ==
  LET asc == [k \in 1..Cardinality(ids) |->
                CHOOSE i \in ids : Cardinality({j \in ids : j < i}) = k - 1]
      desc == [k \in 1..Cardinality(ids) |-> asc[Cardinality(ids) + 1 - k]]
  IN CASE sort = "asc" -> {asc} [] sort = "desc" -> {desc} [] OTHER -> {asc, desc}

\* LIMIT and OFFSET, and the cursor of the next page: offset + limit after a
\* full page, null after the last.
Page(seq, limit, offset) ==
  SubSeq(seq, offset + 1, IF offset + limit < Len(seq) THEN offset + limit ELSE Len(seq))

NextCursor(rows, limit, offset) == IF Len(rows) = limit THEN offset + limit ELSE Null
=============================================================================
