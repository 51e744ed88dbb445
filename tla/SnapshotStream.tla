--------------------------- MODULE SnapshotStream ---------------------------
(***************************************************************************)
(* SnapshotStream::stream(): the initial snapshot of a bucket, read page   *)
(* by page while other transactions change the tables.  Every page is a    *)
(* statement of its own, so nothing holds the table still between pages:   *)
(* the keyset cursor alone decides what the next page may contain.         *)
(*                                                                         *)
(* A row is its id.  Ids are naturals, and < is the order of ORDER BY id.  *)
(* Where the id column is numeric, comparing ids as text gives another     *)
(* order, TextBelow ('10' is below '2').                                   *)
(***************************************************************************)
EXTENDS Integers, FiniteSets

CONSTANTS
  Queries,      \* the data_queries of the assignments being streamed
  NumericIds,   \* those whose id column has a numeric type
  Ids,          \* ids a row may have
  TextBelow,    \* the pairs <<i, j>> with i::text < j::text
  BatchSize     \* batch_size

ASSUME StreamAssumption ==
  /\ NumericIds \subseteq Queries
  /\ Ids \subseteq Nat /\ IsFiniteSet(Ids)
  /\ TextBelow \subseteq Ids \X Ids
  /\ BatchSize \in Nat \ {0}

VARIABLES
  rows,      \* the result set of each query, now
  todo,      \* queries not started
  current,   \* the query being paged, NoQuery between two of them
  cast,      \* the IdCast chosen for each query
  cursor,    \* id of the last row of the last page, None before the first
  batch,     \* rows of the last SnapshotBatch
  sent,      \* rows yielded so far, per query
  outcome,   \* "streaming", "complete" or "failed"
  stable     \* history: rows in the result set ever since the query started,
             \* until it was finished

streamVars == <<rows, todo, current, cast, cursor, batch, sent, outcome, stable>>

None == -1
NoQuery == "none"
ASSUME NoQueryAssumption == NoQuery \notin Queries

Started == Queries \ todo
Done == Started \ {current}

StreamTypeOK ==
  /\ rows \in [Queries -> SUBSET Ids]
  /\ todo \subseteq Queries
  /\ current \in (Queries \ todo) \cup {NoQuery}
  /\ cast \in [Queries -> {"Numeric", "Text"}]
  /\ cursor \in Ids \cup {None}
  /\ batch \in SUBSET Ids
  /\ sent \in [Queries -> SUBSET Ids]
  /\ outcome \in {"streaming", "complete", "failed"}
  /\ stable \in [Queries -> SUBSET Ids]

StreamInit ==
  /\ rows \in [Queries -> SUBSET Ids]
  /\ todo = Queries
  /\ current = NoQuery
  /\ cast = [q \in Queries |-> "Text"]
  /\ cursor = None
  /\ batch = {}
  /\ sent = [q \in Queries |-> {}]
  /\ outcome = "streaming"
  /\ stable = [q \in Queries |-> {}]

-----------------------------------------------------------------------------
(* Faulty variants of definitions below, named Bad...: each one is what an *)
(* easy mistake in the code would make of it, and breaks a property.       *)

\* The next page starts at the cursor instead of one past it.
BadAfter(q, i) == cursor = None \/ cursor <= i

\* A page that is exactly full is taken for the last one.
BadIsLast(page) == Cardinality(page) <= BatchSize

\* row_id_as_string() does not know the id's JSON type: the cursor stays NULL.
NullCursor(q, i) == TRUE

-----------------------------------------------------------------------------
\* detect_id_cast(): the type of the id of some row; Text if there is none.
DetectIdCast(q) == IF rows[q] # {} /\ q \in NumericIds THEN "Numeric" ELSE "Text"

\* The condition of fetch_page() on id, in the type of the cast.
After(q, i) ==
  \/ cursor = None
  \/ IF q \in NumericIds /\ cast[q] = "Text" THEN <<cursor, i>> \in TextBelow ELSE cursor < i

\* ORDER BY id LIMIT batch_size.
IsPage(page, above) ==
  /\ page \subseteq above
  /\ \A i \in page, j \in above \ page : i < j
  /\ Cardinality(page) <= BatchSize
  /\ Cardinality(page) < BatchSize => page = above

IsLast(page) == Cardinality(page) < BatchSize

\* rows.last(): the row with the highest id.
IsLastRow(i, page) == \A j \in page : j <= i

\* The next query of the loops of stream(): its cast is fixed here, before
\* the first page, by a statement of its own.
StartQuery ==
  /\ outcome = "streaming" /\ current = NoQuery
  /\ \E q \in todo :
       /\ todo' = todo \ {q}
       /\ current' = q
       /\ cast' = [cast EXCEPT ![q] = DetectIdCast(q)]
       /\ stable' = [stable EXCEPT ![q] = rows[q]]
  /\ cursor' = None
  /\ UNCHANGED <<rows, batch, sent, outcome>>

\* One iteration of the paging loop: fetch, yield, and stop at a short page.
FetchPage ==
  /\ outcome = "streaming" /\ current # NoQuery
  /\ \E page \in SUBSET {i \in rows[current] : After(current, i)} :
       /\ IsPage(page, {i \in rows[current] : After(current, i)})
       /\ batch' = page
       /\ sent' = [sent EXCEPT ![current] = @ \cup page]
       /\ \/ /\ IsLast(page)
             /\ current' = NoQuery
             /\ outcome' = IF todo = {} THEN "complete" ELSE "streaming"
             /\ UNCHANGED cursor
          \/ /\ ~IsLast(page)
             /\ cursor' \in {i \in page : IsLastRow(i, page)}
             /\ UNCHANGED <<current, outcome>>
  /\ UNCHANGED <<rows, todo, cast, stable>>

\* A statement fails: the stream yields the error and ends, and so does the
\* connection.
Fail ==
  /\ outcome = "streaming"
  /\ outcome' = "failed"
  /\ UNCHANGED <<rows, todo, current, cast, cursor, batch, sent, stable>>

\* Another transaction inserts a row or moves one into the query's scope ...
Insert ==
  /\ outcome = "streaming"
  /\ \E q \in Queries, i \in Ids : rows' = [rows EXCEPT ![q] = @ \cup {i}]
  /\ UNCHANGED <<todo, current, cast, cursor, batch, sent, outcome, stable>>

\* ... or deletes one or moves it out.
Delete ==
  /\ outcome = "streaming"
  /\ \E q \in Queries, i \in Ids :
       /\ rows' = [rows EXCEPT ![q] = @ \ {i}]
       /\ stable' = IF q = current THEN [stable EXCEPT ![q] = @ \ {i}] ELSE stable
  /\ UNCHANGED <<todo, current, cast, cursor, batch, sent, outcome>>

StreamNext == StartQuery \/ FetchPage \/ Fail \/ Insert \/ Delete

StreamSpec == StreamInit /\ [][StreamNext]_streamVars

\* The gateway task polls the stream until it ends.
FairStreamSpec == StreamSpec /\ WF_streamVars(StartQuery) /\ WF_streamVars(FetchPage)

-----------------------------------------------------------------------------
(* Properties.                                                             *)

\* stream.rs:32 promises keyset pagination "for safety on large, concurrently-
\* modified tables": when a query is finished, every row that was in its
\* result set all along has been yielded, whatever was inserted and deleted
\* meanwhile.
StableRowsDelivered == \A q \in Done : stable[q] \subseteq sent[q]

RightCast(q) == (cast[q] = "Numeric") = (q \in NumericIds)

OnlyLaterRows == \A i \in batch', j \in sent[current] : j < i

\* No batch repeats a row of an earlier one, even a row deleted and inserted
\* again, provided the query's cast is the one of its id column.
NoRowTwice == [][FetchPage /\ RightCast(current) => OnlyLaterRows]_streamVars

\* The stream ends, however many rows other transactions keep inserting and
\* whatever the cast.
StreamEnds == (outcome = "streaming") ~> (outcome # "streaming")

-----------------------------------------------------------------------------
(* Statements of docs and comments that the code does not meet: TLC        *)
(* refutes each of them on the instance README.md gives for it.            *)

\* stream.rs:160 says of a query found empty that "the cast choice is moot
\* (the pagination loop will fetch zero rows either way)": the proviso of
\* NoRowTwice would not be needed.
CastIsMoot == [][FetchPage => OnlyLaterRows]_streamVars
=============================================================================
