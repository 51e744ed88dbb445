---------------------------- MODULE LocalReplica -----------------------------
(***************************************************************************)
(* The local PGlite database of entity-sync-pglite and what keeps it        *)
(* current: the PGlite extension (extension.ts), or the EntityTransport     *)
(* (pem-transport.ts) with its subscribers, list() and ChangeEvents, both   *)
(* over applyOps (apply.ts).  The client hands the deltas of the bucket to  *)
(* the registered handlers in order, and acknowledges them (client.ts).     *)
(***************************************************************************)
EXTENDS ListQuery

CONSTANTS
  Subscribers,   \* callers of subscribe(): one onChange each
  Extension,     \* the handler the extension registers
  Reader,        \* a caller of list() or get()
  Ids,           \* entity ids, integers
  Batches,       \* what a delta's ops may be: sequences of [table, id, kind]
  Queries,       \* the ListQuery arguments of list(): [filter, sort, limit]
  Absent,        \* no such row, no such view
  MaxDeltas,     \* bound: deltas that arrive
  MaxFailures    \* bound: statements that fail for a passing reason

Handlers == Subscribers \cup {Extension}
\* The table of the transport; other tables of a bucket need not exist locally.
LocalTable == "entities"
Kinds == {"Upsert", "CrdtPatch", "Delete"}
\* What an op writes, told apart by the delta and the place of the op in it.
Value == (1..MaxDeltas) \X Nat
LocalRow == [id : Ids, payload : Value \cup {Null}, crdt_state : Value \cup {Null}]

ASSUME ReplicaAssumption ==
  /\ Ids \subseteq Nat /\ IsFiniteSet(Ids)
  /\ Batches \subseteq Seq([table : STRING, id : Ids, kind : Kinds])
  /\ MaxDeltas \in Nat /\ MaxFailures \in Nat
  /\ \A q \in Queries : q.limit \in Nat \ {0}
  /\ Extension \notin Subscribers
  /\ Absent # Null /\ Absent \notin LocalRow /\ Null \notin LocalRow \cup Nat

VARIABLES
  wiring,    \* which of the two the application uses
  called,    \* who has made the client subscribe
  handlers,  \* the client's deltaHandlers, in order of registration
  paused,    \* pause() of the extension was called
  arrived,   \* history: the ops of each delta the client has acknowledged
  queue,     \* statements and transactions waiting for the database
  table,     \* the local table
  view,      \* what the events have told each subscriber of each id
  applied,   \* history: the deltas each handler has applied
  told,      \* history: the deltas each subscriber was sent an event of
  failures   \* failed statements so far

vars == <<wiring, called, handlers, paused, arrived, queue, table, view, applied, told, failures>>

Op == [table : STRING, id : Ids, kind : Kinds, value : Value]
Jobs == [kind : {"apply"}, h : Handlers, n : 1..MaxDeltas]
          \cup [kind : {"read"}, h : Subscribers, n : 1..MaxDeltas, i : Nat]

TypeOK ==
  /\ wiring \in {"extension", "transport"}
  /\ called \subseteq Handlers \cup {Reader} /\ handlers \in Seq(Handlers)
  /\ paused \in BOOLEAN
  /\ arrived \in Seq(Seq(Op)) /\ Len(arrived) <= MaxDeltas
  /\ queue \in Seq(Jobs)
  /\ table \in [Ids -> LocalRow \cup {Absent}]
  /\ view \in [Subscribers -> [Ids -> LocalRow \cup {Absent, Null}]]
  /\ applied \in [Handlers -> SUBSET (1..MaxDeltas)]
  /\ told \in [Subscribers -> SUBSET (1..MaxDeltas)]
  /\ failures \in 0..MaxFailures

Init ==
  /\ wiring \in {"extension", "transport"}
  /\ called = {}
  /\ handlers = IF wiring = "extension" THEN <<Extension>> ELSE <<>>
  /\ paused = FALSE /\ arrived = <<>> /\ queue = <<>> /\ failures = 0
  /\ table = [i \in Ids |-> Absent]
  /\ view = [h \in Subscribers |-> [i \in Ids |-> Null]]
  /\ applied = [h \in Handlers |-> {}] /\ told = [h \in Subscribers |-> {}]

-----------------------------------------------------------------------------
(* Faulty variants of definitions below, named Bad...: each one is what an *)
(* easy mistake in the code would make of it, and breaks a property.       *)

\* A batch that fails in the middle is not rolled back.
BadApplyFails ==
  LET job == Head(queue) IN
  /\ queue # <<>> /\ job.kind = "apply"
  /\ failures < MaxFailures /\ failures' = failures + 1
  /\ table' = [table EXCEPT ![arrived[job.n][1].id] = Absent]
  /\ queue' = Tail(queue)
  /\ UNCHANGED <<wiring, called, handlers, paused, arrived, view, applied, told>>

\* The event carries the payload of the op instead of the row.
BadReadBack ==
  LET job == Head(queue)
      op == arrived[job.n][job.i]
  IN
  /\ queue # <<>> /\ job.kind = "read"
  /\ view' = [view EXCEPT ![job.h][op.id] =
       [id |-> op.id, payload |-> op.value, crdt_state |-> Null]]
  /\ told' = [told EXCEPT ![job.h] = @ \cup {job.n}]
  /\ queue' = IF job.i = Len(arrived[job.n]) THEN Tail(queue)
              ELSE Append(Tail(queue), [job EXCEPT !.i = @ + 1])
  /\ UNCHANGED <<wiring, called, handlers, paused, arrived, table, applied, failures>>

\* A row that is not there is read again until it is.
BadReadBackRetries ==
  /\ queue # <<>> /\ Head(queue).kind = "read"
  /\ queue' = IF table[arrived[Head(queue).n][Head(queue).i].id] = Absent
              THEN Append(Tail(queue), Head(queue)) ELSE Tail(queue)
  /\ UNCHANGED <<wiring, called, handlers, paused, arrived, table, view, applied, told, failures>>

-----------------------------------------------------------------------------
(* applyOps.                                                               *)

\* applyOne on the table: the upsert keeps the crdt_state of the row, the
\* patch its payload, and each creates the row if there is none.
ApplyOne(rows, op) ==
  LET row == IF rows[op.id] = Absent
             THEN [id |-> op.id, payload |-> Null, crdt_state |-> Null] ELSE rows[op.id]
  IN IF op.table # LocalTable THEN rows
     ELSE CASE op.kind = "Delete" -> [rows EXCEPT ![op.id] = Absent]
            [] op.kind = "Upsert" -> [rows EXCEPT ![op.id] = [row EXCEPT !.payload = op.value]]
            [] op.kind = "CrdtPatch" -> [rows EXCEPT ![op.id] = [row EXCEPT !.crdt_state = op.value]]

\* applyOps: the table after each of the ops, and after all of them.
ApplyOps(rows, ops) ==
  LET after[k \in 0..Len(ops)] == IF k = 0 THEN rows ELSE ApplyOne(after[k - 1], ops[k])
  IN after
ApplyAll(rows, ops) == ApplyOps(rows, ops)[Len(ops)]

\* The ops of a delta that concern the table: the transport keeps these only.
Relevant(n) == {k \in DOMAIN arrived[n] : arrived[n][k].table = LocalTable}

\* A transaction that names a table the database does not have fails; the
\* extension takes a delta as it is.
Fails(h, n) == h = Extension /\ Relevant(n) # DOMAIN arrived[n]

-----------------------------------------------------------------------------
(* Deltas.                                                                 *)

\* handleMessage of the client: every handler is called, in order, and starts
\* a transaction; a handler that returns early starts none.  The Ack follows,
\* whatever becomes of the transactions.
Delta(batch) ==
  LET n == Len(arrived) + 1
      stamped == [i \in DOMAIN batch |-> [table |-> batch[i].table, id |-> batch[i].id,
                                          kind |-> batch[i].kind, value |-> <<n, i>>]]
      starts == IF wiring = "extension" THEN ~paused
                ELSE \E i \in DOMAIN batch : batch[i].table = LocalTable
      active == IF starts THEN handlers ELSE <<>>
  IN
  /\ n <= MaxDeltas
  /\ called # {}
  /\ arrived' = Append(arrived, stamped)
  /\ queue' = queue \o [k \in DOMAIN active |-> [kind |-> "apply", h |-> active[k], n |-> n]]
  /\ UNCHANGED <<wiring, called, handlers, paused, table, view, applied, told, failures>>

\* handleOps from its i-th op on, after the events that report the rows of
\* `updated`: the events of deletions, up to the first op that needs its row
\* read back, for which it queues a query.
Notify(h, n, i, updated) ==
  LET rest == {k \in Relevant(n) : k >= i}
      reads == {k \in rest : arrived[n][k].kind # "Delete"}
      deleted == {arrived[n][k].id : k \in {d \in rest : \A r \in reads : d < r}}
  IN
  /\ view' = [view EXCEPT ![h] = [x \in Ids |->
       IF x \in deleted THEN Absent ELSE IF x \in updated THEN table[x] ELSE @[x]]]
  /\ told' = [told EXCEPT ![h] = IF deleted \cup updated # {} THEN @ \cup {n} ELSE @]
  /\ \/ reads = {} /\ queue' = Tail(queue)
     \/ \E next \in reads :
          /\ \A r \in reads : next <= r
          /\ queue' = Append(Tail(queue), [kind |-> "read", h |-> h, n |-> n, i |-> next])

\* The transaction of a batch commits, and handleOps goes on to its events;
\* or it fails and is rolled back, and handleOps returns.
Apply ==
  LET job == Head(queue) IN
  /\ queue # <<>> /\ job.kind = "apply"
  /\ ~Fails(job.h, job.n)
  /\ table' = ApplyAll(table, arrived[job.n])
  /\ applied' = [applied EXCEPT ![job.h] = @ \cup {job.n}]
  /\ IF job.h = Extension THEN queue' = Tail(queue) /\ UNCHANGED <<view, told>>
                          ELSE Notify(job.h, job.n, 1, {})
  /\ UNCHANGED <<wiring, called, handlers, paused, arrived, failures>>

ApplyFails ==
  LET job == Head(queue) IN
  /\ queue # <<>> /\ job.kind = "apply"
  /\ \/ Fails(job.h, job.n) /\ UNCHANGED failures
     \/ failures < MaxFailures /\ failures' = failures + 1
  /\ queue' = Tail(queue)
  /\ UNCHANGED <<wiring, called, handlers, paused, arrived, table, view, applied, told>>

\* notifyOne reads the row back and reports it if it is there; a query that
\* fails reports nothing.
ReadBack ==
  LET job == Head(queue)
      id == arrived[job.n][job.i].id
  IN
  /\ queue # <<>> /\ job.kind = "read"
  /\ Notify(job.h, job.n, job.i + 1, {id} \ {x \in Ids : table[x] = Absent})
  /\ UNCHANGED <<wiring, called, handlers, paused, arrived, table, applied, failures>>

ReadBackFails ==
  LET job == Head(queue) IN
  /\ queue # <<>> /\ job.kind = "read"
  /\ failures < MaxFailures /\ failures' = failures + 1
  /\ Notify(job.h, job.n, job.i + 1, {})
  /\ UNCHANGED <<wiring, called, handlers, paused, arrived, table, applied>>

-----------------------------------------------------------------------------
(* Calls of the application; ensureSubscribed has the client subscribe once.*)

Subscribe(h) ==
  /\ wiring = "transport" /\ h \notin called
  /\ called' = called \cup {h}
  /\ handlers' = Append(handlers, h)
  /\ UNCHANGED <<wiring, paused, arrived, queue, table, view, applied, told, failures>>

Unsubscribe(h) ==
  /\ \E p \in DOMAIN handlers :
       /\ handlers[p] = h
       /\ handlers' = [k \in 1..(Len(handlers) - 1) |->
                         IF k < p THEN handlers[k] ELSE handlers[k + 1]]
  /\ UNCHANGED <<wiring, called, paused, arrived, queue, table, view, applied, told, failures>>

SubscribeBucket ==
  /\ wiring = "extension" /\ called = {}
  /\ called' = {Extension}
  /\ UNCHANGED <<wiring, handlers, paused, arrived, queue, table, view, applied, told, failures>>

PauseResume ==
  /\ wiring = "extension" /\ Len(arrived) < MaxDeltas
  /\ paused' = ~paused
  /\ UNCHANGED <<wiring, called, handlers, arrived, queue, table, view, applied, told, failures>>

\* list() and get() make the transport subscribe and read the table.
ListOrGet ==
  /\ wiring = "transport" /\ Reader \notin called
  /\ called' = called \cup {Reader}
  /\ UNCHANGED <<wiring, handlers, paused, arrived, queue, table, view, applied, told, failures>>

\* list() called again with the cursor it returned, until that is null: the
\* ids of the rows of k pages, and the next cursor.
Pages(q, order) ==
  LET read[k \in 0..(Len(order) + 1)] ==
        IF k = 0 THEN [rows |-> <<>>, cursor |-> 0]
        ELSE LET rows == Page(order, q.limit, read[k - 1].cursor) IN
             IF read[k - 1].cursor = Null THEN read[k - 1]
             ELSE [rows |-> read[k - 1].rows \o rows,
                   cursor |-> NextCursor(rows, q.limit, read[k - 1].cursor)]
  IN read
Listed(q, order) == Pages(q, order)[Len(order) + 1].rows

Matching(q) ==
  {i \in Ids : table[i] # Absent /\ Selects(CompileFilter(q.filter), table[i])}

Next ==
  \/ \E batch \in Batches : Delta(batch)
  \/ Apply \/ ApplyFails \/ ReadBack \/ ReadBackFails
  \/ \E h \in Subscribers : Subscribe(h)
  \/ \E h \in Subscribers : Unsubscribe(h)
  \/ SubscribeBucket \/ PauseResume \/ ListOrGet

Spec == Init /\ [][Next]_vars

\* The database runs the jobs it is given.
Fairness == WF_vars(Apply \/ ApplyFails \/ ReadBack \/ ReadBackFails)
FairSpec == Spec /\ Fairness
-----------------------------------------------------------------------------
(* Properties.                                                             *)

\* The table after those of the deltas that are in D, in order of arrival.
Replays(deltas, D) ==
  LET after[n \in 0..Len(deltas)] ==
        IF n = 0 THEN [i \in Ids |-> Absent]
        ELSE IF n \in D THEN ApplyAll(after[n - 1], deltas[n]) ELSE after[n - 1]
  IN after
Replay(D) == Replays(arrived, D)[Len(arrived)]

\* The handlers that are still registered.
Registered == {handlers[k] : k \in DOMAIN handlers}

\* The table is always what whole deltas make of it, each once and in order of
\* arrival: a batch that fails leaves nothing behind, and a batch that several
\* subscribers apply is applied twice with no effect on later ones.
LocalIsReplay == table = Replay(UNION {applied[h] : h \in Handlers})

\* Subscribers are told the truth.  No ChangeEvent is emitted for an op that
\* the apply step failed to persist (pem-transport.ts:184).  And once the
\* database is idle, if no statement failed, a row that a subscriber was last
\* told of is the row of the table: the row is read back when its event is
\* due, so no event brings an older row after a newer one.
EventsHonest ==
  /\ \A h \in Subscribers : told[h] \subseteq applied[h]
  /\ queue = <<>> /\ failures = 0 =>
       \A h \in Registered \cap Subscribers, i \in Ids :
         view[h][i] \notin {Absent, Null} => view[h][i] = table[i]

\* A caller that follows the cursors of a sorted list() to the end, while the
\* table does not change, has each row that satisfies the filter once, if the
\* filter has plain clauses only and is no empty "or" group, for which
\* compileFilter builds no WHERE clause.
ListComplete ==
  \A q \in Queries : \A order \in Orders(q.sort, Matching(q)) :
    /\ q.sort # "none"
    /\ \A c \in q.filter.clauses : Translatable(c)
    /\ q.filter.logic = "or" => q.filter.clauses # {}
    => LET rows == Listed(q, order) IN
       /\ \A j, k \in DOMAIN rows : rows[j] = rows[k] => j = k
       /\ {rows[k] : k \in DOMAIN rows} =
            {i \in Ids : table[i] # Absent /\ Satisfies(q.filter, table[i])}

\* Every transaction and query that was queued is run, and so are those that
\* the events of a batch need.
Settles == (queue # <<>>) ~> (queue = <<>>)

-----------------------------------------------------------------------------
(* Statements of docs and comments that the code does not meet: TLC        *)
(* refutes each of them on the instance README.md gives for it.            *)

\* pem-transport.ts:199 says that after a failed batch "the next successful
\* delta or an explicit refetch will catch the local database up".
CatchesUp ==
  queue = <<>> /\ failures = 1 /\ wiring = "transport"
    /\ (\E h \in Handlers : Len(arrived) \in applied[h])
    => table = Replay(1..Len(arrived))

\* pem-transport.ts:10 says the transport keeps its database current "by
\* applying every delta op to its own PGlite db [..] as it arrives".
EveryDeltaApplied ==
  queue = <<>> /\ failures = 0 /\ wiring = "transport" => table = Replay(1..Len(arrived))

\* pem-transport.ts:13 says subscribe() layers events on the apply step "so
\* PEM's realtime-aware hooks re-render without polling": what they show when
\* the database is idle is the table.
ViewsShowTable ==
  queue = <<>> /\ failures = 0 =>
    \A h \in Registered \cap Subscribers, i \in Ids :
      view[h][i] # Null => view[h][i] = table[i]

\* pem-transport.ts:235 says that compileFilter compiles "a FilterSpec into a
\* parameterized SQL WHERE fragment": the rows are those the filter describes.
FilterRespected ==
  \A q \in Queries : \A i \in Matching(q) : Satisfies(q.filter, table[i])
=============================================================================
