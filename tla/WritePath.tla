----------------------------- MODULE WritePath -------------------------------
(***************************************************************************)
(* Client writes at the gateway: handle_client_message, handle_write,       *)
(* row_is_within_scope and apply_write of connection.rs, run by the tasks   *)
(* of several sessions against one database that the application writes to *)
(* as well.  Each SQL statement is a transaction of its own, so other       *)
(* writes happen between the scope check, the CRDT read and the update.     *)
(***************************************************************************)
EXTENDS Integers, FiniteSets

CONSTANTS
  Sessions,     \* gateway connections in serve()
  Rows,         \* entity ids
  Owners,       \* values of the column the data queries filter on
  Buckets,      \* resolved bucket assignments
  TableOf,      \* [Rows -> tables]: the entity_type a write of a row names
  Tables,       \* [Buckets -> SUBSET tables]: the keys of data_queries
  OwnerOf,      \* [Buckets -> Owners]: the parameter substituted in them
  Authorized,   \* [Sessions -> SUBSET Buckets]: session.authorized_buckets
  Absent,       \* no such row
  Null,         \* a crdt_state column that was never set
  MaxRequests,  \* bound: requests of a session
  MaxChanges    \* bound: transactions of the application

VARIABLES
  db,        \* the table rows
  task,      \* what each session's task is doing
  reply,     \* wire code of the last Error frame of each session, or NoError
  served,    \* requests each session has read
  changes,   \* transactions of the application so far
  inScope,   \* history: the request's row has been in scope since it was read
  wrote,     \* history: the request has changed the database
  stored,    \* history: patches stored in the row since it was created
  overlapped \* history: patches whose read-merge-write overlapped another's

history == <<inScope, wrote, stored, overlapped>>
vars == <<db, task, reply, served, changes, history>>

Patches == Sessions \X (1..MaxRequests)
Crdt == (SUBSET Patches) \cup {Null}
Row == [owner : Owners, payload : Patches \cup {Null}, crdt : Crdt]
NewRow == [owner : Owners, payload : {Null}, crdt : {Null, {}}]  \* as the application creates it
Ops == {"Upsert", "Delete", "CrdtPatch"}

ASSUME WriteAssumption ==
  /\ OwnerOf \in [Buckets -> Owners]
  /\ Authorized \in [Sessions -> SUBSET Buckets]
  /\ \A c \in SUBSET Patches : c # Null
  /\ MaxRequests \in Nat /\ MaxChanges \in Nat

\* A task in select!, one that has returned, and one in handle_write, before
\* the scope check, before the (first) statement of apply_write, or between
\* the SELECT and the UPDATE of a CrdtPatch.
Idle == [pc |-> "idle"]
Closed == [pc |-> "closed"]
Writing == [pc : {"scope", "apply", "store"}, row : Rows, op : Ops, bucket : Buckets,
            merged : SUBSET Patches]

NoError == 0

TypeOK ==
  /\ db \in [Rows -> Row \cup {Absent}]
  /\ task \in [Sessions -> Writing \cup {Idle, Closed}]
  /\ reply \in [Sessions -> {NoError, 4001, 4003, 4099}]
  /\ served \in [Sessions -> 0..MaxRequests]
  /\ changes \in 0..MaxChanges
  /\ inScope \in [Sessions -> BOOLEAN] /\ wrote \in [Sessions -> BOOLEAN]
  /\ stored \in [Rows -> SUBSET Patches] /\ overlapped \subseteq Patches

Init ==
  /\ db \in [Rows -> NewRow]
  /\ task = [s \in Sessions |-> Idle]
  /\ reply = [s \in Sessions |-> NoError]
  /\ served = [s \in Sessions |-> 0] /\ changes = 0
  /\ inScope = [s \in Sessions |-> FALSE] /\ wrote = [s \in Sessions |-> FALSE]
  /\ stored = [r \in Rows |-> {}] /\ overlapped = {}
-----------------------------------------------------------------------------
(* Faulty variants of definitions below, named Bad...: each one is what an *)
(* easy mistake in the code would make of it, and breaks a property.       *)

\* The scope check looks for the row without the predicate of the data query.
BadWithinScope(b, r) == db[r] # Absent

\* The merge starts from an empty document.
BadApplyDelta(existing, patch) == {patch}

\* The upsert is an INSERT .. ON CONFLICT DO UPDATE.
BadApplyStatement(s) ==
  LET t == task[s] IN
  /\ t.pc = "apply" /\ t.op # "CrdtPatch"
  /\ db' = IF t.op = "Delete" THEN [db EXCEPT ![t.row] = Absent]
           ELSE [db EXCEPT ![t.row] = [owner |-> OwnerOf[t.bucket],
                                       payload |-> <<s, served[s]>>, crdt |-> Null]]
  /\ task' = [task EXCEPT ![s] = Idle]
  /\ UNCHANGED <<reply, served, changes, history>>

\* A patch is written before the merge has been found valid.
BadReadState(s) ==
  LET t == task[s] IN
  /\ t.pc = "apply" /\ t.op = "CrdtPatch" /\ db[t.row] # Absent
  /\ db' = [db EXCEPT ![t.row].crdt = {<<s, served[s]>>}]
  /\ task' = [task EXCEPT ![s] = Idle]
  /\ reply' = [reply EXCEPT ![s] = 4003]
  /\ wrote' = [wrote EXCEPT ![s] = TRUE]
  /\ UNCHANGED <<served, changes, inScope, stored, overlapped>>

-----------------------------------------------------------------------------
(* Helpers.                                                                *)

\* The rows the data query of bucket b for the row's table selects.
WithinScope(b, r) == db[r] # Absent /\ db[r].owner = OwnerOf[b]

\* What SELECT crdt_state yields; a row that is gone reads as the empty document.
CrdtState(r) == IF db[r] = Absent THEN {} ELSE db[r].crdt

\* frf_crdt::apply_delta, by what the gateway relies on: the merged document
\* holds what both held.
ApplyDelta(existing, patch) == existing \cup {patch}

\* GatewayErrorResponse::from and GatewayErrorCode::wire_code.
WireCode(err) ==
  CASE err = "AuthError" -> 4001
    [] err = "BucketAssignmentFailed" -> 4002
    [] err = "ProtocolError" -> 4003
    [] OTHER -> 4099

\* The buckets `find` may return: the first match in HashMap order.
Matching(s, r) == {b \in Authorized[s] : TableOf[r] \in Tables[b]}

Patch(s) == <<s, served[s]>>

\* History: some bucket of session s selects the row r when it is as in `row`.
Scoped(s, r, row) ==
  row # Absent /\ \E b \in Matching(s, r) : row.owner = OwnerOf[b]

\* send_error(..).await? : the frame is sent, or the socket is gone and the
\* task returns.
Answer(s, err) ==
  \/ /\ reply' = [reply EXCEPT ![s] = WireCode(err)]
     /\ task' = [task EXCEPT ![s] = Idle]
  \/ /\ task' = [task EXCEPT ![s] = Closed]
     /\ UNCHANGED reply

\* History of a statement of session s, or of the application, that leaves
\* the row r as it is in db'.
Record(r, kept, by) ==
  /\ stored' = [stored EXCEPT ![r] = IF db'[r] = Absent THEN {} ELSE kept]
  /\ inScope' = [s \in Sessions |-> inScope[s] \/
       /\ task[s].pc \in {"scope", "apply", "store"} /\ task[s].row = r /\ Scoped(s, r, db'[r])]
  /\ wrote' = [s \in Sessions |-> wrote[s] \/ (s \in by /\ db' # db)]

-----------------------------------------------------------------------------
(* Frames.                                                                 *)

\* An undecodable frame, or a second Subscribe.
ProtocolFrame(s) ==
  /\ task[s] = Idle /\ served[s] < MaxRequests
  /\ served' = [served EXCEPT ![s] = @ + 1]
  /\ wrote' = [wrote EXCEPT ![s] = FALSE]
  /\ Answer(s, "ProtocolError")
  /\ UNCHANGED <<db, changes, inScope, stored, overlapped>>

\* Write: any authorized bucket that has a data query of the table.
HandleWrite(s, r, op) ==
  /\ task[s] = Idle /\ served[s] < MaxRequests
  /\ served' = [served EXCEPT ![s] = @ + 1]
  /\ wrote' = [wrote EXCEPT ![s] = FALSE]
  /\ inScope' = [inScope EXCEPT ![s] = Scoped(s, r, db[r])]
  /\ \/ /\ Matching(s, r) = {}
        /\ Answer(s, "AuthError")
     \/ \E b \in Matching(s, r) :
          /\ task' = [task EXCEPT ![s] = [pc |-> "scope", row |-> r, op |-> op,
                                          bucket |-> b, merged |-> {}]]
          /\ reply' = [reply EXCEPT ![s] = NoError]
  /\ UNCHANGED <<db, changes, stored, overlapped>>

\* row_is_within_scope: a database error ends the task by `?`, with no frame.
CheckScope(s) ==
  LET t == task[s] IN
  /\ t.pc = "scope"
  /\ \/ /\ WithinScope(t.bucket, t.row)
        /\ task' = [task EXCEPT ![s].pc = "apply"]
        /\ UNCHANGED reply
     \/ /\ ~WithinScope(t.bucket, t.row)
        /\ Answer(s, "AuthError")
     \/ /\ task' = [task EXCEPT ![s] = Closed]
        /\ UNCHANGED reply
  /\ UNCHANGED <<db, served, changes, history>>

-----------------------------------------------------------------------------
(* apply_write.                                                            *)

\* UPDATE .. SET payload, or DELETE: no effect on a row that is gone.
ApplyStatement(s) ==
  LET t == task[s] IN
  /\ t.pc = "apply" /\ t.op # "CrdtPatch"
  /\ db' = IF db[t.row] = Absent THEN db
           ELSE IF t.op = "Delete" THEN [db EXCEPT ![t.row] = Absent]
           ELSE [db EXCEPT ![t.row].payload = Patch(s)]
  /\ task' = [task EXCEPT ![s] = Idle]
  /\ Record(t.row, stored[t.row], {s})
  /\ UNCHANGED <<reply, served, changes, overlapped>>

\* SELECT crdt_state and the merge.  A column that is NULL does not decode as
\* bytes; frf_crdt may refuse the patch.
ReadState(s) ==
  LET t == task[s]
      others == {u \in Sessions \ {s} : task[u].pc = "store" /\ task[u].row = t.row}
  IN
  /\ t.pc = "apply" /\ t.op = "CrdtPatch"
  /\ CrdtState(t.row) # Null
  /\ task' = [task EXCEPT ![s].pc = "store",
                             ![s].merged = ApplyDelta(CrdtState(t.row), Patch(s))]
  /\ overlapped' = overlapped \cup
       (IF others = {} THEN {} ELSE {Patch(u) : u \in others \cup {s}})
  /\ UNCHANGED <<db, reply, served, changes, inScope, wrote, stored>>

ReadStateFails(s) ==
  LET t == task[s] IN
  /\ t.pc = "apply" /\ t.op = "CrdtPatch"
  /\ \/ CrdtState(t.row) = Null /\ Answer(s, "Database")
     \/ Answer(s, "ProtocolError")
  /\ UNCHANGED <<db, served, changes, history>>

\* UPDATE .. SET crdt_state.
StoreState(s) ==
  LET t == task[s] IN
  /\ t.pc = "store"
  /\ db' = IF db[t.row] = Absent THEN db ELSE [db EXCEPT ![t.row].crdt = t.merged]
  /\ task' = [task EXCEPT ![s] = Idle]
  /\ Record(t.row, stored[t.row] \cup {Patch(s)}, {s})
  /\ UNCHANGED <<reply, served, changes, overlapped>>

\* A statement of apply_write fails: reported as Internal.
StatementFails(s) ==
  /\ task[s].pc \in {"apply", "store"}
  /\ Answer(s, "Database")
  /\ UNCHANGED <<db, served, changes, history>>

-----------------------------------------------------------------------------
(* The connection and the application.                                     *)

Disconnect(s) ==
  /\ task[s] = Idle
  /\ task' = [task EXCEPT ![s] = Closed]
  /\ UNCHANGED <<db, reply, served, changes, history>>

\* The client connects again: a new session with the same buckets.
Reconnect(s) ==
  /\ task[s] = Closed
  /\ task' = [task EXCEPT ![s] = Idle]
  /\ reply' = [reply EXCEPT ![s] = NoError]
  /\ UNCHANGED <<db, served, changes, history>>

\* Another transaction creates a row, deletes it, or gives it to an owner.
ApplicationWrites(r) ==
  /\ changes < MaxChanges
  /\ changes' = changes + 1
  /\ \/ /\ db[r] = Absent
        /\ \E row \in NewRow : db' = [db EXCEPT ![r] = row]
     \/ db[r] # Absent /\ db' = [db EXCEPT ![r] = Absent]
     \/ db[r] # Absent /\ \E o \in Owners \ {db[r].owner} : db' = [db EXCEPT ![r].owner = o]
  /\ Record(r, stored[r], {})
  /\ UNCHANGED <<task, reply, served, overlapped>>

Handle(s) ==
  \/ ProtocolFrame(s) \/ \E r \in Rows, op \in Ops : HandleWrite(s, r, op)
  \/ CheckScope(s) \/ ApplyStatement(s) \/ ReadState(s) \/ ReadStateFails(s)
  \/ StoreState(s) \/ StatementFails(s)

Next ==
  \/ \E s \in Sessions : Handle(s)
  \/ \E s \in Sessions : Disconnect(s) \/ Reconnect(s)
  \/ \E r \in Rows : ApplicationWrites(r)

Spec == Init /\ [][Next]_vars

-----------------------------------------------------------------------------
(* Properties.                                                             *)

\* A request changes the database only if its row has been, at some moment
\* since the request was read, one that a data query of the session's buckets
\* selects: the scope check of handle_write holds for the write that follows,
\* whichever bucket `find` returned and whatever other transactions did.
WritesInScope == \A s \in Sessions : wrote[s] => inScope[s]

\* A request that is answered with an Error frame has changed nothing, though
\* a patch takes two statements and each of them may fail.
RefusedChangesNothing == \A s \in Sessions : reply[s] # NoError => ~wrote[s]

\* No write creates a row, brings back one that was deleted between the check
\* and the write, or gives a row to another owner: only the application does.
OnlyApplicationCreates ==
  [][\A r \in Rows :
       /\ db'[r] # Absent
       /\ db[r] = Absent \/ db'[r].owner # db[r].owner
       => changes' # changes]_vars

\* The read-merge-write of apply_write is not atomic, so a patch can be lost;
\* but only one whose SELECT and UPDATE overlapped those of another patch of
\* the same row.  Every other patch stays in crdt_state while the row exists.
LostOnlyByOverlap ==
  \A r \in Rows : db[r] # Absent =>
    \A p \in stored[r] \ overlapped : db[r].crdt # Null /\ p \in db[r].crdt
=============================================================================
