------------------------------ MODULE WalRouter ------------------------------
(***************************************************************************)
(* The WAL pipeline of one pes-server process after another:               *)
(*                                                                         *)
(*   Postgres WAL -> PostgresCdcConsumer -> InProcessBroker -> receive loop *)
(*     of WalToBucketRouter::run -> mpsc -> writer task -> one append task  *)
(*     per affected bucket -> BucketOpLog.                                 *)
(*                                                                         *)
(* A WAL event is the set of buckets its row matches                        *)
(* (row_matches_assignment); an event that cannot be decoded matches none.  *)
(* Only the redb tables and the replication slot outlive a process.         *)
(***************************************************************************)
EXTENDS Integers, Sequences, FiniteSets

CONSTANTS
  Subs,                  \* JWT subjects
  Buckets,               \* op-log partitions
  Rows,                  \* the sets of buckets a changed row may match
  BucketsOf,             \* the buckets of the assignments of each subject
  ChannelBuffer,         \* broker.rs: CHANNEL_BUFFER
  BackpressureCapacity,  \* router.rs: BACKPRESSURE_CAPACITY
  MaxEvents,             \* bound: WAL events
  MaxEpoch,              \* bound: server processes
  MaxFailures            \* bound: appends that fail

ASSUME RouterAssumption ==
  /\ IsFiniteSet(Subs)
  /\ Rows \subseteq SUBSET Buckets
  /\ BucketsOf \in [Subs -> SUBSET Buckets]
  /\ ChannelBuffer \in Nat \ {0}
  /\ BackpressureCapacity \in Nat \ {0}
  /\ MaxEvents \in Nat \ {0}
  /\ MaxEpoch \in Nat \ {0}
  /\ MaxFailures \in Nat

VARIABLES
  \* outlive a process
  wal,         \* committed events: each the set of buckets it matches
  confirmed,   \* replication slot: events the consumer has confirmed
  log,         \* BUCKET_OPS
  folds,       \* BUCKET_CHECKSUMS: the operations folded into each checksum
  \* PostgresCdcConsumer and InProcessBroker
  cursor,      \* last event handed to publish()
  publishing,  \* the envelope whose send() is pending in publish()
  nextOffset,  \* InProcessBroker.next_offset
  brokerQ,     \* the broker's channel
  \* WalToBucketRouter
  held,        \* the envelope whose send() is pending in run()
  routerQ,     \* the router's channel
  writing,     \* the envelope in route_one_event
  pending,     \* its append tasks still running, per bucket
  \* BucketAssigner and the sessions
  live,        \* subjects with an unexpired cache entry
  open,        \* subjects with a connected session
  \* history
  epoch,       \* the running process
  base,        \* the slot position it started from
  settled,     \* last event the writer task is done with
  frontier,    \* LSN of its last append, -1 before the first
  liveFrom,    \* first event routed with the subject's current cache entry
  failed       \* <<bucket, event>> of its appends that failed

cdcVars == <<cursor, publishing, nextOffset, brokerQ>>
routerVars == <<held, routerQ, writing, pending, settled>>
storeVars == <<log, folds, frontier>>
assignVars == <<live, open, liveFrom>>
procVars == <<epoch, base>>
vars == <<wal, confirmed, cdcVars, routerVars, storeVars, assignVars, procVars, failed>>

\* InProcessBroker::new(): a process numbers its events from zero.
FirstOffset == 0

Lsn == 0..(MaxEvents - 1)
Event == 1..MaxEvents
Epoch == 1..MaxEpoch
NoEntry == [epoch |-> 0, ev |-> 0]
Entries == [epoch : Epoch, ev : Event]
Envelopes == [ev : Event, offset : Lsn]
NoTasks == [b \in Buckets |-> 0]
-----------------------------------------------------------------------------
TypeOK ==
  /\ wal \in Seq(SUBSET Buckets) /\ Len(wal) <= MaxEvents
  /\ confirmed \in 0..Len(wal)
  /\ log \in [Buckets -> [Lsn -> Entries \cup {NoEntry}]]
  /\ folds \in [Buckets -> Seq(Entries)]
  /\ cursor \in 0..Len(wal)
  /\ publishing \in Seq(Envelopes) /\ Len(publishing) <= 1
  /\ nextOffset \in 0..MaxEvents
  /\ brokerQ \in Seq(Envelopes)
  /\ held \in Seq(Envelopes) /\ Len(held) <= 1
  /\ routerQ \in Seq(Envelopes)
  /\ writing \in Seq(Envelopes) /\ Len(writing) <= 1
  /\ pending \in [Buckets -> Nat]
  /\ live \subseteq Subs
  /\ open \subseteq Subs
  /\ epoch \in Epoch
  /\ base \in 0..Len(wal)
  /\ settled \in 0..Len(wal)
  /\ frontier \in Lsn \cup {-1}
  /\ liveFrom \in [Subs -> Nat]
  /\ failed \subseteq Buckets \X Event

Init ==
  /\ wal = <<>>
  /\ confirmed = 0
  /\ log = [b \in Buckets |-> [l \in Lsn |-> NoEntry]]
  /\ folds = [b \in Buckets |-> <<>>]
  /\ cursor = 0 /\ publishing = <<>> /\ nextOffset = FirstOffset /\ brokerQ = <<>>
  /\ held = <<>> /\ routerQ = <<>> /\ writing = <<>> /\ pending = NoTasks
  /\ live = {} /\ open = {} /\ liveFrom = [s \in Subs |-> 0]
  /\ epoch = 1 /\ base = 0 /\ settled = 0 /\ frontier = -1
  /\ failed = {}

-----------------------------------------------------------------------------
(* Faulty variants of definitions below, named Bad...: each one is what an *)
(* easy mistake in the code would make of it, and breaks a property.       *)

\* try_send() in publish(): a full channel loses the envelope.
BadPublishSend ==
  /\ publishing # <<>>
  /\ brokerQ' = IF Len(brokerQ) < ChannelBuffer THEN brokerQ \o publishing ELSE brokerQ
  /\ publishing' = <<>>
  /\ UNCHANGED <<wal, confirmed, cursor, nextOffset, routerVars, storeVars, assignVars, procVars, failed>>

\* An unbounded channel between run() and the writer task.
UnboundedForward ==
  /\ held # <<>>
  /\ routerQ' = routerQ \o held
  /\ held' = <<>>
  /\ UNCHANGED <<wal, confirmed, cdcVars, writing, pending, settled, storeVars, assignVars, procVars, failed>>

\* run() wants one slot more than the channel has.
BlockedForward ==
  /\ held # <<>> /\ Len(routerQ) + 1 < BackpressureCapacity
  /\ routerQ' = routerQ \o held
  /\ held' = <<>>
  /\ UNCHANGED <<wal, confirmed, cdcVars, writing, pending, settled, storeVars, assignVars, procVars, failed>>

\* Only connected sessions are routed to, not all cached assignments.
BadAffected(e) ==
  [b \in Buckets |-> IF b \in wal[e] THEN Cardinality({s \in open : b \in BucketsOf[s]}) ELSE 0]

\* An append that reports an error after its commit is tried again.
BadAppendFails(b) ==
  /\ pending[b] > 0 /\ Cardinality(failed) < MaxFailures
  /\ LET entry == [epoch |-> epoch, ev |-> writing[1].ev]
     IN /\ log' = [log EXCEPT ![b][writing[1].offset] = entry]
        /\ folds' = [folds EXCEPT ![b] = Append(@, entry)]
  /\ frontier' = writing[1].offset
  /\ failed' = failed \cup {<<b, writing[1].ev>>}
  /\ UNCHANGED <<wal, confirmed, cdcVars, routerVars, assignVars, procVars>>

\* An append leaves only its own entry in the bucket.
BadAppendOp(b) ==
  /\ pending[b] > 0
  /\ LET entry == [epoch |-> epoch, ev |-> writing[1].ev]
     IN /\ log' = [log EXCEPT ![b] = [l \in Lsn |-> IF l = writing[1].offset THEN entry ELSE NoEntry]]
        /\ folds' = [folds EXCEPT ![b] = Append(@, entry)]
  /\ frontier' = writing[1].offset
  /\ pending' = [pending EXCEPT ![b] = @ - 1]
  /\ UNCHANGED <<wal, confirmed, cdcVars, held, routerQ, writing, settled, assignVars, procVars, failed>>

-----------------------------------------------------------------------------
(* Postgres and PostgresCdcConsumer: external.                             *)

Commit ==
  /\ Len(wal) < MaxEvents
  /\ \E row \in Rows : wal' = Append(wal, row)
  /\ UNCHANGED <<confirmed, cdcVars, routerVars, storeVars, assignVars, procVars, failed>>

\* WAL feedback: an event may be confirmed once its publish() has returned.
Confirm ==
  /\ confirmed < cursor - Len(publishing)
  /\ confirmed' = confirmed + 1
  /\ UNCHANGED <<wal, cdcVars, routerVars, storeVars, assignVars, procVars, failed>>

-----------------------------------------------------------------------------
(* InProcessBroker.                                                        *)

\* publish(): the offset is taken under the lock ...
Publish ==
  /\ publishing = <<>> /\ cursor < Len(wal)
  /\ publishing' = <<[ev |-> cursor + 1, offset |-> nextOffset]>>
  /\ nextOffset' = nextOffset + 1
  /\ cursor' = cursor + 1
  /\ UNCHANGED <<wal, confirmed, brokerQ, routerVars, storeVars, assignVars, procVars, failed>>

\* ... and send() waits for room in the channel.
PublishSend ==
  /\ publishing # <<>> /\ Len(brokerQ) < ChannelBuffer
  /\ brokerQ' = brokerQ \o publishing
  /\ publishing' = <<>>
  /\ UNCHANGED <<wal, confirmed, cursor, nextOffset, routerVars, storeVars, assignVars, procVars, failed>>

-----------------------------------------------------------------------------
(* WalToBucketRouter.                                                      *)

\* run(): the next envelope comes off the broker's stream ...
Receive ==
  /\ held = <<>> /\ brokerQ # <<>>
  /\ held' = <<Head(brokerQ)>>
  /\ brokerQ' = Tail(brokerQ)
  /\ UNCHANGED <<wal, confirmed, cursor, publishing, nextOffset, routerQ, writing, pending, settled,
                 storeVars, assignVars, procVars, failed>>

\* ... and tx.send() waits for room before another is taken.
Forward ==
  /\ held # <<>> /\ Len(routerQ) < BackpressureCapacity
  /\ routerQ' = routerQ \o held
  /\ held' = <<>>
  /\ UNCHANGED <<wal, confirmed, cdcVars, writing, pending, settled, storeVars, assignVars, procVars, failed>>

\* find_affected_buckets(): one entry per unexpired assignment the row
\* matches, so a bucket two subjects share is listed twice.  An envelope
\* whose payload does not decode is a row that matches nothing.
Affected(e) ==
  [b \in Buckets |-> IF b \in wal[e] THEN Cardinality({s \in live : b \in BucketsOf[s]}) ELSE 0]

\* The writer task receives an envelope; route_one_event() finds the affected
\* buckets and spawns their appends, or returns if there are none.
RouteOneEvent ==
  /\ writing = <<>> /\ routerQ # <<>>
  /\ routerQ' = Tail(routerQ)
  /\ LET e == Head(routerQ).ev
     IN \/ /\ Affected(e) = NoTasks
           /\ settled' = e
           /\ UNCHANGED <<writing, pending>>
        \/ /\ Affected(e) # NoTasks
           /\ writing' = <<Head(routerQ)>>
           /\ pending' = Affected(e)
           /\ UNCHANGED settled
  /\ UNCHANGED <<wal, confirmed, cdcVars, held, storeVars, assignVars, procVars, failed>>

\* An append task commits its transaction: the entry replaces whatever is
\* under its key, and its payload is folded into the checksum.
AppendOp(b) ==
  /\ pending[b] > 0
  /\ LET env == writing[1]
         entry == [epoch |-> epoch, ev |-> env.ev]
     IN /\ log' = [log EXCEPT ![b][env.offset] = entry]
        /\ folds' = [folds EXCEPT ![b] = Append(@, entry)]
        /\ frontier' = env.offset
  /\ pending' = [pending EXCEPT ![b] = @ - 1]
  /\ UNCHANGED <<wal, confirmed, cdcVars, held, routerQ, writing, settled, assignVars, procVars, failed>>

\* An append task fails; the error is logged and the operation is gone.
AppendFails(b) ==
  /\ pending[b] > 0 /\ Cardinality(failed) < MaxFailures
  /\ failed' = failed \cup {<<b, writing[1].ev>>}
  /\ pending' = [pending EXCEPT ![b] = @ - 1]
  /\ UNCHANGED <<wal, confirmed, cdcVars, held, routerQ, writing, settled, storeVars, assignVars, procVars>>

\* join_all() returns and the writer task turns to its channel again.
JoinAll ==
  /\ writing # <<>> /\ pending = NoTasks
  /\ settled' = writing[1].ev
  /\ writing' = <<>>
  /\ UNCHANGED <<wal, confirmed, cdcVars, held, routerQ, pending, storeVars, assignVars, procVars, failed>>

-----------------------------------------------------------------------------
(* BucketAssigner and the sessions.                                        *)

NextRouted == IF writing = <<>> THEN settled + 1 ELSE writing[1].ev + 1

\* A handshake calls assign(): a cached entry is used as it is, otherwise one
\* is resolved and inserted.
Subscribe(s) ==
  /\ s \notin open
  /\ open' = open \cup {s}
  /\ live' = live \cup {s}
  /\ liveFrom' = IF s \in live THEN liveFrom ELSE [liveFrom EXCEPT ![s] = NextRouted]
  /\ UNCHANGED <<wal, confirmed, cdcVars, routerVars, storeVars, procVars, failed>>

Disconnect(s) ==
  /\ s \in open
  /\ open' = open \ {s}
  /\ UNCHANGED <<wal, confirmed, cdcVars, routerVars, storeVars, live, liveFrom, procVars, failed>>

\* cache_ttl passes since the entry was inserted, session or no session.
Expire(s) ==
  /\ s \in live
  /\ live' = live \ {s}
  /\ UNCHANGED <<wal, confirmed, cdcVars, routerVars, storeVars, open, liveFrom, procVars, failed>>

-----------------------------------------------------------------------------
\* The process ends, by SIGTERM (main.rs aborts the router with whatever it
\* holds) or by a crash, and the next one starts from the slot's position.
Restart ==
  /\ epoch < MaxEpoch
  /\ epoch' = epoch + 1
  /\ base' = confirmed /\ cursor' = confirmed /\ settled' = confirmed
  /\ publishing' = <<>> /\ nextOffset' = FirstOffset /\ brokerQ' = <<>>
  /\ held' = <<>> /\ routerQ' = <<>> /\ writing' = <<>> /\ pending' = NoTasks
  /\ live' = {} /\ open' = {} /\ liveFrom' = [s \in Subs |-> 0]
  /\ frontier' = -1 /\ failed' = {}
  /\ UNCHANGED <<wal, confirmed, log, folds>>

Next ==
  \/ Commit \/ Confirm \/ Publish \/ PublishSend \/ Receive \/ Forward
  \/ RouteOneEvent \/ JoinAll \/ Restart
  \/ \E b \in Buckets : AppendOp(b)
  \/ \E b \in Buckets : AppendFails(b)
  \/ \E s \in Subs : Subscribe(s)
  \/ \E s \in Subs : Disconnect(s)
  \/ \E s \in Subs : Expire(s)

Spec == Init /\ [][Next]_vars

(***************************************************************************)
(* Tokio runs every task that is ready, a channel with room accepts the    *)
(* waiting send, and the consumer keeps reading the slot.  Nothing is      *)
(* assumed of clients, of the cache's expiry, of failures or of restarts.  *)
(***************************************************************************)
Fairness ==
  /\ WF_vars(Publish) /\ WF_vars(PublishSend)
  /\ WF_vars(Receive) /\ WF_vars(Forward)
  /\ WF_vars(RouteOneEvent) /\ WF_vars(JoinAll)
  /\ WF_vars(\E b \in Buckets : AppendOp(b))

FairSpec == Spec /\ Fairness

-----------------------------------------------------------------------------
(* Properties.                                                             *)

\* Everything between the WAL and the end of route_one_event, oldest first.
Pipeline == writing \o routerQ \o held \o brokerQ \o publishing

\* Two channels and three hand-over points keep the WAL's order: what is in
\* flight is exactly the events from the first unsettled one to the last one
\* published, and an event's offset is its distance from the slot position
\* this process started at.
PipelineFifo ==
  /\ Len(Pipeline) = cursor - settled
  /\ \A i \in 1..Len(Pipeline) :
       Pipeline[i] = [ev |-> settled + i, offset |-> settled + i - 1 - base]
  /\ nextOffset = cursor - base

\* router.rs:95 promises to throttle WAL consumption "rather than buffering
\* unboundedly in memory": the process holds at most two full channels and
\* the three envelopes between them.
BoundedBuffering == cursor - settled <= ChannelBuffer + BackpressureCapacity + 3

\* Every event routed since a subject's assignment was cached is in each of
\* its buckets the row matches, at the event's own offset and written by this
\* process, unless that append failed.
RoutedCompletely ==
  \A s \in live : \A e \in liveFrom[s]..settled :
    \A b \in BucketsOf[s] \cap wal[e] :
      <<b, e>> \in failed \/ log[b][e - 1 - base] = [epoch |-> epoch, ev |-> e]

\* assigner.rs:272 says the router "appends each changed row exactly once to
\* the oplog partition keyed by bucket_id": no bucket's checksum has the same
\* event of the same process folded in twice.
AppendedOnce ==
  \A b \in Buckets : \A i, j \in 1..Len(folds[b]) : i # j => folds[b][i] # folds[b][j]

\* Every committed event is routed, however full the channels are.
EventuallySettled == \A e \in Event : (Len(wal) >= e) ~> (settled >= e)

\* The pipeline implements what the readers of the op log rely on.
Feed == INSTANCE OpLogFeed WITH
          MaxLsn <- MaxEvents - 1,
          ops <- [b \in Buckets |-> [l \in Lsn |-> log[b][l].epoch]]

ImplementsFeed == Feed!FeedSpec

-----------------------------------------------------------------------------
(* Statements of docs and comments that the code does not meet: TLC        *)
(* refutes each of them on the instance README.md gives for it.            *)

\* store.rs:30 calls the op log append-only: an entry once written is neither
\* replaced by another one nor removed.
AppendOnly ==
  [][\A b \in Buckets, l \in Lsn : log[b][l] # NoEntry => log'[b][l] = log[b][l]]_vars

\* connection.rs:318 says the pipeline propagates a write "back out as a
\* Delta (including to this same connection ...)": an event that matches a
\* bucket of a connected session is routed to it.
RoutedToSessions ==
  [][RouteOneEvent => \A s \in open : \A b \in BucketsOf[s] \cap wal[Head(routerQ).ev] :
       pending'[b] > 0]_vars
=============================================================================
