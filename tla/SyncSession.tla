----------------------------- MODULE SyncSession -----------------------------
(***************************************************************************)
(* One sync client (SyncClient in client.ts) and the gateway task serving  *)
(* its connection (ConnectionHandler in connection.rs), over a WebSocket   *)
(* that may drop at any moment, while the WAL pipeline appends to the op   *)
(* log.  Sessions share only the op log and never write it, so one client  *)
(* stands for any number of them.                                          *)
(*                                                                         *)
(* An operation is a pair <<epoch, LSN>>; its payload plays no part in     *)
(* delivery.  Keepalive, Ping and Write frames change none of this state   *)
(* and are left out.  A bucket stands for both the partition key and the   *)
(* rule name the client knows it by: within one session they correspond    *)
(* one to one.                                                             *)
(***************************************************************************)
EXTENDS OpLogFeed, Sequences

CONSTANTS
  Assignments,   \* the sets of buckets BucketAssigner::assign may grant
  Requests,      \* the bucket sets the application passes to subscribe()
  MaxDrops,      \* bound: connections lost to the network or to an error
  MaxSubscribes  \* bound: subscribe() calls after the first

ASSUME SessionAssumption ==
  /\ Assignments \subseteq SUBSET Buckets /\ Assignments # {}
  /\ Requests \subseteq SUBSET Buckets /\ Requests # {}
  /\ MaxDrops \in Nat /\ MaxSubscribes \in Nat

VARIABLES
  \* the gateway task: phase of ConnectionHandler::run, and its Session
  conn,          \* "down", "handshake", "snapshot" or "serve"
  authorized,    \* keys of Session.authorized_buckets
  lastSeen,      \* Session.last_seen_lsn; None = not in the map
  fresh,         \* buckets whose snapshot is still to be streamed
  toPoll,        \* buckets the current poll_deltas call has not visited
  \* the WebSocket
  s2c, c2s,      \* frames in flight in each direction, in order
  \* the client
  requested,     \* SyncClient.subscribedBuckets
  lastLsn,       \* SyncClient.lastLsn; None = undefined
  received,      \* operations handed to the delta handlers, per bucket
  bootstrapped,  \* buckets whose snapshot the client has received
  \* history and bounds
  sent,          \* LSNs sent on this connection, per bucket
  drops, subscribes

serverVars == <<conn, authorized, lastSeen, fresh, toPoll, sent>>
clientVars == <<requested, lastLsn, received, bootstrapped>>
bounds == <<drops, subscribes>>
vars == <<feedVars, serverVars, s2c, c2s, clientVars, bounds>>

-----------------------------------------------------------------------------
Ops == Epoch \X Lsn
DeltaFrame(b, o, l) == [type |-> "Delta", bucket |-> b, ops |-> o, lsn |-> l]
SnapshotFrame(b) == [type |-> "Snapshot", bucket |-> b]
ErrorFrame == [type |-> "Error"]
SubscribeFrame(r, l) == [type |-> "Subscribe", buckets |-> r, resume |-> l]
AckFrame(l) == [type |-> "Ack", lsn |-> l]

ServerFrames ==
  [type : {"Delta"}, bucket : Buckets, ops : SUBSET Ops, lsn : Lsn]
    \cup [type : {"Snapshot"}, bucket : Buckets]
    \cup [type : {"Error"}]
ClientFrames ==
  [type : {"Subscribe"}, buckets : SUBSET Buckets, resume : Lsn \cup {None}]
    \cup [type : {"Ack"}, lsn : Lsn]

TypeOK ==
  /\ FeedTypeOK
  /\ conn \in {"down", "handshake", "snapshot", "serve"}
  /\ authorized \subseteq Buckets
  /\ lastSeen \in [Buckets -> Lsn \cup {None}]
  /\ fresh \subseteq Buckets
  /\ toPoll \subseteq Buckets
  /\ s2c \in Seq(ServerFrames)
  /\ c2s \in Seq(ClientFrames)
  /\ requested \subseteq Buckets
  /\ lastLsn \in Lsn \cup {None}
  /\ received \in [Buckets -> SUBSET Ops]
  /\ bootstrapped \subseteq Buckets
  /\ sent \in [Buckets -> SUBSET Lsn]
  /\ drops \in Nat
  /\ subscribes \in Nat

Init ==
  /\ FeedInit
  /\ conn = "down"
  /\ authorized = {}
  /\ lastSeen = [b \in Buckets |-> None]
  /\ fresh = {}
  /\ toPoll = {}
  /\ s2c = <<>>
  /\ c2s = <<>>
  /\ requested \in Requests
  /\ lastLsn = None
  /\ received = [b \in Buckets |-> {}]
  /\ bootstrapped = {}
  /\ sent = [b \in Buckets |-> {}]
  /\ drops = 0
  /\ subscribes = 0

-----------------------------------------------------------------------------
(* Faulty variants of definitions below, named Bad...: each one is what an *)
(* easy mistake in the code would make of it, and breaks a property.       *)

\* Snapshots for the resuming clients instead of the new ones.
BadToSnapshot(resume, granted) == IF resume = None THEN {} ELSE granted

\* The scan starts at the delivered position instead of one past it.
BadScanFrom(b) == IF lastSeen[b] = None THEN 0 ELSE lastSeen[b]

\* drain_since with an exclusive lower bound, on top of the caller's + 1.
BadDrained(b) == {l \in Stored(b) : lastSeen[b] + 1 < l}

\* The end of the batch is taken as exclusive.
BadHighest(S) == {l + 1 : l \in {h \in S : \A k \in S : k <= h}}

\* An Ack moves the positions past the acknowledged LSN.
BadRaiseAll(l) ==
  [b \in Buckets |-> IF lastSeen[b] # None /\ lastSeen[b] <= l /\ l < MaxLsn
                     THEN l + 1 ELSE lastSeen[b]]

-----------------------------------------------------------------------------
(* The gateway task.                                                       *)

\* connect(): the socket opens and its "open" listener sends Subscribe with
\* the client's only resume position.
Connect ==
  /\ conn = "down"
  /\ conn' = "handshake"
  /\ c2s' = <<SubscribeFrame(requested, lastLsn)>>
  /\ s2c' = <<>>
  /\ sent' = [b \in Buckets |-> {}]
  /\ UNCHANGED <<feedVars, authorized, lastSeen, fresh, toPoll, clientVars, bounds>>

\* deliver_snapshots() does nothing for a client that resumes.
ToSnapshot(resume, granted) == IF resume = None THEN granted ELSE {}

\* handshake(): the authorized buckets are the assigned ones the client asked
\* for, and a resume position applies to every one of them.  Without one,
\* deliver_snapshots() streams each bucket before serve() starts.
Handshake ==
  /\ conn = "handshake" /\ c2s # <<>>
  /\ \E assigned \in Assignments :
       LET sub == Head(c2s)
           granted == assigned \cap sub.buckets
       IN /\ authorized' = granted
          /\ lastSeen' = [b \in Buckets |-> IF b \in granted THEN sub.resume ELSE None]
          /\ fresh' = ToSnapshot(sub.resume, granted)
          /\ conn' = IF fresh' = {} THEN "serve" ELSE "snapshot"
  /\ toPoll' = {}
  /\ c2s' = Tail(c2s)
  /\ UNCHANGED <<feedVars, s2c, sent, clientVars, bounds>>

\* One iteration of the loop of deliver_snapshots(): SnapshotBegin, the
\* batches and SnapshotComplete of one bucket.  last_seen_lsn is not set.
DeliverSnapshot(b) ==
  /\ conn = "snapshot" /\ b \in fresh
  /\ s2c' = Append(s2c, SnapshotFrame(b))
  /\ fresh' = fresh \ {b}
  /\ conn' = IF fresh' = {} THEN "serve" ELSE "snapshot"
  /\ UNCHANGED <<feedVars, authorized, lastSeen, toPoll, sent, c2s, clientVars, bounds>>

\* delta_poll ticks: poll_deltas() visits every authorized bucket, in an
\* order the HashMap leaves open.  The task does nothing else until it is done.
PollTick ==
  /\ conn = "serve" /\ toPoll = {}
  /\ toPoll' = authorized
  /\ UNCHANGED <<feedVars, conn, authorized, lastSeen, fresh, sent, s2c, c2s, clientVars, bounds>>

ScanFrom(b) == IF lastSeen[b] = None THEN 0 ELSE lastSeen[b] + 1

\* drain_since: the entries at or above the scan start, in one read snapshot.
Drained(b) == {l \in Stored(b) : l >= ScanFrom(b)}

\* max_lsn: the greatest of a batch, as a set of one.
Highest(S) == {h \in S : \A k \in S : k <= h}

\* One iteration of the loop of poll_deltas().
PollBucket(b) ==
  /\ conn = "serve" /\ b \in toPoll
  /\ toPoll' = toPoll \ {b}
  /\ LET lsns == Drained(b)
     IN \/ /\ lsns = {}
           /\ UNCHANGED <<s2c, lastSeen, sent>>
        \/ /\ lsns # {}
           /\ \E h \in Highest(lsns) :
                /\ s2c' = Append(s2c, DeltaFrame(b, {<<ops[b][l], l>> : l \in lsns}, h))
                /\ lastSeen' = [lastSeen EXCEPT ![b] = h]
           /\ sent' = [sent EXCEPT ![b] = @ \cup lsns]
  /\ UNCHANGED <<feedVars, conn, authorized, fresh, c2s, clientVars, bounds>>

\* Ack: every tracked bucket's position is raised to the acknowledged LSN.
RaiseAll(l) ==
  [b \in Buckets |-> IF lastSeen[b] # None /\ lastSeen[b] < l THEN l ELSE lastSeen[b]]

HandleAck ==
  /\ conn = "serve" /\ toPoll = {} /\ c2s # <<>>
  /\ Head(c2s).type = "Ack"
  /\ lastSeen' = RaiseAll(Head(c2s).lsn)
  /\ c2s' = Tail(c2s)
  /\ UNCHANGED <<feedVars, conn, authorized, fresh, toPoll, sent, s2c, clientVars, bounds>>

\* A Subscribe after the first one is answered with an Error frame and has no
\* other effect.
RefuseSubscribe ==
  /\ conn = "serve" /\ toPoll = {} /\ c2s # <<>>
  /\ Head(c2s).type = "Subscribe"
  /\ s2c' = Append(s2c, ErrorFrame)
  /\ c2s' = Tail(c2s)
  /\ UNCHANGED <<feedVars, serverVars, clientVars, bounds>>

-----------------------------------------------------------------------------
(* The client.                                                             *)

\* handleMessage(): Delta.  The position becomes this Delta's LSN, whatever
\* its bucket and whatever it was before; then the handlers run and the LSN
\* is acknowledged.
ReceiveDelta ==
  /\ s2c # <<>> /\ Head(s2c).type = "Delta"
  /\ LET m == Head(s2c)
     IN /\ lastLsn' = m.lsn
        /\ received' = [received EXCEPT ![m.bucket] = @ \cup m.ops]
        /\ c2s' = Append(c2s, AckFrame(m.lsn))
  /\ s2c' = Tail(s2c)
  /\ UNCHANGED <<feedVars, serverVars, requested, bootstrapped, bounds>>

ReceiveSnapshot ==
  /\ s2c # <<>> /\ Head(s2c).type = "Snapshot"
  /\ bootstrapped' = bootstrapped \cup {Head(s2c).bucket}
  /\ s2c' = Tail(s2c)
  /\ UNCHANGED <<feedVars, serverVars, c2s, requested, lastLsn, received, bounds>>

\* An Error frame only changes the status shown to the application.
ReceiveError ==
  /\ s2c # <<>> /\ Head(s2c).type = "Error"
  /\ s2c' = Tail(s2c)
  /\ UNCHANGED <<feedVars, serverVars, c2s, clientVars, bounds>>

\* subscribe() again: on an open socket it sends a Subscribe frame, otherwise
\* the bucket list waits for the next connection.
Subscribe ==
  /\ subscribes < MaxSubscribes
  /\ subscribes' = subscribes + 1
  /\ requested' \in Requests
  /\ c2s' = IF conn = "down" THEN c2s
            ELSE Append(c2s, SubscribeFrame(requested', lastLsn))
  /\ UNCHANGED <<feedVars, serverVars, s2c, lastLsn, received, bootstrapped, drops>>

-----------------------------------------------------------------------------
(* The environment.                                                        *)

CloseConnection ==
  /\ conn' = "down"
  /\ authorized' = {}
  /\ lastSeen' = [b \in Buckets |-> None]
  /\ fresh' = {}
  /\ toPoll' = {}
  /\ s2c' = <<>>
  /\ c2s' = <<>>
  /\ sent' = [b \in Buckets |-> {}]

\* The connection ends: a network failure, a refused handshake, or an error
\* of the op log or of Postgres that makes run() return.  Frames in flight
\* are lost; the client keeps its position.
Drop ==
  /\ conn # "down"
  /\ drops < MaxDrops
  /\ drops' = drops + 1
  /\ CloseConnection
  /\ UNCHANGED <<feedVars, clientVars, subscribes>>

\* The server process is replaced; its connections die with it.
ServerRestart ==
  /\ Restart
  /\ CloseConnection
  /\ UNCHANGED <<clientVars, bounds>>

\* The WAL pipeline appends an operation.
RouteOp ==
  /\ \E b \in Buckets, l \in Lsn : AppendOp(b, l)
  /\ UNCHANGED <<serverVars, s2c, c2s, clientVars, bounds>>

-----------------------------------------------------------------------------
Next ==
  \/ Connect \/ Handshake \/ PollTick \/ HandleAck \/ RefuseSubscribe
  \/ \E b \in Buckets : DeliverSnapshot(b)
  \/ \E b \in Buckets : PollBucket(b)
  \/ ReceiveDelta \/ ReceiveSnapshot \/ ReceiveError \/ Subscribe
  \/ Drop \/ ServerRestart \/ RouteOp

Spec == Init /\ [][Next]_vars

(***************************************************************************)
(* The scheduling the code provides: ReconnectScheduler always reconnects, *)
(* tokio::select! picks fairly among ready branches and delta_poll keeps   *)
(* ticking, and an open socket delivers what was written to it.            *)
(***************************************************************************)
Fairness ==
  /\ WF_vars(Connect)
  /\ WF_vars(Handshake)
  /\ WF_vars(PollTick)
  /\ WF_vars(ReceiveDelta)
  /\ WF_vars(ReceiveSnapshot)
  /\ WF_vars(ReceiveError)
  /\ \A b \in Buckets : WF_vars(DeliverSnapshot(b)) /\ WF_vars(PollBucket(b))

FairSpec == Spec /\ Fairness

-----------------------------------------------------------------------------
(* Properties.                                                             *)

Frames == {s2c[i] : i \in 1..Len(s2c)}

InFlight(b) == UNION {m.ops : m \in {f \in Frames : f.type = "Delta" /\ f.bucket = b}}

\* The operation now stored at (b, l) has reached the client, or will unless
\* the connection drops.
Delivered(b, l) == <<ops[b][l], l>> \in received[b] \cup InFlight(b)

SendsOnlyNewOps ==
  Len(s2c') = Len(s2c) + 1 /\ s2c'[Len(s2c')].type = "Delta"
    => LET m == s2c'[Len(s2c')]
       IN \A o \in m.ops, l \in sent[m.bucket] : l < o[2]

\* poll_deltas() scans from one past what it delivered: no Delta carries an
\* operation at or below one this connection already sent for the bucket.
NoResend == [][SendsOnlyNewOps]_vars

\* connection.rs:478 says last_seen_lsn is "the highest LSN already delivered
\* to this client (inclusive)": nothing stored at or below it is undelivered.
NoSkippedOps ==
  \A b \in authorized : \A l \in Stored(b) :
    l <= lastSeen[b] => Delivered(b, l)

\* What is true of it for any number of buckets: an operation is passed over
\* only if the client has acknowledged another bucket at its LSN or above.
SkippedOnlyByAnotherBucket ==
  \A b \in authorized : \A l \in Stored(b) :
    l <= lastSeen[b] =>
      \/ Delivered(b, l)
      \/ \E c \in Buckets \ {b} : \E o \in received[c] : l <= o[2]

\* The client has the operation for good, or has acknowledged another bucket
\* at its LSN or above.
Has(b, l) ==
  \/ <<ops[b][l], l>> \in received[b]
  \/ \E c \in Buckets \ {b} : \E o \in received[c] : l <= o[2]

\* One of the first n frames in flight to the client carries the operation.
Carried(b, l, n) ==
  \E i \in 1..n :
    s2c[i].type = "Delta" /\ s2c[i].bucket = b /\ <<ops[b][l], l>> \in s2c[i].ops

\* A position the client may report: the LSN of an operation it received, with
\* everything stored up to it accounted for.
SafePosition(p) ==
  \/ p = None
  \/ /\ \E c \in Buckets : p \in Stored(c) /\ <<ops[c][p], p>> \in received[c]
     /\ \A b \in Buckets : \A l \in Stored(b) : l <= p => Has(b, l)

Position(m) == IF m.type = "Ack" THEN m.lsn ELSE m.resume

\* A Delta in flight is headed by its LSN, and it and the frames before it
\* complete its bucket up to there.
DeltaComplete(i) ==
  LET m == s2c[i]
  IN /\ m.lsn \in Stored(m.bucket)
     /\ <<ops[m.bucket][m.lsn], m.lsn>> \in m.ops
     /\ \A o \in m.ops : o[2] \in Stored(m.bucket) /\ o[2] <= m.lsn
     /\ \A l \in Stored(m.bucket) : l <= m.lsn => Has(m.bucket, l) \/ Carried(m.bucket, l, i)

\* The gateway's position for a bucket is an operation of the bucket or one
\* that the client has acknowledged for another, and all up to it is sent.
CursorComplete(b) ==
  /\ \/ lastSeen[b] \in Stored(b)
     \/ \E c \in Buckets \ {b} : \E o \in received[c] : lastSeen[b] <= o[2]
  /\ \A l \in Stored(b) : l <= lastSeen[b] => Has(b, l) \/ Carried(b, l, Len(s2c))

\* Why nothing is skipped for another reason, as an inductive invariant of one
\* server process: every position the client holds or has sent is safe, and
\* every Delta in flight and every position of the gateway is complete.
DeliveryInv ==
  /\ \A b \in Buckets : \A l \in Stored(b) : l <= frontier
  /\ \A b \in Buckets : \A o \in received[b] : o[2] \in Stored(b)
  /\ SafePosition(lastLsn)
  /\ \A i \in 1..Len(c2s) : SafePosition(Position(c2s[i]))
  /\ \A i \in 1..Len(s2c) : s2c[i].type = "Delta" => DeltaComplete(i)
  /\ \A b \in Buckets : lastSeen[b] # None => CursorComplete(b)

\* deliver_snapshots() precedes serve(): a bucket's first operations reach
\* the client after its snapshot, across any number of reconnects.
SnapshotBeforeDeltas ==
  \A b \in Buckets : received[b] # {} => b \in bootstrapped

\* poll_deltas() reaches everything ahead of it: an operation above both the
\* client's and the gateway's position reaches the client, through drops,
\* snapshots and restarts, unless its op-log entry is overwritten first.  Within
\* one process LSNs only grow, and that is every operation.
AheadOfClientDelivered ==
  \A b \in Buckets, l \in Lsn, e \in Epoch :
    (ops[b][l] = e /\ lastLsn < l /\ lastSeen[b] < l)
      ~> (<<e, l>> \in received[b] \/ ops[b][l] # e)

-----------------------------------------------------------------------------
(* Statements of docs and comments that the code does not meet: TLC        *)
(* refutes each of them on the instance README.md gives for it.            *)

\* messages.rs:91 says resume_lsn is "the last LSN the client has already
\* applied": resuming from it passes over no operation the client lacks.
ResumeLosesNothing ==
  [][Handshake => \A b \in authorized' : \A l \in Stored(b) :
       l <= lastSeen'[b] => <<ops[b][l], l>> \in received[b]]_vars

\* subscribe() is "safe to call ... on an already-connected client"
\* (client.ts:66): the gateway answers no Subscribe with an error.
SubscribeAccepted == ErrorFrame \notin Frames
=============================================================================
