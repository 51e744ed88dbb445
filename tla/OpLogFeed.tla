------------------------------ MODULE OpLogFeed ------------------------------
(***************************************************************************)
(* What the WAL pipeline (broker, router, op log) promises to the readers  *)
(* of the op log.  Within one server process every append is at the LSN of *)
(* the previous append or above it: the writer task of                     *)
(* WalToBucketRouter::run finishes all appends of one event before it takes *)
(* the next one.  A restart keeps the redb tables and starts the LSNs      *)
(* again from zero, because InProcessBroker::next_offset lives in memory.  *)
(* WalRouter is shown to implement this module, and SyncSession reads the   *)
(* op log through it.                                                       *)
(***************************************************************************)
EXTENDS Integers

CONSTANTS
  Buckets,    \* op-log partitions (BucketId)
  MaxLsn,     \* bound: highest LSN the model appends at
  MaxEpoch    \* bound: number of server processes, one after the other

ASSUME FeedAssumption == MaxLsn \in Nat /\ MaxEpoch \in Nat \ {0}

VARIABLES
  ops,        \* the BUCKET_OPS table; 0 = no entry, otherwise the process
              \* that wrote it: (epoch, LSN) identifies the operation
  epoch,      \* the running server process, counted from 1
  frontier    \* LSN of the last append of this process, None before it

feedVars == <<ops, epoch, frontier>>

None == -1
Lsn == 0..MaxLsn
Epoch == 1..MaxEpoch
Absent == 0

Stored(b) == {l \in Lsn : ops[b][l] # Absent}

FeedTypeOK ==
  /\ ops \in [Buckets -> [Lsn -> Epoch \cup {Absent}]]
  /\ epoch \in Epoch
  /\ frontier \in Lsn \cup {None}

FeedInit ==
  /\ ops = [b \in Buckets |-> [l \in Lsn |-> Absent]]
  /\ epoch = 1
  /\ frontier = None

\* One committed append; an entry already under the key is replaced.
AppendOp(b, l) ==
  /\ l >= frontier
  /\ ops' = [ops EXCEPT ![b][l] = epoch]
  /\ frontier' = l
  /\ UNCHANGED epoch

\* The process ends and the next one opens the same database.
Restart ==
  /\ epoch < MaxEpoch
  /\ epoch' = epoch + 1
  /\ frontier' = None
  /\ UNCHANGED ops

FeedNext ==
  \/ \E b \in Buckets, l \in Lsn : AppendOp(b, l)
  \/ Restart

FeedSpec == FeedInit /\ [][FeedNext]_feedVars

=============================================================================
