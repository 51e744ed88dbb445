----------------------------- MODULE BucketOpLog -----------------------------
(***************************************************************************)
(* The op log itself (store.rs): concurrent append() calls, compact(), and *)
(* crashes, over redb's single writer at a time and its snapshots for      *)
(* readers.  Timestamps and cutoffs are read before the write lock is      *)
(* taken, so both may be old when they are used.  A drain_since() only     *)
(* reads, in one snapshot: what it would return is an operator of the      *)
(* state.                                                                  *)
(***************************************************************************)
EXTENDS OpLogKey, FiniteSets

CONSTANTS
  Calls,           \* append() calls; each appends one operation
  BucketIds,       \* bucket ids, as byte sequences
  Lsns,            \* LSNs that are appended at and drained from
  Ttl,             \* compaction_ttl, in seconds
  MaxTime,         \* bound: seconds that pass
  MaxCompactions,  \* bound: compact() calls
  MaxCrashes       \* bound: crashes

ASSUME OpLogAssumption ==
  /\ {"free", "compactor"} \cap Calls = {}
  /\ Lsns \subseteq 0..MaxU64
  /\ BucketIds \subseteq Seq(0..(Base - 1)) /\ \A b \in BucketIds : Len(b) < Base
  /\ Ttl \in Nat /\ MaxTime \in Nat /\ MaxCompactions \in Nat /\ MaxCrashes \in Nat

VARIABLES
  clock,        \* unix_now_secs()
  ops,          \* BUCKET_OPS: a function from keys to stored operations
  checksums,    \* BUCKET_CHECKSUMS: the operations folded in, per bucket
  call,         \* each append() call: its progress and its arguments
  lock,         \* holder of redb's write transaction
  cutoff,       \* of the running compact(), None if there is none
  crashes, compactions,
  kept          \* history: the operations that ought to be stored

vars == <<clock, ops, checksums, call, lock, cutoff, crashes, compactions, kept>>

None == -1
Free == "free"
Compactor == "compactor"
Idle == [st |-> "idle"]

TypeOK ==
  /\ clock \in 0..MaxTime
  /\ \A key \in DOMAIN ops : ops[key] \in [call : Calls, at : 0..MaxTime]
  /\ checksums \in [BucketIds -> Seq(Calls)]
  /\ call \in [Calls -> {Idle} \cup [st : {"stamped", "writing", "done", "failed"},
                                     bucket : BucketIds, lsn : Lsns, at : 0..MaxTime]]
  /\ lock \in Calls \cup {Free, Compactor}
  /\ cutoff \in Nat \cup {None}
  /\ crashes \in Nat /\ compactions \in Nat
  /\ kept \subseteq Calls

Init ==
  /\ clock = 0
  /\ ops = <<>>
  /\ checksums = [b \in BucketIds |-> <<>>]
  /\ call = [k \in Calls |-> Idle]
  /\ lock = Free
  /\ cutoff = None
  /\ crashes = 0 /\ compactions = 0
  /\ kept = {}

-----------------------------------------------------------------------------
(* Faulty variants of definitions below, named Bad...: each one is what an *)
(* easy mistake in the code would make of it, and breaks a property.       *)

\* An entry whose age is just the TTL counts as older than it.
BadExpired(entry) == entry.at <= cutoff

\* append() returns once its transaction has begun.
BadBeginAppend(k) ==
  /\ call[k].st = "stamped" /\ lock = Free
  /\ lock' = k
  /\ call' = [call EXCEPT ![k].st = "done"]
  /\ UNCHANGED <<clock, ops, checksums, cutoff, crashes, compactions, kept>>

\* The hash starts afresh instead of from the previous checksum.
BadFold(b, k) == <<k>>

-----------------------------------------------------------------------------
(* append().                                                               *)

\* The operation is stamped and encoded on the caller's task.
AppendCall(k) ==
  /\ call[k] = Idle
  /\ \E b \in BucketIds, l \in Lsns :
       call' = [call EXCEPT ![k] = [st |-> "stamped", bucket |-> b, lsn |-> l, at |-> clock]]
  /\ UNCHANGED <<clock, ops, checksums, lock, cutoff, crashes, compactions, kept>>

\* begin_write() waits for the writer before.
BeginAppend(k) ==
  /\ call[k].st = "stamped" /\ lock = Free
  /\ lock' = k
  /\ call' = [call EXCEPT ![k].st = "writing"]
  /\ UNCHANGED <<clock, ops, checksums, cutoff, crashes, compactions, kept>>

Key(k) == make_key(call[k].bucket, call[k].lsn)

\* fold_checksum(): the running checksum is a hash of the operations so far.
Fold(b, k) == Append(checksums[b], k)

\* The insert replaces an entry under the same key; the checksum is read,
\* folded and written in the same transaction.
CommitAppend(k) ==
  /\ lock = k
  /\ ops' = [key \in DOMAIN ops \cup {Key(k)} |->
               IF key = Key(k) THEN [call |-> k, at |-> call[k].at] ELSE ops[key]]
  /\ checksums' = [checksums EXCEPT ![call[k].bucket] = Fold(call[k].bucket, k)]
  /\ call' = [call EXCEPT ![k].st = "done"]
  /\ lock' = Free
  /\ kept' = {j \in kept : <<call[j].bucket, call[j].lsn>> # <<call[k].bucket, call[k].lsn>>} \cup {k}
  /\ UNCHANGED <<clock, cutoff, crashes, compactions>>

\* Any of redb's calls fails: the transaction is dropped.
AbortAppend(k) ==
  /\ lock = k
  /\ call' = [call EXCEPT ![k].st = "failed"]
  /\ lock' = Free
  /\ UNCHANGED <<clock, ops, checksums, cutoff, crashes, compactions, kept>>

-----------------------------------------------------------------------------
(* compact().                                                              *)

\* saturating_sub: 0 while the clock is younger than the TTL.
Cutoff == IF clock < Ttl THEN 0 ELSE clock - Ttl

CompactCall ==
  /\ cutoff = None /\ compactions < MaxCompactions
  /\ compactions' = compactions + 1
  /\ cutoff' = Cutoff
  /\ UNCHANGED <<clock, ops, checksums, call, lock, crashes, kept>>

BeginCompact ==
  /\ cutoff # None /\ lock = Free
  /\ lock' = Compactor
  /\ UNCHANGED <<clock, ops, checksums, call, cutoff, crashes, compactions, kept>>

Expired(entry) == entry.at < cutoff

\* The checksums stay as they are.
CommitCompact ==
  /\ lock = Compactor
  /\ ops' = [key \in {j \in DOMAIN ops : ~Expired(ops[j])} |-> ops[key]]
  /\ kept' = {k \in kept : ~Expired(call[k])}
  /\ lock' = Free
  /\ cutoff' = None
  /\ UNCHANGED <<clock, checksums, call, crashes, compactions>>

\* Reading, decoding or removing an entry fails: nothing is removed.
AbortCompact ==
  /\ lock = Compactor
  /\ lock' = Free
  /\ cutoff' = None
  /\ UNCHANGED <<clock, ops, checksums, call, crashes, compactions, kept>>

-----------------------------------------------------------------------------
\* The process dies and the file is opened again by open(): what was not
\* committed is gone.
Crash ==
  /\ crashes < MaxCrashes
  /\ crashes' = crashes + 1
  /\ call' = [k \in Calls |-> IF call[k].st \in {"stamped", "writing"}
                              THEN [call[k] EXCEPT !.st = "failed"] ELSE call[k]]
  /\ lock' = Free
  /\ cutoff' = None
  /\ UNCHANGED <<clock, ops, checksums, compactions, kept>>

Tick ==
  /\ clock < MaxTime
  /\ clock' = clock + 1
  /\ UNCHANGED <<ops, checksums, call, lock, cutoff, crashes, compactions, kept>>

Next ==
  \/ \E k \in Calls : AppendCall(k)
  \/ \E k \in Calls : BeginAppend(k)
  \/ \E k \in Calls : CommitAppend(k)
  \/ \E k \in Calls : AbortAppend(k)
  \/ CompactCall \/ BeginCompact \/ CommitCompact \/ AbortCompact \/ Crash \/ Tick

Spec == Init /\ [][Next]_vars

-----------------------------------------------------------------------------
\* drain_since(): a scan of the key range, in key order.
ScannedKeys(b, from) ==
  {key \in DOMAIN ops : InRange(key, make_range_start(b, from), make_bucket_range_end(b))}

drain_since(b, from) ==
  LET keys == ScannedKeys(b, from)
      rank(key) == Cardinality({j \in keys : KeyLess(j, key)})
  IN [i \in 1..Cardinality(keys) |-> ops[CHOOSE key \in keys : rank(key) = i - 1].call]

-----------------------------------------------------------------------------
(* Properties.                                                             *)

\* A drain returns exactly the stored operations of its bucket at or above
\* the given LSN, in ascending LSN order, and none of a bucket whose id is a
\* prefix of this one's.  u64::MAX is out of its reach (key.rs:37).
DrainExact ==
  \A b \in BucketIds, from \in Lsns :
    LET out == drain_since(b, from)
    IN /\ {out[i] : i \in 1..Len(out)}
            = {k \in kept : call[k].bucket = b /\ call[k].lsn >= from /\ call[k].lsn < MaxU64}
       /\ \A i, j \in 1..Len(out) : i < j => call[out[i]].lsn < call[out[j]].lsn

\* The checksum of a bucket is a fold over every append() to it that committed,
\* each once, whatever ran concurrently, crashed or was compacted since.
ChecksumExact ==
  \A b \in BucketIds :
    /\ {checksums[b][i] : i \in 1..Len(checksums[b])}
         = {k \in Calls : call[k].st = "done" /\ call[k].bucket = b}
    /\ \A i, j \in 1..Len(checksums[b]) : checksums[b][i] = checksums[b][j] => i = j

\* An append() that returned is stored, through crashes and compactions, until
\* it is older than the TTL or its key is written again.
AckedSurvive ==
  \A k \in Calls : call[k].st = "done" =>
    \/ Key(k) \in DOMAIN ops /\ ops[Key(k)].call = k
    \/ call[k].at + Ttl < clock
    \/ \E j \in Calls \ {k} :
         /\ call[j].st = "done" /\ Key(j) = Key(k)
         /\ \E m, n \in DOMAIN checksums[call[k].bucket] :
              m < n /\ checksums[call[k].bucket][m] = k /\ checksums[call[k].bucket][n] = j

\* store.rs:185 says compact() removes the operations "older than
\* compaction_ttl": it removes no other.
CompactKeepsRecent ==
  [][CommitCompact => \A key \in DOMAIN ops \ DOMAIN ops' : ops[key].at + Ttl < clock]_vars

-----------------------------------------------------------------------------
(* Statements of docs and comments that the code does not meet: TLC        *)
(* refutes each of them on the instance README.md gives for it.            *)

\* store.rs:116 says a drain streams "all ops for bucket_id since (and
\* including) from_lsn": every committed operation whose key was not written
\* again.
DrainReturnsAll ==
  \A k \in Calls : \A from \in Lsns :
    /\ call[k].st = "done" /\ from <= call[k].lsn /\ call[k].lsn < MaxU64
    /\ \A j \in Calls \ {k} : call[j].st = "done" => Key(j) # Key(k)
    => \E i \in DOMAIN drain_since(call[k].bucket, from) : drain_since(call[k].bucket, from)[i] = k
=============================================================================
