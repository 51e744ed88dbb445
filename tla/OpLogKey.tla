------------------------------ MODULE OpLogKey ------------------------------
(***************************************************************************)
(* The keys of the BUCKET_OPS table (key.rs): the length of the bucket id, *)
(* its bytes, and the LSN in big-endian, compared byte by byte by redb.    *)
(* A bucket id is a sequence of bytes.  A byte has Base values instead of  *)
(* 256, the length takes one byte instead of two (every id is short enough *)
(* for it, as make_key asserts) and the LSN LsnBytes instead of eight, so  *)
(* that every edge of the encoding is within reach; what is proved holds   *)
(* for any number of values and of bytes.                                  *)
(***************************************************************************)
EXTENDS Integers, Sequences

CONSTANTS Base, LsnBytes

ASSUME KeyAssumption == Base \in Nat \ {0, 1} /\ LsnBytes \in Nat \ {0}

\* The largest LSN: every byte has its largest value.
AllOnes[i \in Nat] == IF i = 0 THEN 0 ELSE AllOnes[i - 1] * Base + (Base - 1)

MaxU64 == AllOnes[LsnBytes]

\* n shifted right by i bytes, for every i.
Shifted(n) == LET shr[i \in Nat] == IF i = 0 THEN n ELSE shr[i - 1] \div Base IN shr

\* Faulty: keys without the length prefix.
NoLengthKey(bucket, lsn) ==
  bucket \o [i \in 1..LsnBytes |-> Shifted(lsn)[LsnBytes - i] % Base]

\* Faulty: the LSN in little-endian.
LittleEndianKey(bucket, lsn) ==
  <<Len(bucket)>> \o bucket \o [i \in 1..LsnBytes |-> Shifted(lsn)[i - 1] % Base]

\* The bytes of an LSN, the highest first.
to_be_bytes(lsn) == [i \in 1..LsnBytes |-> Shifted(lsn)[LsnBytes - i] % Base]

make_key(bucket, lsn) == <<Len(bucket)>> \o bucket \o to_be_bytes(lsn)

make_range_start(bucket, from) == make_key(bucket, from)

make_bucket_range_end(bucket) == make_key(bucket, MaxU64)

\* redb compares keys as byte strings; a proper prefix comes first.
KeyLess(k1, k2) ==
  \E n \in 0..Len(k1) :
    /\ n <= Len(k2)
    /\ \A i \in 1..n : k1[i] = k2[i]
    /\ \/ n = Len(k1) /\ n < Len(k2)
       \/ n < Len(k1) /\ n < Len(k2) /\ k1[n + 1] < k2[n + 1]

InRange(key, start, end) == ~KeyLess(key, start) /\ KeyLess(key, end)
=============================================================================
