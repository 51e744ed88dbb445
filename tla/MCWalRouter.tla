----------------------------- MODULE MCWalRouter -----------------------------
(***************************************************************************)
(* Instances of WalRouter for TLC.  Channels of one slot, instead of 1024  *)
(* and 1000, fill up within three events.                                  *)
(***************************************************************************)
EXTENDS WalRouter, TLC

CONSTANTS s1, s2, b1, b2

OneBucketOfOne == s1 :> {b1}

\* One subject, authorized for two buckets that the same row may match.
TwoBucketsOfOne == s1 :> {b1, b2}

\* Two subjects resolve a rule to the same parameter values (a team rule).
SharedBucket == s1 :> {b1} @@ s2 :> {b1}
=============================================================================
