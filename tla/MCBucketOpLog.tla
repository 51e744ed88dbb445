---------------------------- MODULE MCBucketOpLog ----------------------------
(***************************************************************************)
(* Instances of BucketOpLog for TLC.  With three values to a byte and two  *)
(* bytes to an LSN, LSNs run from 0 to 8; 3 is the first that carries into *)
(* the high byte.  The id <<0>> is a prefix of <<0, 0>>.                   *)
(***************************************************************************)
EXTENDS BucketOpLog, TLC

PrefixIds == {<<0>>, <<0, 0>>}
OneId == {<<0>>}
EdgeLsns == {1, 3, 8}
CallSymmetry == Permutations(Calls)
=============================================================================
