-------------------------- MODULE MCSnapshotStream --------------------------
(***************************************************************************)
(* Instances of SnapshotStream for TLC.  The ids 2, 3 and 10 are the        *)
(* smallest on which the numeric order and the order of text differ.        *)
(***************************************************************************)
EXTENDS SnapshotStream

TwoThreeTen == {2, 3, 10}
AsText == {<<2, 3>>, <<10, 2>>, <<10, 3>>}
=============================================================================
