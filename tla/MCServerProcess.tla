--------------------------- MODULE MCServerProcess ---------------------------
(***************************************************************************)
(* Instances of ServerProcess for TLC.  The connections are alike.          *)
(***************************************************************************)
EXTENDS ServerProcess, TLC

ConnSymmetry == Permutations(Conns)
=============================================================================
