---------------------------- MODULE MCWritePath ------------------------------
(***************************************************************************)
(* The instance of WritePath for TLC: the first session has a bucket of    *)
(* each owner, the second has one of them, and no bucket has the table of  *)
(* the second row.                                                         *)
(***************************************************************************)
EXTENDS WritePath, TLC

CONSTANTS s1, s2, r1, r2, b1, b2, o1, o2

MCTableOf == (r1 :> "entities") @@ (r2 :> "tags")
MCTables == (b1 :> {"entities"}) @@ (b2 :> {"entities"})
MCOwnerOf == (b1 :> o1) @@ (b2 :> o2)
MCAuthorized == (s1 :> {b1, b2}) @@ (s2 :> {b1})
=============================================================================
