---------------------------- MODULE MCSyncSession ----------------------------
(***************************************************************************)
(* Instances of SyncSession for TLC.  The values of the constants are all  *)
(* in the configurations.                                                  *)
(***************************************************************************)
EXTENDS SyncSession
=============================================================================
