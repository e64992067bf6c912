---------------------------- MODULE MCSnapshots ----------------------------
(***************************************************************************)
(* A small instance of Snapshots.                                          *)
(***************************************************************************)
EXTENDS Snapshots

=============================================================================
