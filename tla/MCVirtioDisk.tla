---------------------------- MODULE MCVirtioDisk ----------------------------
(***************************************************************************)
(* VirtioDisk for TLC: one thread uses both blocks and the other one of    *)
(* them, and the rings have the smallest size, with indexes that wrap      *)
(* every third request, once round the ring.                               *)
(***************************************************************************)
EXTENDS VirtioDisk

First == CHOOSE t \in Threads : TRUE

MCBlocksOf == [t \in Threads |-> IF t = First THEN BlockNos ELSE {Block0}]
=============================================================================
