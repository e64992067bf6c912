----------------------------- MODULE MCPageHeap -----------------------------
(***************************************************************************)
(* PageHeap for TLC: four pages are enough for two blocks with a hole      *)
(* between them, and a gap of two entries lets a request for three pages   *)
(* start at the last page of the heap.                                     *)
(***************************************************************************)
EXTENDS PageHeap

MCRequests == {1, 2, 3}
=============================================================================
