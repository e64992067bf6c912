----------------------------- MODULE BlockStore -----------------------------
(***************************************************************************)
(* What an allocator of runs of pages promises to its callers: a block it  *)
(* hands out starts inside the heap and shares no page with a block that a *)
(* caller still owns, and a block stays owned until its owner gives it     *)
(* back.  How the allocator finds the block, and how it remembers which    *)
(* pages are taken, is not visible here.                                   *)
(***************************************************************************)
EXTENDS Integers

CONSTANTS
  NumPages,   \* number of pages of the heap
  Requests    \* block lengths, in pages, that callers ask for

VARIABLE
  live        \* the blocks that are handed out and not yet given back

Blocks == [base : 0 .. NumPages - 1, len : Requests]

Pages(b) == b.base .. b.base + b.len - 1

Init == live = {}

Alloc(b) ==
  /\ \A a \in live : Pages(a) \cap Pages(b) = {}
  /\ live' = live \cup {b}

Release(b) ==
  /\ b \in live
  /\ live' = live \ {b}

Next == \E b \in Blocks : Alloc(b) \/ Release(b)

Spec == Init /\ [][Next]_live
=============================================================================
