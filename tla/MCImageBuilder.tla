--------------------------- MODULE MCImageBuilder ---------------------------
(***************************************************************************)
(* ImageBuilder for TLC.  Every chunk, read as a list block, names no inode *)
(* that is on the disk and leads to the first list block of the root       *)
(* directory of a new disk: a path through a file can come to the file     *)
(* itself, to any other, to the end of the list or nowhere.                *)
(***************************************************************************)
EXTENDS ImageBuilder, TLC

MCWords ==
  [c \in Chunks |-> [inode |-> MAX_BLOCK, next |-> 2]] @@ (Blank :> [inode |-> 0, next |-> 0])

MCSymmetry == Permutations(Names) \cup Permutations(Chunks)
=============================================================================
