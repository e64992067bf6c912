---------------------------- MODULE MCFileSystem ----------------------------
(***************************************************************************)
(* FileSystem for TLC.  Names and chunks are not compared but for          *)
(* equality, so permutations of them lead to the same behaviour; no chunk  *)
(* names a block.                                                          *)
(***************************************************************************)
EXTENDS FileSystem, TLC

MCWords ==
  [c \in Chunks |-> [inode |-> MAX_BLOCK, next |-> MAX_BLOCK]]
    @@ (Blank :> [inode |-> 0, next |-> 0])

MCSymmetry == Permutations(Names) \cup Permutations(Chunks)
=============================================================================
