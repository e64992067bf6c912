---------------------------- MODULE MCPageTable ----------------------------
(***************************************************************************)
(* PageTable for TLC.  Tables have three entries, so that MAXVA is page 13 *)
(* and the kernel and the devices meet in the root table only.  The        *)
(* requests start and end inside pages, cross from one table of the lowest *)
(* level to the next, overlap, and run beyond MAXVA.                       *)
(***************************************************************************)
EXTENDS PageTable

MCRequests ==
  { [va |-> 9, pa |-> 9, size |-> 6, perm |-> {"R", "W"}],
    [va |-> 14, pa |-> 40, size |-> 13, perm |-> {"R", "X"}],
    [va |-> 9, pa |-> 9, size |-> 0, perm |-> {"R"}] }
=============================================================================
