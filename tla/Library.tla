------------------------------ MODULE Library ------------------------------
(***************************************************************************)
(* The functions that the kernels call and that call nothing themselves:   *)
(* printf.c, string.c and mem.c of every snapshot.  One of them is active  *)
(* in a behaviour and the variables of the others stay empty.              *)
(***************************************************************************)
EXTENDS Printf, Strings, HeapDays

vars == <<f, t, w, h>>

Init ==
  \/ PrintfInit /\ t = <<>> /\ w = <<>> /\ h = <<>>
  \/ StrtokInit /\ f = <<>> /\ w = <<>> /\ h = <<>>
  \/ StringInit /\ f = <<>> /\ t = <<>> /\ h = <<>>
  \/ HeapInit   /\ f = <<>> /\ t = <<>> /\ w = <<>>

Next ==
  \/ f # <<>> /\ PrintfNext /\ UNCHANGED <<t, w, h>>
  \/ t # <<>> /\ StrtokNext /\ UNCHANGED <<f, w, h>>
  \/ w # <<>> /\ StringNext /\ UNCHANGED <<f, t, h>>
  \/ h # <<>> /\ HeapNext   /\ UNCHANGED <<f, t, w>>

Spec == Init /\ [][Next]_vars
=============================================================================
