------------------------------ MODULE PageHeap ------------------------------
(***************************************************************************)
(* The page allocator, day6-process/src/mem.c.  The heap is NumPages pages *)
(* described by a table of Page entries at HEAP_START, each with a flag:   *)
(* 0 free, 1 taken and followed by another page of the same block, 2 the   *)
(* last page of a block.  malloc() scans the table for N free entries in a *)
(* row and free() walks a block up to its last page.                       *)
(*                                                                         *)
(* One action is one turn of one of the loops.  A caller owns the memory   *)
(* of the machine alone: one hart runs, no interrupt handler allocates,    *)
(* and a system call runs with interrupts off, so at most one call is in   *)
(* progress.                                                               *)
(*                                                                         *)
(* The inner loop of malloc() does not test its index against the table.   *)
(* The entries it can read behind the table are in the gap in front of the *)
(* page-aligned _alloc_start; the machine's memory is zero at reset, so    *)
(* their flag and ptr are 0 at first.                                      *)
(***************************************************************************)
EXTENDS Integers

CONSTANTS
  NumPages,   \* _num_pages
  Gap,        \* entries that fit between the table and _alloc_start
  Requests    \* the N, in pages, of the calls of malloc()

ASSUME NumPagesAssumption == NumPages \in Nat \ {0}
ASSUME GapAssumption == Gap \in Nat
\* A call asks for one page at least (malloc(0) is not modelled), and is short
\* enough for its scan to stay within the gap.
ASSUME RequestsAssumption == Requests \subseteq 1 .. Gap + 1

VARIABLES
  flag,       \* flag of every table entry, the ones of the gap included
  dirty,      \* pages whose memory may hold something other than zeros
  live,       \* blocks handed out by malloc() and not yet freed
  victim,     \* the block of the latest call of free()
  pc,         \* where the call in progress is; "idle" when there is none
  req,        \* N of the call of malloc() in progress
  i,          \* index of the entry the local variable page points to
  j,          \* local variable j of malloc()
  start       \* index of the entry start_pos points to

vars == <<flag, dirty, live, victim, pc, req, i, j, start>>

Heap  == 0 .. NumPages - 1
Slots == 0 .. NumPages + Gap - 1

Blocks == [base : Heap, len : Requests]
Pages(b) == b.base .. b.base + b.len - 1
LastPage(b) == b.base + b.len - 1

\* The flag an entry of block b has while b is taken.
FlagIn(b, k) == IF k = LastPage(b) THEN 2 ELSE 1

-----------------------------------------------------------------------------
\* page_init()
Init ==
  /\ flag = [k \in Slots |-> 0]
  /\ dirty = {}
  /\ live = {}
  /\ victim \in Blocks
  /\ pc = "idle"
  /\ req \in Requests
  /\ i = 0
  /\ j = 0
  /\ start = 0

Malloc(n) ==
  /\ pc = "idle"
  /\ pc' = "outer"
  /\ req' = n
  /\ i' = 0
  /\ UNCHANGED <<flag, dirty, live, victim, j, start>>

\* Variant: one entry too many is tried as a start.
OuterLoopLong ==
  /\ pc = "outer"
  /\ i <= NumPages
  /\ start' = i
  /\ j' = 0
  /\ pc' = "inner"
  /\ UNCHANGED <<flag, dirty, live, victim, req, i>>

\* The outer loop looks at entry i as the start of a block ...
OuterLoop ==
  /\ pc = "outer"
  /\ i < NumPages
  /\ start' = i
  /\ j' = 0
  /\ pc' = "inner"
  /\ UNCHANGED <<flag, dirty, live, victim, req, i>>

\* ... or has run out of entries: malloc() returns 0.
OutOfMemory ==
  /\ pc = "outer"
  /\ i >= NumPages
  /\ pc' = "idle"
  /\ UNCHANGED <<flag, dirty, live, victim, req, i, j, start>>

InnerLoop ==
  /\ pc = "inner"
  /\ j < req
  /\ flag[i] = 0
  /\ j' = j + 1
  /\ i' = i + 1
  /\ UNCHANGED <<flag, dirty, live, victim, pc, req, start>>

\* Variants: the entry behind the taken one is skipped, or the scan is not moved on.
InnerBreakSkips ==
  /\ pc = "inner"
  /\ j < req
  /\ flag[i] # 0
  /\ i' = i + 2
  /\ pc' = "outer"
  /\ UNCHANGED <<flag, dirty, live, victim, req, j, start>>

InnerBreakStays ==
  /\ pc = "inner"
  /\ j < req
  /\ flag[i] # 0
  /\ i' = start
  /\ pc' = "outer"
  /\ UNCHANGED <<flag, dirty, live, victim, req, j, start>>

\* A taken entry ends the inner loop; the outer loop goes on behind it.
InnerBreak ==
  /\ pc = "inner"
  /\ j < req
  /\ flag[i] # 0
  /\ i' = i + 1
  /\ pc' = "outer"
  /\ UNCHANGED <<flag, dirty, live, victim, req, j, start>>

\* Variant: only the last entry of the block is marked.
MarkLastOnly ==
  LET b == [base |-> start, len |-> req]
  IN  /\ pc = "inner"
      /\ j = req
      /\ flag' = [flag EXCEPT ![LastPage(b)] = 2]
      /\ live' = live \cup {b}
      /\ pc' = "idle"
      /\ UNCHANGED <<dirty, victim, req, i, j, start>>

\* N free entries in a row: take them and return the address of the first.
Mark ==
  LET b == [base |-> start, len |-> req]
  IN  /\ pc = "inner"
      /\ j = req
      /\ flag' = [k \in Slots |-> IF k \in Pages(b) THEN FlagIn(b, k) ELSE flag[k]]
      /\ live' = live \cup {b}
      /\ pc' = "idle"
      /\ UNCHANGED <<dirty, victim, req, i, j, start>>

-----------------------------------------------------------------------------
\* free(ptr) with the address of a block: the search for ptr ends at its entry.
Free(b) ==
  /\ pc = "idle"
  /\ b \in live
  /\ victim' = b
  /\ i' = b.base
  /\ pc' = "clear"
  /\ UNCHANGED <<flag, dirty, live, req, j, start>>

ClearPage ==
  /\ pc = "clear"
  /\ i \in Heap
  /\ flag[i] = 1
  /\ flag' = [flag EXCEPT ![i] = 0]
  /\ dirty' = dirty \ {i}
  /\ i' = i + 1
  /\ UNCHANGED <<live, victim, pc, req, j, start>>

\* Variants: the last page keeps its flag, or keeps its contents.
ClearLastKeepsFlag ==
  /\ pc = "clear"
  /\ i \in Heap
  /\ flag[i] # 1
  /\ dirty' = dirty \ {i}
  /\ live' = live \ {victim}
  /\ pc' = "idle"
  /\ UNCHANGED <<flag, victim, req, i, j, start>>

ClearLastKeepsContents ==
  /\ pc = "clear"
  /\ i \in Heap
  /\ flag[i] # 1
  /\ flag' = [flag EXCEPT ![i] = 0]
  /\ live' = live \ {victim}
  /\ pc' = "idle"
  /\ UNCHANGED <<dirty, victim, req, i, j, start>>

ClearLast ==
  /\ pc = "clear"
  /\ i \in Heap
  /\ flag[i] # 1
  /\ flag' = [flag EXCEPT ![i] = 0]
  /\ dirty' = dirty \ {i}
  /\ live' = live \ {victim}
  /\ pc' = "idle"
  /\ UNCHANGED <<victim, req, i, j, start>>

\* The ptr of an entry behind the table is 0, so _clear() stores to address 0:
\* the store faults and trap_handler() stops the machine.
ClearBehindTable ==
  /\ pc = "clear"
  /\ i \notin Heap
  /\ pc' = "fault"
  /\ UNCHANGED <<flag, dirty, live, victim, req, i, j, start>>

\* The owner of a block stores something into one of its pages.
Store(b, k) ==
  /\ pc = "idle"
  /\ b \in live
  /\ k \in Pages(b) \cap Heap
  /\ dirty' = dirty \cup {k}
  /\ UNCHANGED <<flag, live, victim, pc, req, i, j, start>>

-----------------------------------------------------------------------------
\* The steps of a call that has started.
Work ==
  \/ OuterLoop \/ OutOfMemory \/ InnerLoop \/ InnerBreak \/ Mark
  \/ ClearPage \/ ClearLast \/ ClearBehindTable

Next ==
  \/ \E n \in Requests : Malloc(n)
  \/ \E b \in live : Free(b)
  \/ \E b \in live, k \in Heap : Store(b, k)
  \/ Work

Spec == Init /\ [][Next]_vars

\* The hart goes on executing the call it is in.
FairSpec == Spec /\ WF_vars(Work)

-----------------------------------------------------------------------------
TypeOK ==
  /\ flag \in [Slots -> 0 .. 2]
  /\ dirty \subseteq Heap
  /\ live \subseteq Blocks
  /\ victim \in Blocks
  /\ pc \in {"idle", "outer", "inner", "clear", "fault"}
  /\ req \in Requests
  /\ i \in 0 .. NumPages + Gap
  /\ j \in Nat
  /\ start \in Heap

-----------------------------------------------------------------------------
\* Two blocks that are handed out share no page: malloc() never gives a page
\* that a caller still owns, however blocks of different lengths come and go
\* (mem.c, the flag test of the inner loop and the marking loop).
LiveBlocksDisjoint ==
  \A a, b \in live : a # b => Pages(a) \cap Pages(b) = {}

\* How far free() has got with the victim: its entries below i are free again.
Freeing == pc \in {"clear", "fault"}

FlagOf(b, k) == IF Freeing /\ b = victim /\ k < i THEN 0 ELSE FlagIn(b, k)

\* The flags say what is handed out, entry by entry: 1 ... 1 2 over a live
\* block, 0 elsewhere, and 0 over the part of a block free() has passed.  So
\* free(), which knows only where a block starts, gives back exactly the
\* pages malloc() handed out, and nothing stays marked without an owner.
FlagsEncodeLive ==
  /\ \A b \in live : \A k \in Pages(b) : flag[k] = FlagOf(b, k)
  /\ \A k \in Slots : (\A b \in live : k \notin Pages(b)) => flag[k] = 0

\* A page that is not handed out is all zeros: free() clears every page it
\* gives back.  proc_init() (proc.c) and the page table walk (vm.c) use fresh
\* blocks without clearing them.
FreePagesZero ==
  \A k \in Heap : flag[k] = 0 => k \notin dirty

RunFree(s) == \A k \in s .. s + req - 1 : flag[k] = 0

\* malloc() takes the first place where the block fits: a block is never handed
\* out behind a hole that was long enough, although the scan does not go back
\* after it met a taken entry.
FirstFit ==
  [][\A b \in live' \ live : \A s \in 0 .. b.base - 1 : ~RunFree(s)]_vars

\* malloc() returns 0 only when the block fits nowhere.
NullMeansFull ==
  [][pc = "outer" /\ pc' = "idle" => \A s \in Heap : ~RunFree(s)]_vars

\* The one pass over the table is as good as trying every place: malloc() takes
\* the first place where the block fits, and returns 0 only when there is none.
SearchRight == FirstFit /\ NullMeansFull

\* A call of malloc() returns, and a call of free() returns or faults.
CallsEnd ==
  /\ pc = "outer" ~> pc = "idle"
  /\ pc = "clear" ~> pc \in {"idle", "fault"}

\* The table and its loops implement the allocator of BlockStore.
Promise == INSTANCE BlockStore
ImplementsBlockStore == Promise!Spec

-----------------------------------------------------------------------------
\* The boot messages print _alloc_start and _alloc_end as the bounds of the
\* heap, and callers write to every page they asked for: a block would lie
\* inside the heap.  malloc() does not see to it.
BlocksInHeap ==
  \A b \in live : Pages(b) \subseteq Heap
=============================================================================
