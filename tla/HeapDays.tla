------------------------------ MODULE HeapDays ------------------------------
(***************************************************************************)
(* mem.c of every snapshot: page_init() and whole calls of malloc(),       *)
(* free() and printMEM(), with the arguments a program should not pass as  *)
(* well: malloc(0) and free() of an address that malloc() did not return.  *)
(* PageHeap follows the loops of the last version one turn at a time.      *)
(*                                                                         *)
(* What a call does once it has left the table depends on memory that is   *)
(* not part of the heap: the state is wild then and is not followed.       *)
(***************************************************************************)
EXTENDS Integers

CONSTANTS
  HeapStart,  \* HEAP_START, any address
  HeapSize,   \* HEAP_SIZE
  PageSize,   \* PAGE_SIZE
  EntrySize,  \* sizeof(struct Page)
  MostPages   \* longest request

ASSUME HeapStartAssumption == HeapStart \in Nat
ASSUME PageSizeAssumption  == PageSize \in Nat \ {0}
ASSUME EntrySizeAssumption == EntrySize \in Nat \ {0}
\* There is room for a page, and for the one that the alignment takes.
ASSUME HeapSizeAssumption  == HeapSize \in Nat /\ HeapSize >= 2 * (PageSize + EntrySize)
ASSUME MostPagesAssumption == MostPages \in Nat

VARIABLE h    \* the heap of one snapshot

-----------------------------------------------------------------------------
\* Which functions take the lock, and whether the pages are aligned.
mem13 == [locks |-> {}, aligned |-> FALSE]
mem21 == mem13
mem22 == mem13
mem23 == mem13
mem31 == mem13
mem32 == mem13
mem33 == [locks |-> {"malloc", "free", "printMEM"}, aligned |-> FALSE]
mem4  == [locks |-> {"malloc", "printMEM"}, aligned |-> TRUE]
mem51 == mem4
mem52 == mem4
mem53 == mem4
mem54 == mem4
mem6  == mem4

MemVersions == {mem13, mem21, mem22, mem23, mem31, mem32, mem33,
                mem4, mem51, mem52, mem53, mem54, mem6}

\* page_init(): the number of pages, and where the first one begins.
num_pages(aligned) ==
  HeapSize \div (PageSize + EntrySize) - IF aligned THEN 1 ELSE 0

alloc_start(aligned) ==
  LET behind == HeapStart + num_pages(aligned) * EntrySize
  IN  IF aligned THEN ((behind + PageSize - 1) \div PageSize) * PageSize ELSE behind

alloc_end(aligned) == alloc_start(aligned) + PageSize * num_pages(aligned)

\* The table and the pages are apart and inside the heap.
LayoutFits(aligned) ==
  /\ HeapStart + num_pages(aligned) * EntrySize <= alloc_start(aligned)
  /\ alloc_end(aligned) <= HeapStart + HeapSize

-----------------------------------------------------------------------------
Entries == 0 .. num_pages(h.mem.aligned) - 1
Pages(b) == b.base .. b.base + b.len - 1

\* flag is the table; blocks are the ones malloc() has handed out; misused says that
\* malloc(0) was called or a page inside of a block was freed, and refused that
\* free() has returned early.
HeapInit ==
  \E mem \in MemVersions :
    h = [mem |-> mem, flag |-> [k \in 0 .. num_pages(mem.aligned) - 1 |-> 0], blocks |-> {},
         misused |-> FALSE, refused |-> FALSE, lock |-> FALSE, pc |-> "ready"]

Ready == h.pc = "ready"

\* Whether a function waits for the lock for ever.
Blocked(name) == name \in h.mem.locks /\ h.lock

Hang == /\ Ready
        /\ \E name \in {"malloc", "free", "printMEM"} : Blocked(name)
        /\ h' = [h EXCEPT !.pc = "hung"]

FreeRun(k, n) == k + n - 1 \in Entries /\ \A e \in k .. k + n - 1 : h.flag[e] = 0
IsFirst(k, n) == k \in Entries /\ FreeRun(k, n) /\ \A e \in 0 .. k - 1 : ~FreeRun(e, n)

Malloc(n) ==
  /\ Ready /\ ~Blocked("malloc")
  /\ \E k \in Entries :
       /\ IsFirst(k, n)
       /\ h' = [h EXCEPT !.flag = [e \in Entries |-> IF e = k + n - 1 THEN 2
                                                     ELSE IF e \in k .. k + n - 2 THEN 1
                                                     ELSE @[e]],
                         !.blocks = @ \cup {[base |-> k, len |-> n]}]

\* No run is long enough.  When the last entry is free the scan has gone on behind
\* the table.
MallocFails(n) ==
  /\ Ready /\ ~Blocked("malloc")
  /\ \A k \in Entries : ~FreeRun(k, n)
  /\ h' = IF h.flag[num_pages(h.mem.aligned) - 1] = 0 THEN [h EXCEPT !.pc = "wild"] ELSE h

\* malloc(0): no entry is looked at, the flag in front of the first entry is
\* overwritten, and the first page is handed out whoever has it.
MallocNothing ==
  /\ Ready /\ ~Blocked("malloc")
  /\ h' = [h EXCEPT !.misused = TRUE, !.blocks = @ \cup {[base |-> 0, len |-> 0]}]

\* The entries from k up to the first one whose flag is not 1, which free() clears.
Cleared(k) == {e \in Entries : e >= k /\ \A n \in k .. e - 1 : h.flag[n] = 1}

\* Variant: the last page of a block is left out.
FreePageShort(k) ==
  /\ Ready /\ ~Blocked("free")
  /\ h' = [h EXCEPT !.flag = [e \in Entries |-> IF e \in Cleared(k) /\ @[e] = 1 THEN 0 ELSE @[e]],
                    !.blocks = {b \in @ : b.base # k}]

\* free() of the address of a page: of a block, of the inside of a block, or of a
\* page that is free.
FreePage(k) ==
  /\ Ready /\ ~Blocked("free")
  /\ h' = IF \A e \in k .. num_pages(h.mem.aligned) - 1 : h.flag[e] = 1
          THEN [h EXCEPT !.pc = "wild"]
          ELSE [h EXCEPT !.flag = [e \in Entries |-> IF e \in Cleared(k) THEN 0 ELSE @[e]],
                         !.blocks = {b \in @ : b.base # k},
                         !.misused = @ \/ \E b \in h.blocks : k \in Pages(b) \ {b.base}]

\* free() of an address below an entry's page that is not the address of a page, as
\* the null pointer or the inside of a page: it returns at that entry, with the lock.
FreeRefused ==
  /\ Ready /\ ~Blocked("free")
  /\ h' = [h EXCEPT !.refused = TRUE, !.lock = "free" \in h.mem.locks]

\* free() of an address inside or behind the last page: no entry stops the scan.
FreeBehind ==
  /\ Ready /\ ~Blocked("free")
  /\ h' = [h EXCEPT !.pc = "wild"]

\* printMEM() of as many entries as the table has.
PrintMEM == Ready /\ ~Blocked("printMEM") /\ h' = h

HeapNext ==
  \/ \E n \in 1 .. MostPages : Malloc(n) \/ MallocFails(n)
  \/ \E k \in Entries : FreePage(k)
  \/ MallocNothing \/ FreeRefused \/ FreeBehind \/ PrintMEM \/ Hang

HeapSpec == HeapInit /\ [][HeapNext]_h

-----------------------------------------------------------------------------
\* page_init() keeps the table and the pages of the version apart and inside the heap,
\* with aligned pages by giving up a page.
PagesFit == h # <<>> => LayoutFits(h.mem.aligned)

\* The allocator waits for its lock for ever only on day 3-3, where free() takes it
\* too, and only after a free() that was refused.
HangsOnlyAfterRefusal ==
  (h # <<>> /\ h.pc = "hung") => h.mem = mem33 /\ h.refused

\* Null pointers, addresses inside of a page and blocks freed twice do no harm but on
\* day 3-3: the layout is right, no other day waits for a lock in vain, and as long as
\* nobody calls malloc(0) or frees the inside of a block, blocks do not overlap and the
\* table describes exactly them.
HeapSound ==
  /\ PagesFit /\ HangsOnlyAfterRefusal
  /\ (h # <<>> /\ ~h.misused) =>
    /\ \A b, c \in h.blocks : b # c => Pages(b) \cap Pages(c) = {}
    /\ \A e \in Entries :
         h.flag[e] = IF \E b \in h.blocks : e = b.base + b.len - 1 THEN 2
                     ELSE IF \E b \in h.blocks : e \in Pages(b) THEN 1 ELSE 0
=============================================================================
