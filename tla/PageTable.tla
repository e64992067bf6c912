----------------------------- MODULE PageTable -----------------------------
(***************************************************************************)
(* Virtual memory, vm.c of day 4, of days 5 and of day 6, with the part of *)
(* proc.c that makes the address spaces of processes.  A page table has    *)
(* three levels of tables of PT_ENTRY_COUNT entries; walk() goes down to   *)
(* the entry of an address and makes the tables that are missing with      *)
(* malloc(); map_pages() enters a range page by page and ignores that a    *)
(* page could not be entered.                                              *)
(*                                                                         *)
(* Memory is an array of pages seen as tables.  The rest of the kernel     *)
(* takes pages from the same heap and gives them back, so malloc() may     *)
(* fail at any time; a page that it hands out is clear.  The hardware      *)
(* reads the tables with Translate.                                        *)
(*                                                                         *)
(* Addresses are counted in units of which PGSIZE make a page, to have     *)
(* ranges that start and end inside a page.                                *)
(***************************************************************************)
EXTENDS Integers, Sequences, FiniteSets, FiniteSetsExt

CONSTANTS
  PT_ENTRY_COUNT,  \* entries of a table
  PGSIZE,          \* units of a page
  Heap,            \* pages of the heap
  StaticRoot,      \* the page of the array root_pt of days 5
  Procs,           \* processes
  Requests,        \* the ranges that processes ask for: va, pa, size and perm
  MaxEvents,       \* bound on the requests and on what the rest of the kernel does
  UART, VIRTIO0, PLIC_BASE, PLIC_SIZE,   \* addresses of the devices
  KERNEL_START_ADDR, KERNEL_SIZE         \* addresses of the memory

ASSUME EntriesAssumption == PT_ENTRY_COUNT \in Nat /\ PT_ENTRY_COUNT > 1
ASSUME PageSizeAssumption == PGSIZE \in Nat \ {0}
ASSUME HeapAssumption == Heap \subseteq Nat /\ IsFiniteSet(Heap) /\ StaticRoot \in Nat \ Heap
ASSUME MaxEventsAssumption == MaxEvents \in Nat
ASSUME AddressesAssumption ==
  {UART, VIRTIO0, PLIC_BASE, PLIC_SIZE, KERNEL_START_ADDR, KERNEL_SIZE} \subseteq Nat
ASSUME RequestsAssumption ==
  Requests \subseteq [va : Nat, pa : Nat, size : Nat, perm : (SUBSET {"R", "W", "X"}) \ {{}}]

VARIABLES
  day,        \* 4, 5 or 6: which snapshot of the code runs
  mem,        \* contents of the heap pages and of StaticRoot
  owner,      \* of a heap page: "free", "table" or "other"
  root,       \* for each address space, the page of its root table
  todo,       \* what is still to be mapped for the kernel before w_satp()
  call,       \* the call of map_pages() or map_page() in progress
  pc,         \* where it is
  level,      \* local variable of walk()
  pagetable,  \* local variable of walk()
  left,       \* requests and other events that may still come
  \* history
  missed      \* pages of spaces that were not entered because malloc() failed

vars == <<day, mem, owner, root, todo, call, pc, level, pagetable, left, missed>>

Kernel  == "kernel"
Spaces  == {Kernel} \cup Procs
None    == -1          \* no root table yet
Entries == 0 .. PT_ENTRY_COUNT - 1
Levels  == 0 .. 2

\* An entry.  An entry without permissions points to a table; 0 is no entry.
Null        == [valid |-> FALSE, page |-> 0, perm |-> {}]
PTE(p, prm) == [valid |-> TRUE, page |-> p, perm |-> prm]
Cleared     == [x \in Entries |-> Null]

\* PX: the index into a table of a level, where an entry stands for as many pages
\* as Span says.  A page number has three of them, but MAXVA is one bit below what
\* they reach.
Span(l)  == IF l = 0 THEN 1 ELSE IF l = 1 THEN PT_ENTRY_COUNT ELSE PT_ENTRY_COUNT * PT_ENTRY_COUNT
PX(l, v) == (v \div Span(l)) % PT_ENTRY_COUNT
MAXVA    == (PT_ENTRY_COUNT * Span(2)) \div 2

PGROUNDDOWN(a) == a \div PGSIZE

\* The last page of a range; an empty range is returned from at once.
LastPage(va, size) == IF size = 0 THEN PGROUNDDOWN(va) - 1 ELSE PGROUNDDOWN(va + size - 1)

NoCall == [space |-> "none"]

\* Variant: the length is rounded down by itself.
MapWholePages(s, va, pa, size, prm) ==
  [space |-> s, va |-> va, size |-> size, frame |-> PGROUNDDOWN(pa), perm |-> prm,
   a |-> PGROUNDDOWN(va), last |-> PGROUNDDOWN(va) + PGROUNDDOWN(size) - 1]

\* A call of map_pages(): the pages from a to last are still to be entered.  A
\* single map_page() is a range of one page.
MapPages(s, va, pa, size, prm) ==
  [space |-> s, va |-> va, size |-> size, frame |-> PGROUNDDOWN(pa), perm |-> prm,
   a |-> PGROUNDDOWN(va), last |-> LastPage(va, size)]

\* The page that page a of the call goes to.
FrameOf(c) == c.frame + (c.a - PGROUNDDOWN(c.va))

-----------------------------------------------------------------------------
\* The entry that the hardware finds for the page v, going down from page p.
Translate(p, v) ==
  LET mid  == mem[p][PX(2, v)]
      low  == mem[mid.page][PX(1, v)]
      leaf == mem[low.page][PX(0, v)]
  IN  IF mid.valid /\ mid.perm = {} /\ low.valid /\ low.perm = {} THEN leaf ELSE Null

\* The pages that the tables below page p map.
Mapped(p) ==
  IF p = None THEN <<>>
  ELSE LET found == [v \in 0 .. MAXVA - 1 |-> Translate(p, v)]
       IN  [v \in {w \in 0 .. MAXVA - 1 : found[w].valid} |->
              [frame |-> found[v].page, perm |-> found[v].perm]]

-----------------------------------------------------------------------------
\* What each version maps for the kernel, in the order of its calls.
kernel_mapping4 ==
  << MapPages(Kernel, UART, UART, PGSIZE, {"R", "W"}),
     MapPages(Kernel, PLIC_BASE, PLIC_BASE, PLIC_SIZE, {"R", "W"}),
     MapPages(Kernel, KERNEL_START_ADDR, KERNEL_START_ADDR, KERNEL_SIZE, {"R", "W", "X"}) >>

map_kernel5 ==
  << MapPages(Kernel, UART, UART, PGSIZE, {"R", "W", "X"}),
     MapPages(Kernel, VIRTIO0, VIRTIO0, PGSIZE, {"R", "W"}),
     MapPages(Kernel, PLIC_BASE, PLIC_BASE, PLIC_SIZE, {"R", "W", "X"}),
     MapPages(Kernel, KERNEL_START_ADDR, KERNEL_START_ADDR, KERNEL_SIZE, {"R", "W", "X"}) >>

kernel_mapping6 ==
  << MapPages(Kernel, UART, UART, PGSIZE, {"R", "W"}),
     MapPages(Kernel, VIRTIO0, VIRTIO0, PGSIZE, {"R", "W"}),
     MapPages(Kernel, PLIC_BASE, PLIC_BASE, PLIC_SIZE, {"R", "W"}),
     MapPages(Kernel, KERNEL_START_ADDR, KERNEL_START_ADDR, KERNEL_SIZE, {"R", "W", "X"}) >>

KernelMap == CASE day = 4 -> kernel_mapping4 [] day = 5 -> map_kernel5 [] day = 6 -> kernel_mapping6

-----------------------------------------------------------------------------
\* page_init() has made the heap, some of which may be in use; boot() calls
\* vm_init().
Init ==
  /\ day \in {4, 5, 6}
  /\ mem = [p \in Heap \cup {StaticRoot} |-> Cleared]
  /\ \E n \in Heap \cup {StaticRoot} :
       owner = [p \in Heap |-> IF p < n THEN "free" ELSE "other"]
  /\ root = [s \in Spaces |-> None]
  /\ todo = KernelMap
  /\ call = NoCall
  /\ pc = "vm_init"
  /\ level = 0
  /\ pagetable = None
  /\ left = MaxEvents
  /\ missed = {}

FreePages == {p \in Heap : owner[p] = "free"}

\* The root table of the kernel: an array in days 5 ...
UseStaticRoot ==
  /\ pc = "vm_init" /\ day = 5
  /\ root' = [root EXCEPT ![Kernel] = StaticRoot]
  /\ mem' = [mem EXCEPT ![StaticRoot] = Cleared]
  /\ pc' = "kernel"
  /\ UNCHANGED <<day, owner, todo, call, level, pagetable, left, missed>>

\* ... and from the heap before and after.  A null pointer is cleared like a
\* page: the store faults and the handler loops for ever.
kvm_init ==
  /\ pc = "vm_init" /\ day # 5
  /\ IF FreePages = {}
       THEN pc' = "fault" /\ UNCHANGED <<mem, owner, root>>
       ELSE LET p == Min(FreePages) IN
            /\ owner' = [owner EXCEPT ![p] = "table"]
            /\ mem' = [mem EXCEPT ![p] = Cleared]
            /\ root' = [root EXCEPT ![Kernel] = p]
            /\ pc' = "kernel"
  /\ UNCHANGED <<day, todo, call, level, pagetable, left, missed>>

\* kernel_mapping() goes on to its next call ...
MapKernel ==
  /\ pc = "kernel" /\ todo # <<>>
  /\ call' = Head(todo) /\ todo' = Tail(todo)
  /\ pc' = "page"
  /\ UNCHANGED <<day, mem, owner, root, level, pagetable, left, missed>>

\* ... and vm_init() switches the table on.
w_satp ==
  /\ pc = "kernel" /\ todo = <<>>
  /\ pc' = "idle"
  /\ UNCHANGED <<day, mem, owner, root, todo, call, level, pagetable, left, missed>>

\* proc_init() of day 6 takes the root table of a process as malloc() returns it.
\* Without it the process cannot be given a program: map_pages() faults.
proc_init(p) ==
  /\ pc = "idle" /\ day = 6 /\ root[p] = None
  /\ FreePages # {}
  /\ owner' = [owner EXCEPT ![Min(FreePages)] = "table"]
  /\ root' = [root EXCEPT ![p] = Min(FreePages)]
  /\ UNCHANGED <<day, mem, todo, call, pc, level, pagetable, left, missed>>

\* create_proc() and exec() map the stack, the context and the program.
MapProcess(p) ==
  /\ pc = "idle" /\ left > 0
  /\ root[p] # None
  /\ \E r \in Requests : call' = MapPages(p, r.va, r.pa, r.size, r.perm)
  /\ left' = left - 1
  /\ pc' = "page"
  /\ UNCHANGED <<day, mem, owner, root, todo, level, pagetable, missed>>

-----------------------------------------------------------------------------
\* map_pages() turns to the next page, whatever became of the one before.
NextPage == pc' = "page" /\ call' = [call EXCEPT !.a = @ + 1]

\* map_page() calls walk(), which refuses what is beyond MAXVA.
Refuse ==
  /\ pc = "page" /\ call.a <= call.last /\ call.a >= MAXVA
  /\ NextPage
  /\ UNCHANGED <<day, mem, owner, root, todo, level, pagetable, left, missed>>

Walk ==
  /\ pc = "page" /\ call.a <= call.last /\ call.a < MAXVA
  /\ pc' = "walk"
  /\ level' = 2 /\ pagetable' = root[call.space]
  /\ UNCHANGED <<day, mem, owner, root, todo, call, left, missed>>

Entry == mem[pagetable][PX(level, call.a)]

\* Variant: the loop of walk() goes down to level 0.
DescendTooFar ==
  /\ pc = "walk" /\ level >= 0 /\ Entry.valid
  /\ pagetable' = Entry.page
  /\ level' = level - 1
  /\ UNCHANGED <<day, mem, owner, root, todo, call, pc, left, missed>>

Descend ==
  /\ pc = "walk" /\ level > 0 /\ Entry.valid
  /\ pagetable' = Entry.page
  /\ level' = level - 1
  /\ UNCHANGED <<day, mem, owner, root, todo, call, pc, left, missed>>

\* Variant: the new table is not linked.
MakeTableUnlinked ==
  /\ pc = "walk" /\ level > 0 /\ ~Entry.valid /\ FreePages # {}
  /\ LET p == Min(FreePages) IN
       /\ owner' = [owner EXCEPT ![p] = "table"]
       /\ mem' = [mem EXCEPT ![p] = Cleared]
       /\ pagetable' = p
  /\ level' = level - 1
  /\ UNCHANGED <<day, root, todo, call, pc, left, missed>>

MakeTable ==
  /\ pc = "walk" /\ level > 0 /\ ~Entry.valid /\ FreePages # {}
  /\ LET p == Min(FreePages) IN
       /\ owner' = [owner EXCEPT ![p] = "table"]
       /\ mem' = [mem EXCEPT ![p] = Cleared, ![pagetable][PX(level, call.a)] = PTE(p, {})]
       /\ pagetable' = p
  /\ level' = level - 1
  /\ UNCHANGED <<day, root, todo, call, pc, left, missed>>

\* walk() returns 0, and the tables it has made stay.
NoTable ==
  /\ pc = "walk" /\ level > 0 /\ ~Entry.valid /\ FreePages = {}
  /\ missed' = missed \cup {<<call.space, call.a>>}
  /\ NextPage
  /\ UNCHANGED <<day, mem, owner, root, todo, level, pagetable, left>>

\* Variant: an entry that is there is replaced.
EnterAnyway ==
  /\ pc = "walk" /\ level = 0
  /\ mem' = [mem EXCEPT ![pagetable][PX(0, call.a)] = PTE(FrameOf(call), call.perm)]
  /\ NextPage
  /\ UNCHANGED <<day, owner, root, todo, level, pagetable, left, missed>>

\* map_page() enters the page.
Enter ==
  /\ pc = "walk" /\ level = 0 /\ ~Entry.valid
  /\ mem' = [mem EXCEPT ![pagetable][PX(0, call.a)] = PTE(FrameOf(call), call.perm)]
  /\ NextPage
  /\ UNCHANGED <<day, owner, root, todo, level, pagetable, left, missed>>

\* map_page() returns -2, which map_pages() does not look at.
AlreadyMapped ==
  /\ pc = "walk" /\ level = 0 /\ Entry.valid
  /\ NextPage
  /\ UNCHANGED <<day, mem, owner, root, todo, level, pagetable, left, missed>>

\* map_pages() returns 0.
Return ==
  /\ pc = "page" /\ call.a > call.last
  /\ pc' = IF call.space = Kernel THEN "kernel" ELSE "idle"
  /\ call' = NoCall
  /\ level' = 0 /\ pagetable' = None
  /\ UNCHANGED <<day, mem, owner, root, todo, left, missed>>

-----------------------------------------------------------------------------
\* The rest of the kernel allocates a page and frees one, which clears it; which
\* one does not matter.
OthersPages == {p \in Heap : owner[p] = "other"}

Take ==
  /\ FreePages # {} /\ left > 0
  /\ owner' = [owner EXCEPT ![Min(FreePages)] = "other"]
  /\ left' = left - 1
  /\ UNCHANGED <<day, mem, root, todo, call, pc, level, pagetable, missed>>

Give ==
  /\ OthersPages # {} /\ left > 0
  /\ owner' = [owner EXCEPT ![Min(OthersPages)] = "free"]
  /\ left' = left - 1
  /\ UNCHANGED <<day, mem, root, todo, call, pc, level, pagetable, missed>>

Next ==
  \/ UseStaticRoot \/ kvm_init \/ MapKernel \/ w_satp
  \/ \E p \in Procs : proc_init(p) \/ MapProcess(p)
  \/ Refuse \/ Walk \/ Descend \/ MakeTable \/ NoTable
  \/ Enter \/ AlreadyMapped \/ Return
  \/ Take \/ Give

Spec == Init /\ [][Next]_vars

-----------------------------------------------------------------------------
\* Types.  walk() stays in the three levels and always stands on a table.
Pte == [valid : BOOLEAN, page : Nat, perm : SUBSET {"R", "W", "X"}]

IsTable(p) == p = StaticRoot \/ (p \in Heap /\ owner[p] = "table")

TypeOK ==
  /\ day \in {4, 5, 6}
  /\ mem \in [Heap \cup {StaticRoot} -> [Entries -> Pte]]
  /\ owner \in [Heap -> {"free", "table", "other"}]
  /\ root \in [Spaces -> Heap \cup {StaticRoot, None}]
  /\ pc \in {"vm_init", "kernel", "idle", "page", "walk", "fault"}
  /\ level \in Levels
  /\ pc = "walk" => IsTable(pagetable)
  /\ (call = NoCall) <=> (pc \notin {"page", "walk"})
  /\ left \in 0 .. MaxEvents
  /\ missed \subseteq Spaces \X Nat

\* A page that is in use as a table is the root of one space or is named by one
\* entry of one table, and entries name nothing else: walk() loses no page that
\* it has allocated, also where it gives up half-way, two spaces share no table,
\* and no table belongs to the rest of the kernel.
EntriesNaming(p) ==
  {e \in {q \in DOMAIN mem : IsTable(q)} \X Entries :
     LET x == mem[e[1]][e[2]] IN x.valid /\ x.perm = {} /\ x.page = p}
RootsAt(p) == {s \in Spaces : root[s] = p}

EachTableOnce ==
  /\ \A p \in Heap :
       Cardinality(EntriesNaming(p)) + Cardinality(RootsAt(p)) = IF IsTable(p) THEN 1 ELSE 0
  /\ EntriesNaming(StaticRoot) = {}

\* When map_pages() returns, every page that has a byte in the range is mapped,
\* unless it lies beyond MAXVA or malloc() failed for it: an error for one page
\* does not keep the ones behind it from being mapped.
PagesOf(c) == {PGROUNDDOWN(b) : b \in c.va .. c.va + c.size - 1}

RangeServed ==
  [][call # NoCall /\ call' = NoCall =>
       \A v \in PagesOf(call) :
          v >= MAXVA \/ v \in DOMAIN Mapped(root[call.space]) \/ <<call.space, v>> \in missed]_vars

\* The hardware sees an address space as an AddressMap: each step maps one page
\* as it was asked for, in one space, or changes nothing that is mapped.  In
\* particular a page that is mapped twice keeps its first mapping, and a table
\* that walk() adds does not disturb the entries beside it.
ReqOf(c) ==
  IF c = NoCall THEN NoCall
  ELSE [space |-> c.space, first |-> PGROUNDDOWN(c.va), next |-> c.a,
        last |-> LastPage(c.va, c.size), frame |-> c.frame, perm |-> c.perm]

Abstract == INSTANCE AddressMap WITH
  NoRequest <- NoCall, map <- [s \in Spaces |-> Mapped(root[s])], request <- ReqOf(call)

ImplementsAddressMap == Abstract!Spec
=============================================================================
