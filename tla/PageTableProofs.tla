-------------------------- MODULE PageTableProofs --------------------------
(***************************************************************************)
(* Proofs about PageTable, for every number of entries of a table, every   *)
(* size of a page, every heap, every set of processes, all requests and    *)
(* each of the three versions of the code.                                 *)
(***************************************************************************)
EXTENDS PageTable, WellFoundedInduction, FiniteSetTheorems, TLAPS

Pages == Heap \cup {StaticRoot}

\* Entry x of page q leads to the table at page p.
Names(q, x, p) == mem[q][x].valid /\ mem[q][x].perm = {} /\ mem[q][x].page = p

IsRoot(p) == \E s \in Spaces : root[s] = p

-----------------------------------------------------------------------------
\* Every table has a level: roots have level 2, an entry of a table above level 0
\* leads to a table one level below, and only entries at level 0 have permissions.
\* walk() stands on a table of the level it is at.  Pages that are no tables hold
\* no valid entry, so that none comes into the tree with a page that malloc() did
\* not clear.
LevelsOK(lv) ==
  /\ \A s \in Spaces : root[s] # None => IsTable(root[s]) /\ lv[root[s]] = 2
  /\ \A q \in Pages, x \in Entries : mem[q][x].valid =>
       /\ IsTable(q)
       /\ mem[q][x].perm = {} <=> lv[q] > 0
       /\ mem[q][x].perm = {} =>
            /\ mem[q][x].page \in Heap /\ IsTable(mem[q][x].page)
            /\ lv[mem[q][x].page] = lv[q] - 1
  /\ pc = "walk" => IsTable(pagetable) /\ lv[pagetable] = level

TreeOK == \E lv \in [Pages -> Levels] : LevelsOK(lv)

\* Each table is the root of one space or hangs below one entry.
NamedOnce ==
  /\ \A q, r \in Pages : \A x, y \in Entries : \A p \in Heap :
       Names(q, x, p) /\ Names(r, y, p) => q = r /\ x = y
  /\ \A q \in Pages, x \in Entries, s \in Spaces : ~Names(q, x, root[s])
  /\ \A s, t \in Spaces : root[s] = root[t] /\ root[s] # None => s = t
  /\ \A p \in Heap : IsTable(p) => IsRoot(p) \/ \E q \in Pages, x \in Entries : Names(q, x, p)

\* What map_pages() is called with.
Calls ==
  [space : Spaces, va : Nat, size : Nat, frame : Nat, perm : (SUBSET {"R", "W", "X"}) \ {{}},
   a : Nat, last : Int]

CallOK(c) ==
  /\ c \in Calls
  /\ root[c.space] # None
  /\ c.a >= PGROUNDDOWN(c.va)
  /\ c.last = LastPage(c.va, c.size)

\* vm_init() finds no tables and leaves the kernel with one; what is to be mapped
\* for the kernel has not begun.
StartOK ==
  /\ pc = "vm_init" => /\ \A s \in Spaces : root[s] = None
                       /\ \A q \in Pages, x \in Entries : ~mem[q][x].valid
  /\ pc \notin {"vm_init", "fault"} => root[Kernel] # None
  /\ todo \in Seq(Calls)
  /\ \A i \in 1 .. Len(todo) :
       /\ todo[i].space = Kernel
       /\ todo[i].a = PGROUNDDOWN(todo[i].va)
       /\ todo[i].last = LastPage(todo[i].va, todo[i].size)

RequestOK ==
  /\ pc \in {"page", "walk"} => CallOK(call)
  /\ pc = "walk" => call.a <= call.last /\ call.a < MAXVA

IInv == TypeOK /\ TreeOK /\ NamedOnce /\ StartOK /\ RequestOK

-----------------------------------------------------------------------------
\* Pages are numbers; no page is the null root, and the kernel has a space.
LEMMA PageFacts ==
  /\ Pages \subseteq Nat /\ Heap \subseteq Nat /\ StaticRoot \notin Heap
  /\ None \notin Pages
  /\ Kernel \in Spaces /\ Procs \subseteq Spaces
BY HeapAssumption DEF Pages, None, Spaces

\* malloc() finds a page when one is free.
LEMMA MinIsIn ==
  ASSUME NEW S \in SUBSET Heap, S # {}
  PROVE  Min(S) \in S
<1>1. S \subseteq Nat
  BY HeapAssumption
<1>2. PICK d \in S : \A e \in S : ~ (<<e, d>> \in OpToRel(<, Nat))
  BY <1>1, WFMin, NatLessThanWellFounded
<1>3. \A e \in S : ~ (e < d)
  BY <1>1, <1>2 DEF OpToRel
<1>4. \A e \in S : d <= e
  BY <1>1, <1>3
<1> QED BY <1>4 DEF Min

\* The index into a table is one.
LEMMA IndexInTable ==
  ASSUME NEW v \in Nat, NEW l \in Levels
  PROVE  PX(l, v) \in Entries
<1>1. Span(l) \in Nat \ {0}
  BY EntriesAssumption DEF Span, Levels
<1>2. v \div Span(l) \in Nat
  BY <1>1
<1> QED BY <1>2, EntriesAssumption DEF PX, Entries

\* A call of map_pages() begins at the first page of its range.
LEMMA MapPagesCalls ==
  ASSUME NEW s \in Spaces, NEW va \in Nat, NEW pa \in Nat, NEW size \in Nat,
         NEW prm \in SUBSET {"R", "W", "X"}, prm # {},
         NEW c, c = MapPages(s, va, pa, size, prm)
  PROVE  /\ c \in Calls
         /\ c.space = s /\ c.a = PGROUNDDOWN(c.va) /\ c.last = LastPage(c.va, c.size)
<1>1. \A n \in Nat : PGROUNDDOWN(n) \in Nat
  BY PageSizeAssumption DEF PGROUNDDOWN
<1>2. LastPage(va, size) \in Int
  BY <1>1 DEF LastPage
<1>3. prm \in (SUBSET {"R", "W", "X"}) \ {{}}
  OBVIOUS
<1>4. c = [space |-> s, va |-> va, size |-> size, frame |-> PGROUNDDOWN(pa), perm |-> prm,
           a |-> PGROUNDDOWN(va), last |-> LastPage(va, size)]
  BY DEF MapPages
<1>5. c \in Calls
  BY <1>1, <1>2, <1>3, <1>4 DEF Calls
<1> QED BY <1>4, <1>5

\* The kernel's mappings are calls for the kernel.
LEMMA KernelMapCalls ==
  ASSUME day \in {4, 5, 6}
  PROVE  /\ KernelMap \in Seq(Calls)
         /\ \A i \in 1 .. Len(KernelMap) :
              /\ KernelMap[i].space = Kernel
              /\ KernelMap[i].a = PGROUNDDOWN(KernelMap[i].va)
              /\ KernelMap[i].last = LastPage(KernelMap[i].va, KernelMap[i].size)
<1> DEFINE Good(c) == /\ c \in Calls
                      /\ c.space = Kernel /\ c.a = PGROUNDDOWN(c.va)
                      /\ c.last = LastPage(c.va, c.size)
<1>1. ASSUME NEW va \in Nat, NEW size \in Nat,
             NEW prm \in {{"R", "W"}, {"R", "W", "X"}}
      PROVE  Good(MapPages(Kernel, va, va, size, prm))
  <2>1. prm \in SUBSET {"R", "W", "X"} /\ prm # {}
    <3>1. "R" \in prm /\ \A x \in prm : x \in {"R", "W", "X"}
      BY <1>1
    <3> QED BY <3>1
  <2> DEFINE c == MapPages(Kernel, va, va, size, prm)
  <2> HIDE DEF c
  <2>2. c = MapPages(Kernel, va, va, size, prm)
    BY DEF c
  <2>3. c \in Calls /\ c.space = Kernel /\ c.a = PGROUNDDOWN(c.va) /\ c.last = LastPage(c.va, c.size)
    BY <2>1, <2>2, MapPagesCalls, PageFacts
  <2> QED BY <2>2, <2>3
<1>2. /\ UART \in Nat /\ VIRTIO0 \in Nat /\ PLIC_BASE \in Nat /\ PLIC_SIZE \in Nat
      /\ KERNEL_START_ADDR \in Nat /\ KERNEL_SIZE \in Nat /\ PGSIZE \in Nat
  BY AddressesAssumption, PageSizeAssumption
<1> DEFINE u(prm) == MapPages(Kernel, UART, UART, PGSIZE, prm)
           d      == MapPages(Kernel, VIRTIO0, VIRTIO0, PGSIZE, {"R", "W"})
           i(prm) == MapPages(Kernel, PLIC_BASE, PLIC_BASE, PLIC_SIZE, prm)
           k      == MapPages(Kernel, KERNEL_START_ADDR, KERNEL_START_ADDR, KERNEL_SIZE, {"R", "W", "X"})
           rw     == {"R", "W"}
           rwx    == {"R", "W", "X"}
<1>3. Good(u(rw)) /\ Good(u(rwx)) /\ Good(d) /\ Good(i(rw)) /\ Good(i(rwx)) /\ Good(k)
  BY <1>1, <1>2
<1>4. \/ KernelMap = <<u(rw), i(rw), k>>
      \/ KernelMap = <<u(rwx), d, i(rwx), k>>
      \/ KernelMap = <<u(rw), d, i(rw), k>>
  BY DEF KernelMap, kernel_mapping4, map_kernel5, kernel_mapping6
<1> HIDE DEF u, d, i, k, Good
<1>5. /\ KernelMap \in Seq(Calls)
      /\ \A j \in 1 .. Len(KernelMap) : Good(KernelMap[j])
  <2>1. CASE KernelMap = <<u(rw), i(rw), k>>
    BY <1>3, <2>1 DEF Good
  <2>2. CASE KernelMap = <<u(rwx), d, i(rwx), k>>
    BY <1>3, <2>2 DEF Good
  <2>3. CASE KernelMap = <<u(rw), d, i(rw), k>>
    BY <1>3, <2>3 DEF Good
  <2> QED BY <1>4, <2>1, <2>2, <2>3
<1> QED BY <1>5 DEF Good

-----------------------------------------------------------------------------
\* A call is not the absence of one.
LEMMA CallsAreCalls ==
  ASSUME NEW c \in Calls
  PROVE  c # NoCall
<1>1. c = [space |-> c.space, va |-> c.va, size |-> c.size, frame |-> c.frame, perm |-> c.perm,
           a |-> c.a, last |-> c.last]
  BY DEF Calls
<1> QED BY <1>1 DEF NoCall

\* The next page of a call.
LEMMA NextPageCalls ==
  ASSUME CallOK(call), NextPage, UNCHANGED root
  PROVE  /\ CallOK(call)' /\ pc' = "page"
         /\ call' = [call EXCEPT !.a = call.a + 1]
<1>1. call \in Calls /\ call' = [call EXCEPT !.a = call.a + 1] /\ pc' = "page"
  BY DEF CallOK, NextPage
<1>2. call.a \in Nat /\ call.a >= PGROUNDDOWN(call.va) /\ PGROUNDDOWN(call.va) \in Int
  BY <1>1, PageSizeAssumption DEF CallOK, Calls, PGROUNDDOWN
<1>3. /\ call' \in Calls
      /\ call'.space = call.space /\ call'.va = call.va /\ call'.size = call.size
      /\ call'.last = call.last /\ call'.a = call.a + 1
  BY <1>1, <1>2 DEF Calls
<1> QED BY <1>1, <1>2, <1>3 DEF CallOK

\* Where walk() stands there is an entry.
LEMMA EntryFacts ==
  ASSUME IInv, pc = "walk"
  PROVE  /\ call \in Calls /\ call.a \in Nat
         /\ IsTable(pagetable) /\ pagetable \in Pages
         /\ \A l \in Levels : PX(l, call.a) \in Entries
         /\ Entry \in Pte
<1>1. call \in Calls /\ call.a \in Nat
  BY DEF IInv, RequestOK, CallOK, Calls
<1>2. IsTable(pagetable) /\ pagetable \in Pages
  BY DEF IInv, TypeOK, IsTable, Pages
<1>3. \A l \in Levels : PX(l, call.a) \in Entries
  BY <1>1, IndexInTable
<1>4. mem \in [Pages -> [Entries -> Pte]] /\ level \in Levels
  BY DEF IInv, TypeOK, Pages
<1> QED BY <1>1, <1>2, <1>3, <1>4 DEF Entry

\* The tree is not touched by what leaves the tables and their contents alone.
LEMMA TreeKept ==
  ASSUME IInv, UNCHANGED <<mem, root>>,
         \A p \in Pages : IsTable(p)' <=> IsTable(p),
         pc' = "walk" =>
           /\ pagetable' \in Pages
           /\ \A lv \in [Pages -> Levels] :
                LevelsOK(lv) => IsTable(pagetable') /\ lv[pagetable'] = level'
  PROVE  TreeOK' /\ NamedOnce'
<1>1. TreeOK'
  <2>1. PICK lv \in [Pages -> Levels] : LevelsOK(lv)
    BY DEF IInv, TreeOK
  <2>2. root \in [Spaces -> Pages \cup {None}]
    BY DEF IInv, TypeOK, Pages
  <2>3. \A s \in Spaces : root'[s] # None => IsTable(root[s])' /\ lv[root'[s]] = 2
    BY <2>1, <2>2 DEF LevelsOK
  <2>4. \A q \in Pages, x \in Entries : mem'[q][x].valid =>
          /\ IsTable(q)'
          /\ mem'[q][x].perm = {} <=> lv[q] > 0
          /\ mem'[q][x].perm = {} =>
               /\ mem'[q][x].page \in Heap /\ IsTable(mem[q][x].page)'
               /\ lv[mem'[q][x].page] = lv[q] - 1
    BY <2>1 DEF LevelsOK, Pages
  <2>5. pc' = "walk" => IsTable(pagetable)' /\ lv[pagetable'] = level'
    <3>1. ASSUME pc' = "walk" PROVE IsTable(pagetable') /\ lv[pagetable'] = level' /\ pagetable' \in Pages
      BY <2>1, <3>1
    <3> QED BY <3>1 DEF IsTable
  <2>6. LevelsOK(lv)'
    BY <2>3, <2>4, <2>5 DEF LevelsOK, IsTable
  <2> QED BY <2>6 DEF TreeOK, LevelsOK
<1>2. NamedOnce'
  <2>1. NamedOnce
    BY DEF IInv
  <2>2. \A p \in Heap : IsTable(p)' => IsTable(p)
    BY DEF Pages
  <2> QED BY <2>1, <2>2 DEF NamedOnce, Names, IsRoot
<1> QED BY <1>1, <1>2

-----------------------------------------------------------------------------
\* The steps that change neither the tables nor the memory.

\* Turning to the next page of a call keeps the invariant.
LEMMA NextPageStep ==
  ASSUME IInv, pc \in {"page", "walk"}, NextPage,
         UNCHANGED <<day, mem, owner, root, todo, level, pagetable, left>>,
         missed' \subseteq missed \cup {<<call.space, call.a>>}
  PROVE  IInv'
<1>1. CallOK(call)
  BY DEF IInv, RequestOK
<1>2. CallOK(call)' /\ pc' = "page"
  BY <1>1, NextPageCalls
<1>3. TypeOK'
  <2>1. <<call.space, call.a>> \in Spaces \X Nat
    BY <1>1 DEF CallOK, Calls
  <2>2. call' # NoCall
    BY <1>2, CallsAreCalls DEF CallOK
  <2>3. missed' \subseteq Spaces \X Nat
    BY <2>1 DEF IInv, TypeOK
  <2> QED BY <1>2, <2>2, <2>3 DEF IInv, TypeOK
<1>4. TreeOK' /\ NamedOnce'
  BY <1>2, TreeKept DEF IsTable
<1>5. StartOK'
  BY <1>2 DEF IInv, StartOK
<1>6. RequestOK'
  BY <1>2 DEF RequestOK
<1> QED BY <1>3, <1>4, <1>5, <1>6 DEF IInv

\* It does so where the page is beyond MAXVA, malloc() fails or the page is mapped.
LEMMA PageStep ==
  ASSUME IInv, Refuse \/ NoTable \/ AlreadyMapped
  PROVE  IInv'
BY NextPageStep DEF Refuse, NoTable, AlreadyMapped

\* A call begins,
LEMMA BeginStep ==
  ASSUME IInv, MapKernel \/ \E p \in Procs : MapProcess(p)
  PROVE  IInv'
<1>1. /\ CallOK(call)' /\ pc' = "page"
      /\ UNCHANGED <<day, mem, owner, root, level, pagetable, missed>>
      /\ left' \in 0 .. MaxEvents
      /\ root[Kernel] # None
      /\ todo' \in Seq(Calls)
      /\ \A i \in 1 .. Len(todo') :
           /\ todo'[i].space = Kernel
           /\ todo'[i].a = PGROUNDDOWN(todo'[i].va)
           /\ todo'[i].last = LastPage(todo'[i].va, todo'[i].size)
  <2>1. StartOK /\ TypeOK
    BY DEF IInv
  <2>2. CASE MapKernel
    <3>1. /\ call' = todo[1] /\ todo' = Tail(todo) /\ todo # <<>> /\ todo \in Seq(Calls)
          /\ root[Kernel] # None
      BY <2>1, <2>2 DEF MapKernel, StartOK
    <3>2. 1 \in 1 .. Len(todo) /\ todo[1] \in Calls
      BY <3>1
    <3>3. /\ call' \in Calls /\ call'.space = Kernel /\ call'.a = PGROUNDDOWN(call'.va)
          /\ call'.last = LastPage(call'.va, call'.size)
      BY <2>1, <3>1, <3>2 DEF StartOK
    <3>4. PGROUNDDOWN(call'.va) \in Int
      BY <3>3, PageSizeAssumption DEF PGROUNDDOWN, Calls
    <3>5. CallOK(call)'
      BY <2>2, <3>1, <3>3, <3>4 DEF CallOK, MapKernel
    <3>6. /\ todo' \in Seq(Calls)
          /\ \A i \in 1 .. Len(todo') : i + 1 \in 1 .. Len(todo) /\ todo'[i] = todo[i + 1]
      BY <3>1
    <3> QED BY <2>1, <2>2, <3>1, <3>5, <3>6 DEF MapKernel, StartOK, TypeOK
  <2>3. CASE \E p \in Procs : MapProcess(p)
    <3>1. PICK p \in Procs : MapProcess(p)
      BY <2>3
    <3>2. PICK r \in Requests : call' = MapPages(p, r.va, r.pa, r.size, r.perm)
      BY <3>1 DEF MapProcess
    <3>3. /\ r.va \in Nat /\ r.pa \in Nat /\ r.size \in Nat
          /\ r.perm \in SUBSET {"R", "W", "X"} /\ r.perm # {}
      BY RequestsAssumption
    <3>4. /\ call' \in Calls /\ call'.space = p /\ call'.a = PGROUNDDOWN(call'.va)
          /\ call'.last = LastPage(call'.va, call'.size)
      BY <3>2, <3>3, MapPagesCalls, PageFacts
    <3>5. PGROUNDDOWN(call'.va) \in Int
      BY <3>4, PageSizeAssumption DEF PGROUNDDOWN, Calls
    <3>6. CallOK(call)'
      BY <3>1, <3>4, <3>5 DEF CallOK, MapProcess
    <3>7. left' \in 0 .. MaxEvents
      BY <2>1, <3>1, MaxEventsAssumption DEF MapProcess, TypeOK
    <3> QED BY <2>1, <3>1, <3>6, <3>7 DEF MapProcess, StartOK
  <2> QED BY <2>2, <2>3
<1>2. TypeOK'
  <2>1. call' # NoCall
    BY <1>1, CallsAreCalls DEF CallOK
  <2> QED BY <1>1, <2>1 DEF IInv, TypeOK
<1>3. TreeOK' /\ NamedOnce'
  BY <1>1, TreeKept DEF IsTable
<1>4. StartOK'
  BY <1>1 DEF StartOK
<1>5. RequestOK'
  BY <1>1 DEF RequestOK
<1> QED BY <1>2, <1>3, <1>4, <1>5 DEF IInv

\* ends,
LEMMA EndStep ==
  ASSUME IInv, Return \/ w_satp
  PROVE  IInv'
<1>1. /\ pc' \in {"kernel", "idle"} /\ call' = NoCall
      /\ UNCHANGED <<day, mem, owner, root, todo, left, missed>>
      /\ level' \in Levels
  BY DEF Return, w_satp, IInv, TypeOK, Levels
<1>2. TypeOK'
  BY <1>1 DEF IInv, TypeOK
<1>3. TreeOK' /\ NamedOnce'
  BY <1>1, TreeKept DEF IsTable
<1>4. StartOK'
  BY <1>1 DEF IInv, StartOK, Return, w_satp
<1>5. RequestOK'
  BY <1>1 DEF RequestOK
<1> QED BY <1>2, <1>3, <1>4, <1>5 DEF IInv

\* walk() starts at the root
LEMMA WalkStep ==
  ASSUME IInv, Walk
  PROVE  IInv'
<1>1. CallOK(call) /\ call.space \in Spaces /\ root[call.space] # None
  BY DEF IInv, RequestOK, Walk, CallOK, Calls
<1>2. root[call.space] \in Pages
  BY <1>1 DEF IInv, TypeOK, Pages
<1>3. ASSUME NEW lv \in [Pages -> Levels], LevelsOK(lv)
      PROVE  IsTable(pagetable') /\ lv[pagetable'] = level'
  BY <1>1, <1>3 DEF LevelsOK, Walk
<1>4. TreeOK
  BY DEF IInv
<1>5. IsTable(pagetable)'
  BY <1>3, <1>4 DEF TreeOK, Walk, IsTable
<1>6. TypeOK'
  BY <1>5 DEF IInv, TypeOK, Walk, Levels
<1>7. TreeOK' /\ NamedOnce'
  BY <1>2, <1>3, TreeKept DEF IsTable, Walk
<1>8. StartOK'
  BY DEF IInv, StartOK, Walk
<1>9. RequestOK'
  BY <1>1 DEF IInv, RequestOK, Walk, CallOK
<1> QED BY <1>6, <1>7, <1>8, <1>9 DEF IInv

\* and goes down to a table of the next level.
LEMMA DescendStep ==
  ASSUME IInv, Descend
  PROVE  IInv'
<1>1. /\ pc = "walk" /\ level > 0 /\ level \in Levels /\ Entry.valid /\ CallOK(call)
      /\ pagetable' = Entry.page /\ level' = level - 1
  BY DEF Descend, IInv, TypeOK, RequestOK
<1>2. IsTable(pagetable) /\ pagetable \in Pages /\ PX(level, call.a) \in Entries
  BY <1>1, EntryFacts
<1>3. ASSUME NEW lv \in [Pages -> Levels], LevelsOK(lv)
      PROVE  IsTable(pagetable') /\ lv[pagetable'] = level' /\ pagetable' \in Pages
  <2>1. lv[pagetable] = level
    BY <1>1, <1>3 DEF LevelsOK
  <2>2. Entry.perm = {}
    BY <1>1, <1>2, <1>3, <2>1 DEF LevelsOK, Entry
  <2>3. /\ Entry.page \in Heap /\ IsTable(Entry.page)
        /\ lv[Entry.page] = lv[pagetable] - 1
    BY <1>1, <1>2, <1>3, <2>2 DEF LevelsOK, Entry
  <2> QED BY <1>1, <2>1, <2>3 DEF Pages
<1>4. TreeOK
  BY DEF IInv
<1>5. IsTable(pagetable)' /\ pagetable' \in Pages
  BY <1>3, <1>4 DEF TreeOK, Descend, IsTable
<1>6. TypeOK'
  BY <1>1, <1>5 DEF IInv, TypeOK, Descend, Levels
<1>7. TreeOK' /\ NamedOnce'
  BY <1>3, <1>5, TreeKept DEF IsTable, Descend
<1>8. StartOK'
  BY DEF IInv, StartOK, Descend
<1>9. RequestOK'
  BY DEF IInv, RequestOK, Descend, CallOK
<1> QED BY <1>6, <1>7, <1>8, <1>9 DEF IInv

\* The rest of the kernel takes a page that is free or gives one of its own back.
LEMMA OthersStep ==
  ASSUME IInv, Take \/ Give
  PROVE  IInv'
<1>1. PICK p \in Heap, o \in {"free", "other"} :
        owner[p] # "table" /\ owner' = [owner EXCEPT ![p] = o]
  <2>1. CASE Take
    <3>1. Min(FreePages) \in FreePages
      BY <2>1, MinIsIn DEF Take, FreePages
    <3> QED BY <2>1, <3>1 DEF Take, FreePages
  <2>2. CASE Give
    <3>1. Min(OthersPages) \in OthersPages
      BY <2>2, MinIsIn DEF Give, OthersPages
    <3> QED BY <2>2, <3>1 DEF Give, OthersPages
  <2> QED BY <2>1, <2>2
<1>2. UNCHANGED <<day, mem, root, todo, call, pc, level, pagetable, missed>>
  BY DEF Take, Give
<1>3. left' \in 0 .. MaxEvents
  BY MaxEventsAssumption DEF Take, Give, IInv, TypeOK
<1>4. \A q \in Pages : IsTable(q)' <=> IsTable(q)
  BY <1>1 DEF IInv, TypeOK, IsTable, Pages
<1>5. TypeOK'
  <2>1. owner' \in [Heap -> {"free", "table", "other"}]
    BY <1>1 DEF IInv, TypeOK
  <2>2. pc' = "walk" => IsTable(pagetable)'
    BY <1>1, <1>2 DEF IInv, TypeOK, IsTable
  <2> QED BY <1>2, <1>3, <2>1, <2>2 DEF IInv, TypeOK
<1>6. TreeOK' /\ NamedOnce'
  <2>1. pc = "walk" => pagetable \in Pages
    BY EntryFacts
  <2>2. \A lv \in [Pages -> Levels] :
          LevelsOK(lv) /\ pc = "walk" => IsTable(pagetable) /\ lv[pagetable] = level
    BY DEF LevelsOK
  <2>3. pagetable' = pagetable /\ level' = level /\ pc' = pc
    BY <1>2
  <2> QED BY <1>2, <1>4, <2>1, <2>2, <2>3, TreeKept
<1>7. StartOK'
  BY <1>2 DEF IInv, StartOK
<1>8. RequestOK'
  BY <1>2 DEF IInv, RequestOK, CallOK
<1> QED BY <1>5, <1>6, <1>7, <1>8 DEF IInv

-----------------------------------------------------------------------------
\* The steps that make tables.

\* A page becomes the root of a space that has none.
LEMMA NewRoot ==
  ASSUME IInv, NEW s \in Spaces, root[s] = None,
         NEW p \in Pages, root' = [root EXCEPT ![s] = p],
         p \in Heap => owner[p] = "free",
         p = StaticRoot => \A t \in Spaces : root[t] = None,
         p = StaticRoot => \A q \in Pages, x \in Entries : ~mem[q][x].valid,
         \A q \in Heap \ {p} : owner'[q] = owner[q],
         p \in Heap => owner'[p] = "table",
         \A q \in Pages, x \in Entries : \/ mem'[q][x] = mem[q][x]
                                         \/ ~mem[q][x].valid /\ ~mem'[q][x].valid,
         pc' # "walk"
  PROVE  TreeOK' /\ NamedOnce'
<1>1. TypeOK /\ TreeOK /\ NamedOnce
  BY DEF IInv
<1>2. PICK lv \in [Pages -> Levels] : LevelsOK(lv)
  BY <1>1 DEF TreeOK
<1>3. root \in [Spaces -> Pages \cup {None}] /\ p # None
  BY <1>1, PageFacts DEF TypeOK, Pages
<1>4. \A t \in Spaces : root'[t] = IF t = s THEN p ELSE root[t]
  BY <1>3
<1>5. \A q \in Pages, x \in Entries :
        /\ mem'[q][x].valid => mem'[q][x] = mem[q][x]
        /\ mem[q][x].valid => mem'[q][x] = mem[q][x]
  OBVIOUS
<1> DEFINE Tab(q) == q = StaticRoot \/ (q \in Heap /\ owner'[q] = "table")
<1>6. \A q \in Pages : Tab(q) <=> IsTable(q) \/ q = p
  BY PageFacts DEF IsTable, Pages
<1> HIDE DEF Tab
\* Nothing leads to the page yet, and it leads nowhere.
<1>7. /\ \A t \in Spaces : root[t] # p
      /\ \A q \in Pages, x \in Entries : ~Names(q, x, p)
      /\ \A x \in Entries : ~mem[p][x].valid
  <2>1. CASE p = StaticRoot
    BY <1>3, <2>1 DEF Names
  <2>2. CASE p # StaticRoot
    <3>1. p \in Heap /\ ~IsTable(p)
      BY <2>2, PageFacts DEF Pages, IsTable
    <3> QED BY <1>2, <1>3, <3>1 DEF LevelsOK, Names
  <2> QED BY <2>1, <2>2
<1>8. TreeOK'
  <2> DEFINE w == [lv EXCEPT ![p] = 2]
  <2>1. w \in [Pages -> Levels]
    BY DEF Levels
  <2>2. \A q \in Pages : w[q] = IF q = p THEN 2 ELSE lv[q]
    OBVIOUS
  <2> HIDE DEF w
  <2>3. ASSUME NEW t \in Spaces, root'[t] # None
        PROVE  Tab(root'[t]) /\ w[root'[t]] = 2
    <3>1. CASE t = s
      BY <1>4, <1>6, <2>2, <3>1
    <3>2. CASE t # s
      <4>1. root'[t] = root[t] /\ root[t] \in Pages /\ IsTable(root[t]) /\ lv[root[t]] = 2
        BY <1>2, <1>3, <1>4, <2>3, <3>2 DEF LevelsOK
      <4> QED BY <1>6, <2>2, <4>1
    <3> QED BY <3>1, <3>2
  <2>4. ASSUME NEW q \in Pages, NEW x \in Entries, mem'[q][x].valid
        PROVE  /\ Tab(q)
               /\ mem'[q][x].perm = {} <=> w[q] > 0
               /\ mem'[q][x].perm = {} =>
                    /\ mem'[q][x].page \in Heap /\ Tab(mem'[q][x].page)
                    /\ w[mem'[q][x].page] = w[q] - 1
    <3>1. mem'[q][x] = mem[q][x] /\ mem[q][x].valid
      BY <1>5, <2>4
    <3>2. q # p
      BY <1>7, <3>1
    <3>3. mem[q][x].perm = {} => mem[q][x].page # p
      BY <1>7, <3>1 DEF Names
    <3>4. /\ IsTable(q)
          /\ mem[q][x].perm = {} <=> lv[q] > 0
          /\ mem[q][x].perm = {} =>
               /\ mem[q][x].page \in Heap /\ mem[q][x].page \in Pages /\ IsTable(mem[q][x].page)
               /\ lv[mem[q][x].page] = lv[q] - 1
      BY <1>2, <3>1 DEF LevelsOK, Pages
    <3> QED BY <1>6, <2>2, <3>1, <3>2, <3>3, <3>4
  <2>5. LevelsOK(w)'
    BY <2>3, <2>4 DEF LevelsOK, IsTable, Tab
  <2> QED BY <2>1, <2>5 DEF TreeOK, LevelsOK
<1>9. \A q \in Pages, x \in Entries, r \in Nat : Names(q, x, r)' <=> Names(q, x, r)
  BY <1>5 DEF Names
<1>10. NamedOnce'
  <2>1. \A q, r \in Pages : \A x, y \in Entries : \A h \in Heap :
          Names(q, x, h)' /\ Names(r, y, h)' => q = r /\ x = y
    BY <1>1, <1>9, PageFacts DEF NamedOnce
  <2>2. \A q \in Pages, x \in Entries, t \in Spaces : ~(mem'[q][x].valid /\ mem'[q][x].perm = {} /\ mem'[q][x].page = root'[t])
    BY <1>1, <1>4, <1>5, <1>7 DEF NamedOnce, Names
  <2>3. \A t, u \in Spaces : root'[t] = root'[u] /\ root'[t] # None => t = u
    BY <1>1, <1>4, <1>7 DEF NamedOnce
  <2>4. ASSUME NEW h \in Heap, Tab(h)
        PROVE  IsRoot(h)' \/ \E q \in Pages, x \in Entries : Names(q, x, h)'
    <3>1. CASE h = p
      BY <1>4, <3>1 DEF IsRoot
    <3>2. CASE h # p
      <4>1. IsTable(h)
        BY <1>6, <2>4, <3>2 DEF Pages
      <4>2. CASE IsRoot(h)
        <5>1. PICK t \in Spaces : root[t] = h
          BY <4>2 DEF IsRoot
        <5>2. t # s
          BY <1>3, <5>1, PageFacts DEF Pages
        <5> QED BY <1>4, <5>1, <5>2 DEF IsRoot
      <4>3. CASE \E q \in Pages, x \in Entries : Names(q, x, h)
        BY <1>9, <4>3, PageFacts
      <4> QED BY <1>1, <4>1, <4>2, <4>3 DEF NamedOnce
    <3> QED BY <3>1, <3>2
  <2> QED BY <2>1, <2>2, <2>3, <2>4 DEF NamedOnce, Names, IsRoot, IsTable, Tab
<1> QED BY <1>8, <1>10

\* A cleared page holds no entry.
LEMMA ClearedFacts ==
  /\ Cleared \in [Entries -> Pte]
  /\ \A x \in Entries : Cleared[x] = Null /\ ~Cleared[x].valid
BY DEF Cleared, Null, Pte

\* The kernel's root table is the array of days 5,
LEMMA UseStaticRootStep ==
  ASSUME IInv, UseStaticRoot
  PROVE  IInv'
<1>1. TypeOK /\ StartOK
  BY DEF IInv
<1>2. /\ \A s \in Spaces : root[s] = None
      /\ \A q \in Pages, x \in Entries : ~mem[q][x].valid
  BY <1>1 DEF StartOK, UseStaticRoot
<1>3. /\ mem \in [Pages -> [Entries -> Pte]] /\ root \in [Spaces -> Heap \cup {StaticRoot, None}]
      /\ StaticRoot \in Pages
  BY <1>1 DEF TypeOK, Pages
<1>4. /\ mem' \in [Pages -> [Entries -> Pte]]
      /\ \A q \in Pages : mem'[q] = IF q = StaticRoot THEN Cleared ELSE mem[q]
  BY <1>3, ClearedFacts DEF UseStaticRoot
<1>5. \A q \in Pages, x \in Entries : ~mem'[q][x].valid
  BY <1>2, <1>4, ClearedFacts
<1>6. TypeOK'
  BY <1>1, <1>3, <1>4, PageFacts DEF UseStaticRoot, TypeOK, Pages
<1>7. TreeOK' /\ NamedOnce'
  BY <1>2, <1>3, <1>5, NewRoot, PageFacts DEF UseStaticRoot
<1>8. StartOK'
  BY <1>1, <1>3, PageFacts DEF StartOK, UseStaticRoot, None, Pages
<1>9. RequestOK'
  BY DEF RequestOK, UseStaticRoot
<1> QED BY <1>6, <1>7, <1>8, <1>9 DEF IInv

\* or a page, or there is none and the kernel stops.
LEMMA KvmInitStep ==
  ASSUME IInv, kvm_init
  PROVE  IInv'
<1>1. TypeOK /\ StartOK
  BY DEF IInv
<1>2. /\ mem \in [Pages -> [Entries -> Pte]] /\ root \in [Spaces -> Heap \cup {StaticRoot, None}]
      /\ owner \in [Heap -> {"free", "table", "other"}]
  BY <1>1 DEF TypeOK, Pages
<1>3. CASE FreePages = {}
  <2>1. pc' = "fault" /\ UNCHANGED <<day, mem, owner, root, todo, call, level, pagetable, left, missed>>
    BY <1>3 DEF kvm_init
  <2>2. TypeOK'
    BY <1>1, <2>1 DEF kvm_init, TypeOK
  <2>3. TreeOK' /\ NamedOnce'
    BY <2>1, TreeKept DEF IsTable
  <2>4. StartOK' /\ RequestOK'
    BY <1>1, <2>1 DEF StartOK, RequestOK
  <2> QED BY <2>2, <2>3, <2>4 DEF IInv
<1>4. CASE FreePages # {}
  <2> DEFINE p == Min(FreePages)
  <2>1. p \in Heap /\ owner[p] = "free" /\ p \in Pages
    <3>1. p \in FreePages
      BY <1>4, MinIsIn DEF FreePages
    <3> QED BY <3>1 DEF FreePages, Pages
  <2>2. /\ owner' = [owner EXCEPT ![p] = "table"]
        /\ mem' = [mem EXCEPT ![p] = Cleared]
        /\ root' = [root EXCEPT ![Kernel] = p]
        /\ pc = "vm_init" /\ pc' = "kernel"
        /\ UNCHANGED <<day, todo, call, level, pagetable, left, missed>>
    BY <1>4 DEF kvm_init
  <2> HIDE DEF p
  <2>3. /\ \A s \in Spaces : root[s] = None
        /\ \A q \in Pages, x \in Entries : ~mem[q][x].valid
    BY <1>1, <2>2 DEF StartOK
  <2>4. /\ mem' \in [Pages -> [Entries -> Pte]]
        /\ \A q \in Pages : mem'[q] = IF q = p THEN Cleared ELSE mem[q]
    BY <1>2, <2>1, <2>2, ClearedFacts
  <2>5. \A q \in Pages, x \in Entries : ~mem'[q][x].valid
    BY <2>3, <2>4, ClearedFacts
  <2>6. TypeOK'
    <3>1. owner' \in [Heap -> {"free", "table", "other"}]
      BY <1>2, <2>1, <2>2
    <3>2. root' \in [Spaces -> Heap \cup {StaticRoot, None}]
      BY <1>2, <2>1, <2>2
    <3> QED BY <1>1, <2>2, <2>4, <3>1, <3>2 DEF TypeOK, Pages
  <2>7. p # StaticRoot /\ p # None
    BY <2>1, PageFacts
  <2>8. TreeOK' /\ NamedOnce'
    BY <1>2, <2>1, <2>2, <2>3, <2>5, <2>7, NewRoot, PageFacts
  <2>9. StartOK'
    BY <1>1, <1>2, <2>2, <2>7, PageFacts DEF StartOK
  <2>10. RequestOK'
    BY <2>2 DEF RequestOK
  <2> QED BY <2>6, <2>8, <2>9, <2>10 DEF IInv
<1> QED BY <1>3, <1>4

\* proc_init() takes a page that malloc() has not cleared; it is clear all the same.
LEMMA ProcInitStep ==
  ASSUME IInv, NEW s \in Procs, proc_init(s)
  PROVE  IInv'
<1>1. TypeOK /\ StartOK
  BY DEF IInv
<1>2. /\ root \in [Spaces -> Heap \cup {StaticRoot, None}]
      /\ owner \in [Heap -> {"free", "table", "other"}]
  BY <1>1 DEF TypeOK
<1> DEFINE p == Min(FreePages)
<1>3. p \in Heap /\ owner[p] = "free" /\ p \in Pages
  <2>1. p \in FreePages
    BY MinIsIn DEF proc_init, FreePages
  <2> QED BY <2>1 DEF FreePages, Pages
<1>4. /\ owner' = [owner EXCEPT ![p] = "table"]
      /\ root' = [root EXCEPT ![s] = p]
      /\ pc = "idle" /\ root[s] = None
      /\ UNCHANGED <<day, mem, todo, call, pc, level, pagetable, left, missed>>
  BY DEF proc_init
<1> HIDE DEF p
<1>5. p # StaticRoot /\ p # None
  BY <1>3, PageFacts
<1>6. TypeOK'
  <2>1. owner' \in [Heap -> {"free", "table", "other"}]
    BY <1>2, <1>3, <1>4
  <2>2. root' \in [Spaces -> Heap \cup {StaticRoot, None}]
    BY <1>2, <1>3, <1>4
  <2> QED BY <1>1, <1>4, <2>1, <2>2 DEF TypeOK
<1>7. TreeOK' /\ NamedOnce'
  BY <1>2, <1>3, <1>4, <1>5, NewRoot, PageFacts
<1>8. StartOK'
  BY <1>1, <1>2, <1>4, <1>5, PageFacts DEF StartOK
<1>9. RequestOK'
  BY <1>4 DEF RequestOK
<1> QED BY <1>6, <1>7, <1>8, <1>9 DEF IInv

\* The new table is empty, and the entry that was empty leads to it.
LEMMA MakeTableFacts ==
  ASSUME IInv, MakeTable, NEW p, p = Min(FreePages), NEW i, i = PX(level, call.a)
  PROVE  /\ p \in Heap /\ owner[p] = "free" /\ p \in Pages
         /\ pagetable \in Pages /\ IsTable(pagetable) /\ i \in Entries
         /\ ~IsTable(p) /\ p # StaticRoot /\ p # None /\ p # pagetable
         /\ PTE(p, {}) \in Pte /\ PTE(p, {}).valid /\ PTE(p, {}).perm = {} /\ PTE(p, {}).page = p
         /\ ~mem[pagetable][i].valid
         /\ mem' \in [Pages -> [Entries -> Pte]]
         /\ \A q \in Pages, x \in Entries :
              mem'[q][x] = IF q = pagetable /\ x = i THEN PTE(p, {})
                           ELSE IF q = p THEN Null ELSE mem[q][x]
<1>2. /\ mem \in [Pages -> [Entries -> Pte]] /\ level \in Levels
  BY DEF IInv, TypeOK, Pages
<1>3. p \in Heap /\ owner[p] = "free" /\ p \in Pages
  <2>1. p \in FreePages
    BY MinIsIn DEF MakeTable, FreePages
  <2> QED BY <2>1 DEF FreePages, Pages
<1>4. /\ pc = "walk" /\ ~mem[pagetable][i].valid
      /\ mem' = [mem EXCEPT ![p] = Cleared, ![pagetable][i] = PTE(p, {})]
  BY DEF MakeTable, Entry
<1>5. pagetable \in Pages /\ IsTable(pagetable) /\ i \in Entries
  BY <1>2, <1>4, EntryFacts
<1>6. ~IsTable(p) /\ p # StaticRoot /\ p # None /\ p # pagetable
  BY <1>3, <1>5, PageFacts DEF IsTable
<1>7. PTE(p, {}) \in Pte /\ PTE(p, {}).valid /\ PTE(p, {}).perm = {} /\ PTE(p, {}).page = p
  BY <1>3, PageFacts DEF PTE, Pte
<1>8. /\ mem' \in [Pages -> [Entries -> Pte]]
      /\ \A q \in Pages, x \in Entries :
           mem'[q][x] = IF q = pagetable /\ x = i THEN PTE(p, {})
                        ELSE IF q = p THEN Null ELSE mem[q][x]
  <2> DEFINE m == [mem EXCEPT ![p] = Cleared]
  <2>1. m \in [Pages -> [Entries -> Pte]] /\ \A q \in Pages : m[q] = IF q = p THEN Cleared ELSE mem[q]
    BY <1>2, <1>3, ClearedFacts
  <2>2. mem' = [m EXCEPT ![pagetable] = [m[pagetable] EXCEPT ![i] = PTE(p, {})]]
    BY <1>4
  <2> HIDE DEF m
  <2>3. [m[pagetable] EXCEPT ![i] = PTE(p, {})] \in [Entries -> Pte]
    BY <1>5, <1>7, <2>1
  <2>4. mem' \in [Pages -> [Entries -> Pte]]
    BY <1>5, <2>1, <2>2, <2>3
  <2>5. \A q \in Pages, x \in Entries :
          mem'[q][x] = IF q = pagetable /\ x = i THEN PTE(p, {}) ELSE m[q][x]
    BY <1>5, <2>1, <2>2
  <2> QED BY <1>6, <2>1, <2>4, <2>5, ClearedFacts
<1> QED BY <1>3, <1>4, <1>5, <1>6, <1>7, <1>8

\* walk() links a new table to an entry that was empty.
LEMMA MakeTableStep ==
  ASSUME IInv, MakeTable
  PROVE  IInv'
<1>1. TypeOK /\ TreeOK /\ NamedOnce /\ StartOK /\ RequestOK
  BY DEF IInv
<1>2. /\ root \in [Spaces -> Pages \cup {None}]
      /\ owner \in [Heap -> {"free", "table", "other"}] /\ level \in Levels
  BY <1>1 DEF TypeOK, Pages
<1> DEFINE p == Min(FreePages)
           i == PX(level, call.a)
<1>4. /\ pc = "walk" /\ level > 0
      /\ owner' = [owner EXCEPT ![p] = "table"]
      /\ pagetable' = p /\ level' = level - 1
      /\ UNCHANGED <<day, root, todo, call, pc, left, missed>>
  BY DEF MakeTable
<1> HIDE DEF p, i
<1>20. p = Min(FreePages) /\ i = PX(level, call.a)
  BY DEF p, i
<1>3. /\ p \in Heap /\ owner[p] = "free" /\ p \in Pages
      /\ ~mem[pagetable][i].valid
  BY <1>20, MakeTableFacts
<1>5. pagetable \in Pages /\ IsTable(pagetable) /\ i \in Entries
  BY <1>20, MakeTableFacts
<1>6. ~IsTable(p) /\ p # StaticRoot /\ p # None /\ p # pagetable
  BY <1>20, MakeTableFacts
<1>7. PTE(p, {}) \in Pte /\ PTE(p, {}).valid /\ PTE(p, {}).perm = {} /\ PTE(p, {}).page = p
  BY <1>20, MakeTableFacts
<1>8. /\ mem' \in [Pages -> [Entries -> Pte]]
      /\ \A q \in Pages, x \in Entries :
           mem'[q][x] = IF q = pagetable /\ x = i THEN PTE(p, {})
                        ELSE IF q = p THEN Null ELSE mem[q][x]
  BY <1>20, MakeTableFacts
<1>9. PICK lv \in [Pages -> Levels] : LevelsOK(lv)
  BY <1>1 DEF TreeOK
\* Nothing leads to the page yet, and it leads nowhere.
<1>10. /\ \A t \in Spaces : root[t] # p
       /\ \A q \in Pages, x \in Entries : ~Names(q, x, p)
       /\ \A x \in Entries : ~mem[p][x].valid
  BY <1>2, <1>3, <1>6, <1>9 DEF LevelsOK, Names
<1>11. lv[pagetable] = level
  BY <1>4, <1>9 DEF LevelsOK
<1>12. ~Null.valid
  BY DEF Null
<1> DEFINE Tab(q) == q = StaticRoot \/ (q \in Heap /\ owner'[q] = "table")
<1>13. \A q \in Pages : Tab(q) <=> IsTable(q) \/ q = p
  BY <1>2, <1>3, <1>4, PageFacts DEF IsTable, Pages
<1> HIDE DEF Tab
<1>14. TypeOK'
  <2>1. owner' \in [Heap -> {"free", "table", "other"}]
    BY <1>2, <1>3, <1>4
  <2>2. IsTable(pagetable)'
    BY <1>2, <1>3, <1>4 DEF IsTable
  <2>3. level' \in Levels
    BY <1>2, <1>4 DEF Levels
  <2> QED BY <1>1, <1>4, <1>8, <2>1, <2>2, <2>3 DEF TypeOK, Pages
<1>15. TreeOK'
  <2>1. level - 1 \in Levels
    BY <1>2, <1>4 DEF Levels
  <2>2. PICK w \in [Pages -> Levels] : \A q \in Pages : w[q] = IF q = p THEN level - 1 ELSE lv[q]
    <3> DEFINE v == [q \in Pages |-> IF q = p THEN level - 1 ELSE lv[q]]
    <3>1. v \in [Pages -> Levels] /\ \A q \in Pages : v[q] = IF q = p THEN level - 1 ELSE lv[q]
      BY <2>1
    <3> QED BY <3>1
  <2>3. ASSUME NEW t \in Spaces, root'[t] # None
        PROVE  Tab(root'[t]) /\ w[root'[t]] = 2
    <3>1. root'[t] = root[t] /\ root[t] \in Pages /\ IsTable(root[t]) /\ lv[root[t]] = 2
      BY <1>2, <1>4, <1>9, <2>3 DEF LevelsOK
    <3> QED BY <1>6, <1>13, <2>2, <3>1
  <2>4. ASSUME NEW q \in Pages, NEW x \in Entries, mem'[q][x].valid
        PROVE  /\ Tab(q)
               /\ mem'[q][x].perm = {} <=> w[q] > 0
               /\ mem'[q][x].perm = {} =>
                    /\ mem'[q][x].page \in Heap /\ Tab(mem'[q][x].page)
                    /\ w[mem'[q][x].page] = w[q] - 1
    <3>1. CASE q = pagetable /\ x = i
      <4>1. mem'[q][x] = PTE(p, {})
        BY <1>8, <3>1
      <4>2. Tab(q) /\ w[q] = level /\ Tab(p) /\ w[p] = level - 1
        BY <1>3, <1>5, <1>6, <1>11, <1>13, <2>2, <3>1
      <4> QED BY <1>3, <1>4, <1>7, <4>1, <4>2
    <3>2. CASE ~(q = pagetable /\ x = i)
      <4>1. mem'[q][x] = mem[q][x] /\ mem[q][x].valid /\ q # p
        BY <1>8, <1>12, <2>4, <3>2
      <4>2. mem[q][x].perm = {} => mem[q][x].page # p
        BY <1>10, <4>1 DEF Names
      <4>3. /\ IsTable(q)
            /\ mem[q][x].perm = {} <=> lv[q] > 0
            /\ mem[q][x].perm = {} =>
                 /\ mem[q][x].page \in Heap /\ mem[q][x].page \in Pages /\ IsTable(mem[q][x].page)
                 /\ lv[mem[q][x].page] = lv[q] - 1
        BY <1>9, <4>1 DEF LevelsOK, Pages
      <4> QED BY <1>13, <2>2, <4>1, <4>2, <4>3
    <3> QED BY <3>1, <3>2
  <2>5. Tab(pagetable') /\ w[pagetable'] = level'
    BY <1>3, <1>4, <1>13, <2>2
  <2>6. LevelsOK(w)'
    BY <2>3, <2>4, <2>5 DEF LevelsOK, IsTable, Tab
  <2> QED BY <2>6 DEF TreeOK, LevelsOK
\* The new entry leads to the new page, and the others lead where they did.
<1>16. \A q \in Pages, x \in Entries, r \in Nat \cup {None} :
         Names(q, x, r)' <=> \/ q = pagetable /\ x = i /\ r = p
                             \/ Names(q, x, r)
  <2>1. ASSUME NEW q \in Pages, NEW x \in Entries, NEW r \in Nat \cup {None}
        PROVE  Names(q, x, r)' <=> \/ q = pagetable /\ x = i /\ r = p
                                   \/ Names(q, x, r)
    <3>1. CASE q = pagetable /\ x = i
      <4>1. mem'[q][x] = PTE(p, {}) /\ ~mem[q][x].valid
        BY <1>3, <1>8, <3>1
      <4> QED BY <1>7, <3>1, <4>1 DEF Names
    <3>2. CASE ~(q = pagetable /\ x = i)
      <4>1. mem'[q][x] = mem[q][x] \/ (~mem'[q][x].valid /\ ~mem[q][x].valid)
        BY <1>8, <1>10, <1>12, <3>2
      <4> QED BY <3>2, <4>1 DEF Names
    <3> QED BY <3>1, <3>2
  <2> QED BY <2>1
<1>17. NamedOnce'
  <2>1. ASSUME NEW q \in Pages, NEW r \in Pages, NEW x \in Entries, NEW y \in Entries, NEW h \in Heap,
               Names(q, x, h)', Names(r, y, h)'
        PROVE  q = r /\ x = y
    <3>1. h \in Nat
      BY PageFacts
    <3>2. CASE h = p
      BY <1>10, <1>16, <2>1, <3>1, <3>2
    <3>3. CASE h # p
      <4>1. Names(q, x, h) /\ Names(r, y, h)
        BY <1>16, <2>1, <3>1, <3>3
      <4> QED BY <1>1, <4>1 DEF NamedOnce
    <3> QED BY <3>2, <3>3
  <2>2. ASSUME NEW q \in Pages, NEW x \in Entries, NEW t \in Spaces
        PROVE  ~Names(q, x, root[t])'
    <3>1. root[t] \in Nat \cup {None} /\ root'[t] = root[t] /\ root[t] # p
      BY <1>2, <1>4, <1>10, PageFacts
    <3>2. ~Names(q, x, root[t])
      BY <1>1 DEF NamedOnce
    <3>3. \A r \in Nat \cup {None} : r = root[t] => ~(mem'[q][x].valid /\ mem'[q][x].perm = {} /\ mem'[q][x].page = r)
      BY <1>16, <3>1, <3>2 DEF Names
    <3> QED BY <3>1, <3>3 DEF Names
  <2>3. \A t, u \in Spaces : root'[t] = root'[u] /\ root'[t] # None => t = u
    BY <1>1, <1>4 DEF NamedOnce
  <2>4. ASSUME NEW h \in Heap, Tab(h)
        PROVE  IsRoot(h)' \/ \E q \in Pages, x \in Entries : Names(q, x, h)'
    <3>1. h \in Nat /\ h \in Pages
      BY PageFacts DEF Pages
    <3>2. CASE h = p
      BY <1>5, <1>16, <3>1, <3>2
    <3>3. CASE h # p
      <4>1. IsTable(h)
        BY <1>13, <2>4, <3>1, <3>3
      <4>2. IsRoot(h) \/ \E q \in Pages, x \in Entries : Names(q, x, h)
        BY <1>1, <4>1 DEF NamedOnce
      <4>3. IsRoot(h) => IsRoot(h)'
        BY <1>4 DEF IsRoot
      <4> QED BY <1>16, <3>1, <4>2, <4>3
    <3> QED BY <3>2, <3>3
  <2> QED BY <2>1, <2>2, <2>3, <2>4 DEF NamedOnce, IsTable, Tab
<1>18. StartOK'
  BY <1>1, <1>4 DEF StartOK
<1>19. RequestOK'
  BY <1>1, <1>4 DEF RequestOK, CallOK
<1> QED BY <1>14, <1>15, <1>17, <1>18, <1>19 DEF IInv

\* The entry that map_page() writes.
LEMMA EnterFacts ==
  ASSUME IInv, Enter
  PROVE  LET i == PX(0, call.a)
             e == PTE(FrameOf(call), call.perm)
         IN  /\ pagetable \in Pages /\ i \in Entries /\ IsTable(pagetable)
             /\ ~mem[pagetable][i].valid
             /\ e \in Pte /\ e.valid /\ e.perm # {}
             /\ e.page = FrameOf(call) /\ e.perm = call.perm
             /\ mem' \in [Pages -> [Entries -> Pte]]
             /\ \A q \in Pages, x \in Entries :
                  mem'[q][x] = IF q = pagetable /\ x = i THEN e ELSE mem[q][x]
<1> DEFINE i == PX(0, call.a)
           e == PTE(FrameOf(call), call.perm)
<1>1. /\ mem \in [Pages -> [Entries -> Pte]] /\ CallOK(call)
      /\ pc = "walk" /\ level = 0 /\ 0 \in Levels
  BY DEF IInv, TypeOK, RequestOK, Pages, Enter, Levels
<1>2. pagetable \in Pages /\ i \in Entries /\ IsTable(pagetable)
  BY <1>1, EntryFacts
<1>3. ~mem[pagetable][i].valid
  BY <1>1 DEF Enter, Entry
<1>4. /\ call.frame \in Nat /\ call.a \in Nat /\ call.va \in Nat
      /\ call.perm \in SUBSET {"R", "W", "X"} /\ call.perm # {}
      /\ call.a >= PGROUNDDOWN(call.va)
  BY <1>1 DEF CallOK, Calls
<1>5. FrameOf(call) \in Nat
  <2>1. PGROUNDDOWN(call.va) \in Nat
    BY <1>4, PageSizeAssumption DEF PGROUNDDOWN
  <2>2. call.a - PGROUNDDOWN(call.va) \in Nat
    BY <1>4, <2>1
  <2> QED BY <1>4, <2>2 DEF FrameOf
<1>6. e \in Pte /\ e.valid /\ e.perm # {} /\ e.page = FrameOf(call) /\ e.perm = call.perm
  BY <1>4, <1>5 DEF PTE, Pte
<1>7. mem' = [mem EXCEPT ![pagetable] = [mem[pagetable] EXCEPT ![i] = e]]
  BY DEF Enter
<1> HIDE DEF i, e
<1>8. [mem[pagetable] EXCEPT ![i] = e] \in [Entries -> Pte]
  BY <1>1, <1>2, <1>6
<1>9. mem' \in [Pages -> [Entries -> Pte]]
  BY <1>1, <1>2, <1>7, <1>8
<1>10. \A q \in Pages, x \in Entries : mem'[q][x] = IF q = pagetable /\ x = i THEN e ELSE mem[q][x]
  BY <1>1, <1>2, <1>7
<1> QED BY <1>2, <1>3, <1>6, <1>9, <1>10 DEF i, e

\* map_page() enters a page in a table of the lowest level.
LEMMA EnterStep ==
  ASSUME IInv, Enter
  PROVE  IInv'
<1> DEFINE i == PX(0, call.a)
           e == PTE(FrameOf(call), call.perm)
<1>1. TypeOK /\ TreeOK /\ NamedOnce /\ StartOK /\ RequestOK
  BY DEF IInv
<1>2. /\ pagetable \in Pages /\ i \in Entries /\ IsTable(pagetable)
      /\ ~mem[pagetable][i].valid
      /\ e \in Pte /\ e.valid /\ e.perm # {}
      /\ mem' \in [Pages -> [Entries -> Pte]]
      /\ \A q \in Pages, x \in Entries :
           mem'[q][x] = IF q = pagetable /\ x = i THEN e ELSE mem[q][x]
  BY EnterFacts
<1> HIDE DEF i, e
<1>3. /\ pc = "walk" /\ level = 0 /\ NextPage
      /\ UNCHANGED <<day, owner, root, todo, level, pagetable, left, missed>>
      /\ CallOK(call)
  BY <1>1 DEF Enter, RequestOK
<1>4. CallOK(call)' /\ pc' = "page"
  BY <1>3, NextPageCalls
<1>5. TypeOK'
  <2>1. call' # NoCall
    BY <1>4, CallsAreCalls DEF CallOK
  <2> QED BY <1>1, <1>2, <1>3, <1>4, <2>1 DEF TypeOK, Pages
<1>6. TreeOK'
  <2>1. PICK lv \in [Pages -> Levels] : LevelsOK(lv)
    BY <1>1 DEF TreeOK
  <2>2. lv[pagetable] = 0
    BY <1>3, <2>1 DEF LevelsOK
  <2>3. \A s \in Spaces : root[s] # None => IsTable(root[s]) /\ lv[root[s]] = 2
    BY <2>1 DEF LevelsOK
  <2>4. ASSUME NEW q \in Pages, NEW x \in Entries, mem'[q][x].valid
        PROVE  /\ IsTable(q)
               /\ mem'[q][x].perm = {} <=> lv[q] > 0
               /\ mem'[q][x].perm = {} =>
                    /\ mem'[q][x].page \in Heap /\ IsTable(mem'[q][x].page)
                    /\ lv[mem'[q][x].page] = lv[q] - 1
    <3>1. CASE q = pagetable /\ x = i
      BY <1>2, <2>2, <3>1
    <3>2. CASE ~(q = pagetable /\ x = i)
      <4>1. mem'[q][x] = mem[q][x]
        BY <1>2, <3>2
      <4> QED BY <2>1, <2>4, <4>1 DEF LevelsOK
    <3> QED BY <3>1, <3>2
  <2>5. LevelsOK(lv)'
    BY <1>3, <1>4, <2>3, <2>4 DEF LevelsOK, IsTable
  <2> QED BY <2>5 DEF TreeOK, LevelsOK
<1>7. NamedOnce'
  <2>1. \A q \in Pages, x \in Entries : \A r : Names(q, x, r)' <=> Names(q, x, r)
    BY <1>2 DEF Names
  <2>2. \A q \in Pages, x \in Entries :
          /\ mem'[q][x].valid /\ mem'[q][x].perm = {} => mem'[q][x] = mem[q][x]
          /\ mem[q][x].valid /\ mem[q][x].perm = {} => mem'[q][x] = mem[q][x]
    BY <1>2
  <2>3. \A q \in Pages, x \in Entries, s \in Spaces :
          ~(mem'[q][x].valid /\ mem'[q][x].perm = {} /\ mem'[q][x].page = root'[s])
    BY <1>1, <1>3, <2>2 DEF NamedOnce, Names
  <2>4. \A h \in Heap : IsTable(h)' <=> IsTable(h)
    BY <1>3 DEF IsTable
  <2>5. \A h \in Heap : IsRoot(h)' <=> IsRoot(h)
    BY <1>3 DEF IsRoot
  <2>6. \A q, r \in Pages : \A x, y \in Entries : \A h \in Heap :
          Names(q, x, h)' /\ Names(r, y, h)' => q = r /\ x = y
    BY <1>1, <2>1 DEF NamedOnce
  <2>7. \A s, t \in Spaces : root'[s] = root'[t] /\ root'[s] # None => s = t
    BY <1>1, <1>3 DEF NamedOnce
  <2>8. \A h \in Heap : IsTable(h)' => IsRoot(h)' \/ \E q \in Pages, x \in Entries : Names(q, x, h)'
    BY <1>1, <2>1, <2>4, <2>5 DEF NamedOnce
  <2> QED BY <2>3, <2>6, <2>7, <2>8 DEF NamedOnce, Names
<1>8. StartOK'
  BY <1>1, <1>3, <1>4 DEF StartOK
<1>9. RequestOK'
  BY <1>4 DEF RequestOK
<1> QED BY <1>5, <1>6, <1>7, <1>8, <1>9 DEF IInv

-----------------------------------------------------------------------------
\* boot() starts with a heap and no tables.
LEMMA InitOK == Init => IInv
<1> SUFFICES ASSUME Init PROVE IInv
  OBVIOUS
<1>1. /\ \A q \in Pages : mem[q] = Cleared
      /\ mem \in [Pages -> [Entries -> Pte]]
      /\ \A s \in Spaces : root[s] = None
      /\ owner \in [Heap -> {"free", "table", "other"}]
      /\ \A q \in Heap : owner[q] # "table"
  BY ClearedFacts DEF Init, Pages
<1>2. \A q \in Pages, x \in Entries : ~mem[q][x].valid
  BY <1>1, ClearedFacts
<1>3. TypeOK
  BY <1>1, MaxEventsAssumption DEF Init, TypeOK, Pages, Levels
<1>4. TreeOK
  <2>1. PICK lv \in [Pages -> Levels] : TRUE
    <3>1. [q \in Pages |-> 0] \in [Pages -> Levels]
      BY DEF Levels
    <3> QED BY <3>1
  <2>2. LevelsOK(lv)
    BY <1>1, <1>2 DEF LevelsOK, Init
  <2> QED BY <2>2 DEF TreeOK
<1>5. NamedOnce
  <2>1. \A p \in Heap : ~IsTable(p)
    BY <1>1, PageFacts DEF IsTable
  <2> QED BY <1>1, <1>2, <2>1 DEF NamedOnce, Names
<1>6. StartOK
  BY <1>1, <1>2, KernelMapCalls DEF StartOK, Init
<1>7. RequestOK
  BY DEF RequestOK, Init
<1> QED BY <1>3, <1>4, <1>5, <1>6, <1>7 DEF IInv

\* Every step keeps the invariant.
LEMMA NextOK == IInv /\ [Next]_vars => IInv'
<1> SUFFICES ASSUME IInv, [Next]_vars PROVE IInv'
  OBVIOUS
<1>1. CASE UNCHANGED vars
  <2>1. UNCHANGED <<day, mem, owner, root, todo, call, pc, level, pagetable, left, missed>>
    BY <1>1 DEF vars
  <2>2. TypeOK'
    BY <2>1 DEF IInv, TypeOK, IsTable
  <2>3. TreeOK'
    BY <2>1 DEF IInv, TreeOK, LevelsOK, IsTable
  <2>4. NamedOnce'
    BY <2>1 DEF IInv, NamedOnce, Names, IsRoot, IsTable
  <2>5. StartOK'
    BY <2>1 DEF IInv, StartOK
  <2>6. RequestOK'
    BY <2>1 DEF IInv, RequestOK, CallOK
  <2> QED BY <2>2, <2>3, <2>4, <2>5, <2>6 DEF IInv
<1>2. CASE Next
  <2>1. CASE UseStaticRoot
    BY <2>1, UseStaticRootStep
  <2>2. CASE kvm_init
    BY <2>2, KvmInitStep
  <2>3. CASE \E p \in Procs : proc_init(p)
    BY <2>3, ProcInitStep
  <2>4. CASE MapKernel \/ \E p \in Procs : MapProcess(p)
    BY <2>4, BeginStep
  <2>5. CASE Return \/ w_satp
    BY <2>5, EndStep
  <2>6. CASE Refuse \/ NoTable \/ AlreadyMapped
    BY <2>6, PageStep
  <2>7. CASE Walk
    BY <2>7, WalkStep
  <2>8. CASE Descend
    BY <2>8, DescendStep
  <2>9. CASE MakeTable
    BY <2>9, MakeTableStep
  <2>10. CASE Enter
    BY <2>10, EnterStep
  <2>11. CASE Take \/ Give
    BY <2>11, OthersStep
  <2> QED BY <1>2, <2>1, <2>2, <2>3, <2>4, <2>5, <2>6, <2>7, <2>8, <2>9, <2>10, <2>11 DEF Next
<1> QED BY <1>1, <1>2

-----------------------------------------------------------------------------
\* The inductive invariant holds in every reachable state.
THEOREM Invariance == Spec => []IInv
BY InitOK, NextOK, PTL DEF Spec

\* The tables, the calls and the local variables of walk() keep their types:
\* walk() stays in the three levels and always stands on a table.
THEOREM TypeCorrectness == Spec => []TypeOK
<1>1. IInv => TypeOK
  BY DEF IInv
<1> QED BY <1>1, Invariance, PTL

\* A table is the root of one address space or named by one entry of one table, and
\* entries name nothing else, however often malloc() fails in the middle of a walk.
THEOREM TablesOnce == Spec => []EachTableOnce
<1>1. IInv => EachTableOnce
  <2> SUFFICES ASSUME IInv PROVE EachTableOnce
    OBVIOUS
  <2>1. TypeOK /\ TreeOK /\ NamedOnce
    BY DEF IInv
  <2>2. PICK lv \in [Pages -> Levels] : LevelsOK(lv)
    BY <2>1 DEF TreeOK
  <2>3. DOMAIN mem = Pages
    BY <2>1 DEF TypeOK, Pages
  <2>4. \A p : EntriesNaming(p) = {e \in Pages \X Entries : Names(e[1], e[2], p)}
    <3>1. \A q \in Pages, x \in Entries : mem[q][x].valid => IsTable(q)
      BY <2>2 DEF LevelsOK
    <3> QED BY <2>3, <3>1 DEF EntriesNaming, Names
  <2>5. EntriesNaming(StaticRoot) = {}
    <3>1. \A q \in Pages, x \in Entries : ~Names(q, x, StaticRoot)
      BY <2>2, PageFacts DEF LevelsOK, Names
    <3> QED BY <2>4, <3>1
  <2>6. ASSUME NEW p \in Heap
        PROVE  Cardinality(EntriesNaming(p)) + Cardinality(RootsAt(p)) = IF IsTable(p) THEN 1 ELSE 0
    <3>0. Cardinality({}) = 0
      BY FS_EmptySet
    <3>1. p # None
      BY PageFacts DEF Pages
    <3>2. CASE ~IsTable(p)
      <4>1. EntriesNaming(p) = {}
        <5>1. \A q \in Pages, x \in Entries : ~Names(q, x, p)
          BY <2>2, <3>2 DEF LevelsOK, Names
        <5> QED BY <2>4, <5>1
      <4>2. RootsAt(p) = {}
        BY <2>2, <3>1, <3>2 DEF LevelsOK, RootsAt
      <4> QED BY <3>0, <3>2, <4>1, <4>2
    <3>3. CASE IsTable(p) /\ IsRoot(p)
      <4>1. PICK s \in Spaces : root[s] = p
        BY <3>3 DEF IsRoot
      <4>2. RootsAt(p) = {s}
        BY <2>1, <3>1, <4>1 DEF RootsAt, NamedOnce
      <4>3. EntriesNaming(p) = {}
        BY <2>1, <2>4, <4>1 DEF NamedOnce
      <4>4. Cardinality(RootsAt(p)) = 1
        BY <4>2, FS_Singleton
      <4> QED BY <3>0, <3>3, <4>3, <4>4
    <3>4. CASE IsTable(p) /\ ~IsRoot(p)
      <4>1. PICK q \in Pages, x \in Entries : Names(q, x, p)
        BY <2>1, <3>4 DEF NamedOnce
      <4>2. EntriesNaming(p) = {<<q, x>>}
        <5>1. <<q, x>> \in EntriesNaming(p)
          BY <2>4, <4>1
        <5>2. ASSUME NEW e \in EntriesNaming(p) PROVE e = <<q, x>>
          <6>1. e \in Pages \X Entries /\ Names(e[1], e[2], p)
            BY <2>4, <5>2
          <6>2. e[1] = q /\ e[2] = x
            BY <2>1, <4>1, <6>1 DEF NamedOnce
          <6> QED BY <6>1, <6>2
        <5> QED BY <5>1, <5>2
      <4>3. RootsAt(p) = {}
        BY <3>4 DEF IsRoot, RootsAt
      <4>4. Cardinality(EntriesNaming(p)) = 1
        BY <4>2, FS_Singleton
      <4> QED BY <3>0, <3>4, <4>3, <4>4
    <3> QED BY <3>2, <3>3, <3>4
  <2> QED BY <2>5, <2>6 DEF EachTableOnce
<1> QED BY <1>1, Invariance, PTL

-----------------------------------------------------------------------------
(***************************************************************************)
(* The page tables are address spaces as AddressMap has them: what the     *)
(* hardware finds in them changes one page at a time, and as map_pages()   *)
(* was asked.                                                              *)
(***************************************************************************)

\* The entries on the way to page v of space s.
Mid(s, v)  == mem[root[s]][PX(2, v)]
Low(s, v)  == mem[Mid(s, v).page][PX(1, v)]
Leaf(s, v) == mem[Low(s, v).page][PX(0, v)]

\* walk() stands on the way to the page that it looks for.
PathOK ==
  pc = "walk" =>
    /\ level = 2 => pagetable = root[call.space]
    /\ level < 2 => Mid(call.space, call.a).valid
    /\ level = 1 => pagetable = Mid(call.space, call.a).page
    /\ level = 0 => /\ Low(call.space, call.a).valid
                    /\ pagetable = Low(call.space, call.a).page

\* The pages of a call that have had their turn are mapped, or beyond the end, or
\* malloc() failed for them.
Served(s, v) == v >= MAXVA \/ Translate(root[s], v).valid \/ <<s, v>> \in missed

ServedOK ==
  pc \in {"page", "walk"} =>
    \A v \in PGROUNDDOWN(call.va) .. call.a - 1 : Served(call.space, v)

MapInv == IInv /\ PathOK /\ ServedOK

-----------------------------------------------------------------------------
\* Two pages with the same index at each level are the same.
LEMMA IndexesTell ==
  ASSUME NEW v \in 0 .. MAXVA - 1, NEW w \in 0 .. MAXVA - 1,
         PX(2, v) = PX(2, w), PX(1, v) = PX(1, w), PX(0, v) = PX(0, w)
  PROVE  v = w
<1> DEFINE E == PT_ENTRY_COUNT
<1>1. E \in Nat \ {0}
  BY EntriesAssumption
<1>2. E * E \in Nat \ {0} /\ E * (E * E) \in Nat
  BY <1>1
<1>3. MAXVA \in Nat /\ MAXVA <= E * (E * E)
  BY <1>2 DEF MAXVA, Span
<1>4. v \in Nat /\ w \in Nat /\ v < E * (E * E) /\ w < E * (E * E)
  BY <1>2, <1>3
<1> HIDE DEF E
<1>5. ASSUME NEW u \in Nat, u < E * (E * E)
      PROVE  /\ u \div (E * E) \in 0 .. E - 1
             /\ u \div E \in Nat
             /\ u \div E = E * (u \div (E * E)) + ((u \div E) % E)
             /\ u = E * (u \div E) + (u % E)
  <2>1. u \div E \in Nat /\ u = E * (u \div E) + (u % E)
    BY <1>1
  <2>2. u \div (E * E) = (u \div E) \div E
    BY <1>1
  <2>3. u \div E = E * ((u \div E) \div E) + ((u \div E) % E)
    BY <1>1, <2>1
  <2>4. u \div (E * E) < E
    BY <1>1, <1>2, <1>5
  <2>5. u \div (E * E) \in Nat
    BY <1>2
  <2> QED BY <1>1, <2>1, <2>2, <2>3, <2>4, <2>5
<1>6. ASSUME NEW u \in Nat, u < E * (E * E)
      PROVE  PX(2, u) = u \div (E * E) /\ PX(1, u) = (u \div E) % E /\ PX(0, u) = u % E
  <2>1. PX(2, u) = (u \div (E * E)) % E /\ PX(1, u) = (u \div E) % E /\ PX(0, u) = (u \div 1) % E
    BY DEF PX, Span, E
  <2>2. (u \div (E * E)) % E = u \div (E * E)
    <3>1. \A k \in 0 .. E - 1 : k % E = k
      BY <1>1
    <3>2. u \div (E * E) \in 0 .. E - 1
      BY <1>5, <1>6
    <3> QED BY <3>1, <3>2
  <2>3. u \div 1 = u
    OBVIOUS
  <2> QED BY <2>1, <2>2, <2>3
<1>7. v \div (E * E) = w \div (E * E) /\ (v \div E) % E = (w \div E) % E /\ v % E = w % E
  BY <1>4, <1>6
<1>8. v \div E = w \div E
  BY <1>4, <1>5, <1>7
<1> QED BY <1>4, <1>5, <1>7, <1>8

\* Each table on the way has its level.
LEMMA Way ==
  ASSUME IInv, NEW s \in Spaces, root[s] # None, NEW v \in Nat,
         NEW lv \in [Pages -> Levels], LevelsOK(lv)
  PROVE  /\ PX(2, v) \in Entries /\ PX(1, v) \in Entries /\ PX(0, v) \in Entries
         /\ root[s] \in Pages /\ IsTable(root[s]) /\ lv[root[s]] = 2
         /\ Mid(s, v).valid =>
              /\ Mid(s, v).perm = {} /\ Mid(s, v).page \in Heap /\ Mid(s, v).page \in Pages
              /\ IsTable(Mid(s, v).page) /\ lv[Mid(s, v).page] = 1
         /\ Mid(s, v).valid /\ Low(s, v).valid =>
              /\ Low(s, v).perm = {} /\ Low(s, v).page \in Heap /\ Low(s, v).page \in Pages
              /\ IsTable(Low(s, v).page) /\ lv[Low(s, v).page] = 0
<1>1. PX(2, v) \in Entries /\ PX(1, v) \in Entries /\ PX(0, v) \in Entries
  BY IndexInTable DEF Levels
<1>2. root[s] \in Pages
  BY DEF IInv, TypeOK, Pages
<1>3. IsTable(root[s]) /\ lv[root[s]] = 2
  BY DEF LevelsOK
<1>4. Mid(s, v).valid =>
        /\ Mid(s, v).perm = {} /\ Mid(s, v).page \in Heap /\ Mid(s, v).page \in Pages
        /\ IsTable(Mid(s, v).page) /\ lv[Mid(s, v).page] = 1
  BY <1>1, <1>2, <1>3 DEF LevelsOK, Mid, Pages
<1>5. Mid(s, v).valid /\ Low(s, v).valid =>
        /\ Low(s, v).perm = {} /\ Low(s, v).page \in Heap /\ Low(s, v).page \in Pages
        /\ IsTable(Low(s, v).page) /\ lv[Low(s, v).page] = 0
  BY <1>1, <1>4 DEF LevelsOK, Low, Pages
<1> QED BY <1>1, <1>2, <1>3, <1>4, <1>5

\* What the hardware finds.
LEMMA Finds ==
  ASSUME IInv, NEW s \in Spaces, root[s] # None, NEW v \in Nat
  PROVE  Translate(root[s], v) = IF Mid(s, v).valid /\ Low(s, v).valid THEN Leaf(s, v) ELSE Null
<1>1. PICK lv \in [Pages -> Levels] : LevelsOK(lv)
  BY DEF IInv, TreeOK
<1>2. /\ Mid(s, v).valid => Mid(s, v).perm = {}
      /\ Mid(s, v).valid /\ Low(s, v).valid => Low(s, v).perm = {}
  BY <1>1, Way
<1> QED BY <1>2 DEF Translate, Mid, Low, Leaf

\* Two ways that lead to the same table of the lowest level are the same.
LEMMA WaysTell ==
  ASSUME IInv, NEW s \in Spaces, root[s] # None, NEW v \in Nat,
         NEW t \in Spaces, root[t] # None, NEW w \in Nat,
         Mid(s, v).valid, Low(s, v).valid, Mid(t, w).valid, Low(t, w).valid,
         Low(s, v).page = Low(t, w).page
  PROVE  s = t /\ PX(2, v) = PX(2, w) /\ PX(1, v) = PX(1, w)
<1>1. PICK lv \in [Pages -> Levels] : LevelsOK(lv)
  BY DEF IInv, TreeOK
<1> DEFINE p == Low(s, v).page
           q == Mid(s, v).page
           r == Mid(t, w).page
<1>2. /\ p \in Heap /\ q \in Heap /\ r \in Heap /\ q \in Pages /\ r \in Pages
      /\ root[s] \in Pages /\ root[t] \in Pages
      /\ PX(2, v) \in Entries /\ PX(1, v) \in Entries
      /\ PX(2, w) \in Entries /\ PX(1, w) \in Entries
      /\ Names(q, PX(1, v), p) /\ Names(r, PX(1, w), p)
      /\ Names(root[s], PX(2, v), q) /\ Names(root[t], PX(2, w), r)
  BY <1>1, Way DEF Names, Mid, Low
<1>3. NamedOnce
  BY DEF IInv
<1>4. q = r /\ PX(1, v) = PX(1, w)
  BY <1>2, <1>3 DEF NamedOnce
<1>5. root[s] = root[t] /\ PX(2, v) = PX(2, w)
  BY <1>2, <1>3, <1>4 DEF NamedOnce
<1> QED BY <1>3, <1>4, <1>5 DEF NamedOnce

-----------------------------------------------------------------------------
\* What the hardware finds after a step.

\* map_page() enters one page in one space.
LEMMA EnterFinds ==
  ASSUME MapInv, Enter, NEW cs, cs = call.space, NEW ca, ca = call.a,
         NEW s \in Spaces, root[s] # None, NEW v \in 0 .. MAXVA - 1
  PROVE  /\ Translate(root[s], v)' =
              IF s = cs /\ v = ca THEN PTE(FrameOf(call), call.perm) ELSE Translate(root[s], v)
         /\ s = cs /\ v = ca => ~Translate(root[s], v).valid
<1> DEFINE i == PX(0, ca)
           e == PTE(FrameOf(call), call.perm)
<1>1. /\ pagetable \in Pages /\ i \in Entries /\ IsTable(pagetable)
      /\ ~mem[pagetable][i].valid
      /\ e.valid
      /\ \A q \in Pages, x \in Entries :
           mem'[q][x] = IF q = pagetable /\ x = i THEN e ELSE mem[q][x]
  BY EnterFacts DEF MapInv
<1>2. /\ pc = "walk" /\ level = 0 /\ root' = root
  BY DEF Enter
<1>3. /\ cs \in Spaces /\ root[cs] # None /\ ca \in Nat /\ ca \in 0 .. MAXVA - 1
  <2>1. call \in Calls /\ root[call.space] # None /\ call.a < MAXVA
    BY <1>2 DEF MapInv, IInv, RequestOK, CallOK
  <2>2. MAXVA \in Int
    BY EntriesAssumption DEF MAXVA, Span
  <2> QED BY <2>1, <2>2 DEF Calls
<1>4. /\ Mid(cs, ca).valid /\ Low(cs, ca).valid /\ pagetable = Low(cs, ca).page
  BY <1>2 DEF MapInv, PathOK
<1>5. PICK lv \in [Pages -> Levels] : LevelsOK(lv)
  BY DEF MapInv, IInv, TreeOK
<1>6. v \in Nat /\ IInv
  BY DEF MapInv
<1>7. lv[pagetable] = 0
  BY <1>2, <1>5 DEF LevelsOK
<1>8. /\ PX(2, v) \in Entries /\ PX(1, v) \in Entries /\ PX(0, v) \in Entries
      /\ root[s] \in Pages /\ lv[root[s]] = 2
      /\ Mid(s, v).valid => Mid(s, v).perm = {} /\ Mid(s, v).page \in Pages /\ lv[Mid(s, v).page] = 1
      /\ Mid(s, v).valid /\ Low(s, v).valid => Low(s, v).perm = {} /\ Low(s, v).page \in Pages
  BY <1>5, <1>6, Way
<1> HIDE DEF i, e
<1>9. mem'[root'[s]][PX(2, v)] = Mid(s, v)
  BY <1>1, <1>2, <1>7, <1>8 DEF Mid
<1>10. Mid(s, v).valid => mem'[Mid(s, v).page][PX(1, v)] = Low(s, v)
  BY <1>1, <1>7, <1>8 DEF Low
<1>11. Mid(s, v).valid /\ Low(s, v).valid =>
         mem'[Low(s, v).page][PX(0, v)] = IF s = cs /\ v = ca THEN e ELSE Leaf(s, v)
  <2>1. CASE s = cs /\ v = ca
    BY <1>1, <1>4, <2>1 DEF i
  <2>2. CASE ~(s = cs /\ v = ca)
    <3> SUFFICES ASSUME Mid(s, v).valid, Low(s, v).valid
                 PROVE  mem'[Low(s, v).page][PX(0, v)] = Leaf(s, v)
      BY <2>2
    <3>1. ~(Low(s, v).page = pagetable /\ PX(0, v) = i)
      <4> SUFFICES ASSUME Low(s, v).page = pagetable, PX(0, v) = i PROVE FALSE
        OBVIOUS
      <4>1. s = cs /\ PX(2, v) = PX(2, ca) /\ PX(1, v) = PX(1, ca)
        BY <1>3, <1>4, <1>6, WaysTell
      <4>2. v = ca
        BY <1>3, <4>1, IndexesTell DEF i
      <4> QED BY <2>2, <4>1, <4>2
    <3> QED BY <1>1, <1>8, <3>1 DEF Leaf
  <2> QED BY <2>1, <2>2
<1>12. Translate(root[s], v) = IF Mid(s, v).valid /\ Low(s, v).valid THEN Leaf(s, v) ELSE Null
  BY <1>6, Finds
<1>13. Translate(root[s], v)' =
         IF Mid(s, v).valid /\ Low(s, v).valid THEN mem'[Low(s, v).page][PX(0, v)] ELSE Null
  BY <1>8, <1>9, <1>10 DEF Translate
<1>14. s = cs /\ v = ca => Mid(s, v).valid /\ Low(s, v).valid /\ ~Leaf(s, v).valid
  BY <1>1, <1>4 DEF Leaf, i
<1> QED BY <1>11, <1>12, <1>13, <1>14 DEF e

\* A new table on the way of walk() holds no entries, so nothing else is found.
LEMMA MakeTableFinds ==
  ASSUME MapInv, MakeTable, NEW s \in Spaces, root[s] # None, NEW v \in Nat
  PROVE  Translate(root[s], v)' = Translate(root[s], v)
<1>1. PICK p, i : p = Min(FreePages) /\ i = PX(level, call.a)
  OBVIOUS
<1>2. IInv /\ root' = root
  BY DEF MapInv, MakeTable
<1>3. /\ p \in Pages /\ ~IsTable(p) /\ pagetable \in Pages /\ p # pagetable
      /\ PTE(p, {}).valid /\ PTE(p, {}).perm = {} /\ PTE(p, {}).page = p
      /\ ~mem[pagetable][i].valid
      /\ \A q \in Pages, x \in Entries :
           mem'[q][x] = IF q = pagetable /\ x = i THEN PTE(p, {})
                        ELSE IF q = p THEN Null ELSE mem[q][x]
  BY <1>1, <1>2, MakeTableFacts
<1>4. PICK lv \in [Pages -> Levels] : LevelsOK(lv)
  BY <1>2 DEF IInv, TreeOK
<1>5. /\ PX(2, v) \in Entries /\ PX(1, v) \in Entries /\ PX(0, v) \in Entries
      /\ root[s] \in Pages /\ IsTable(root[s])
      /\ Mid(s, v).valid =>
           /\ Mid(s, v).perm = {} /\ Mid(s, v).page \in Pages /\ IsTable(Mid(s, v).page)
      /\ Mid(s, v).valid /\ Low(s, v).valid =>
           /\ Low(s, v).perm = {} /\ Low(s, v).page \in Pages /\ IsTable(Low(s, v).page)
           /\ lv[Low(s, v).page] = 0
  BY <1>2, <1>4, Way
<1>6. lv[pagetable] # 0
  BY <1>4 DEF LevelsOK, MakeTable
<1>7. ~Null.valid
  BY DEF Null
<1>8. Translate(root[s], v) = IF Mid(s, v).valid /\ Low(s, v).valid THEN Leaf(s, v) ELSE Null
  BY <1>2, Finds
<1> DEFINE mid == mem'[root[s]][PX(2, v)]
           low == mem'[mid.page][PX(1, v)]
           leaf == mem'[low.page][PX(0, v)]
<1>9. Translate(root[s], v)' =
        IF mid.valid /\ mid.perm = {} /\ low.valid /\ low.perm = {} THEN leaf ELSE Null
  BY <1>2 DEF Translate
<1>10. CASE root[s] = pagetable /\ PX(2, v) = i
  <2>1. ~Mid(s, v).valid
    BY <1>3, <1>10 DEF Mid
  <2>2. mid.page = p
    BY <1>3, <1>5, <1>10
  <2>3. low = Null
    BY <1>3, <1>5, <2>2
  <2> QED BY <1>7, <1>8, <1>9, <2>1, <2>3
<1>11. CASE ~(root[s] = pagetable /\ PX(2, v) = i)
  <2>1. mid = Mid(s, v)
    BY <1>3, <1>5, <1>11 DEF Mid
  <2> HIDE DEF mid
  <2>2. CASE ~Mid(s, v).valid
    BY <1>8, <1>9, <2>1, <2>2
  <2>3. CASE Mid(s, v).valid /\ Mid(s, v).page = pagetable /\ PX(1, v) = i
    <3>1. ~Low(s, v).valid
      BY <1>3, <2>3 DEF Low
    <3>2. low.page = p
      BY <1>3, <1>5, <2>1, <2>3
    <3>3. leaf = Null
      BY <1>3, <1>5, <3>2
    <3> QED BY <1>8, <1>9, <3>1, <3>3
  <2>4. CASE Mid(s, v).valid /\ ~(Mid(s, v).page = pagetable /\ PX(1, v) = i)
    <3>1. low = Low(s, v)
      BY <1>3, <1>5, <2>1, <2>4 DEF Low
    <3> HIDE DEF low
    <3>2. Low(s, v).valid => leaf = Leaf(s, v)
      BY <1>3, <1>5, <1>6, <2>4, <3>1 DEF Leaf
    <3> HIDE DEF leaf
    <3> QED BY <1>5, <1>8, <1>9, <2>1, <2>4, <3>1, <3>2
  <2> QED BY <2>2, <2>3, <2>4
<1> QED BY <1>10, <1>11

\* Every other step leaves what is found in the spaces that have a root.
LEMMA FoundStays ==
  ASSUME MapInv, [Next]_vars, ~Enter, NEW s \in Spaces, root[s] # None, NEW v \in Nat
  PROVE  root'[s] = root[s] /\ Translate(root[s], v)' = Translate(root[s], v)
<1>1. TypeOK /\ StartOK
  BY DEF MapInv, IInv
<1>2. root \in [Spaces -> Heap \cup {StaticRoot, None}]
  BY <1>1 DEF TypeOK
<1>3. pc # "vm_init"
  BY <1>1 DEF StartOK
<1>4. CASE mem' = mem /\ root'[s] = root[s]
  BY <1>4 DEF Translate
<1>5. CASE MakeTable
  BY <1>5, MakeTableFinds DEF MakeTable
<1>6. CASE \E p \in Procs : proc_init(p)
  <2>1. PICK p \in Procs : proc_init(p)
    BY <1>6
  <2>2. mem' = mem /\ root'[s] = root[s]
    BY <1>2, <2>1 DEF proc_init
  <2> QED BY <1>4, <2>2
<1>7. CASE UNCHANGED vars
  BY <1>4, <1>7 DEF vars
<1>8. CASE \E p \in Procs : MapProcess(p)
  BY <1>4, <1>8 DEF MapProcess
<1>9. CASE MapKernel \/ w_satp \/ Refuse \/ Walk \/ Descend \/ NoTable \/ AlreadyMapped
  BY <1>4, <1>9 DEF MapKernel, w_satp, Refuse, Walk, Descend, NoTable, AlreadyMapped
<1>10. CASE Return \/ Take \/ Give
  BY <1>4, <1>10 DEF Return, Take, Give
<1> QED BY <1>3, <1>5, <1>6, <1>7, <1>8, <1>9, <1>10 DEF Next, UseStaticRoot, kvm_init

\* Nothing is found in a space that has just got its root: a free page holds no
\* valid entry.
LEMMA NewRootFinds ==
  ASSUME MapInv, [Next]_vars, NEW s \in Spaces, root[s] = None, root'[s] # None, NEW v \in Nat
  PROVE  ~Translate(root[s], v)'.valid
<1>1. TypeOK /\ StartOK /\ TreeOK
  BY DEF MapInv, IInv
<1>2. root \in [Spaces -> Heap \cup {StaticRoot, None}] /\ mem \in [Pages -> [Entries -> Pte]]
  BY <1>1 DEF TypeOK, Pages
<1>3. PX(2, v) \in Entries /\ ~Null.valid
  BY IndexInTable DEF Levels, Null
<1>4. \A x \in Entries : ~mem'[root'[s]][x].valid
  <2>1. CASE UseStaticRoot
    <3>1. root'[s] = StaticRoot /\ mem'[StaticRoot] = Cleared
      BY <1>2, <2>1 DEF UseStaticRoot, Pages
    <3> QED BY <3>1, ClearedFacts
  <2>2. CASE kvm_init
    <3>1. FreePages # {}
      BY <2>2 DEF kvm_init
    <3>2. Min(FreePages) \in Pages
      BY <3>1, MinIsIn DEF FreePages, Pages
    <3>3. root'[s] = Min(FreePages) /\ mem'[Min(FreePages)] = Cleared
      BY <1>2, <2>2, <3>1, <3>2 DEF kvm_init
    <3> QED BY <3>3, ClearedFacts
  <2>3. CASE \E p \in Procs : proc_init(p)
    <3>1. PICK p \in Procs : proc_init(p)
      BY <2>3
    <3>2. Min(FreePages) \in Heap /\ owner[Min(FreePages)] = "free"
      BY <3>1, MinIsIn DEF proc_init, FreePages
    <3>3. root'[s] = Min(FreePages) /\ mem' = mem
      BY <1>2, <3>1 DEF proc_init
    <3>4. ~IsTable(Min(FreePages)) /\ Min(FreePages) \in Pages
      BY <3>2, PageFacts DEF IsTable, Pages
    <3>5. PICK lv \in [Pages -> Levels] : LevelsOK(lv)
      BY <1>1 DEF TreeOK
    <3> QED BY <3>3, <3>4, <3>5 DEF LevelsOK
  <2>4. CASE root' = root
    BY <2>4
  <2>5. CASE \E p \in Procs : MapProcess(p)
    BY <2>4, <2>5 DEF MapProcess
  <2>6. CASE UNCHANGED vars
    BY <2>4, <2>6 DEF vars
  <2>7. CASE MapKernel \/ w_satp \/ Refuse \/ Walk \/ Descend \/ NoTable \/ AlreadyMapped
    BY <2>4, <2>7 DEF MapKernel, w_satp, Refuse, Walk, Descend, NoTable, AlreadyMapped
  <2>8. CASE MakeTable \/ Enter \/ Return \/ Take \/ Give
    BY <2>4, <2>8 DEF MakeTable, Enter, Return, Take, Give
  <2> QED BY <2>1, <2>2, <2>3, <2>5, <2>6, <2>7, <2>8 DEF Next
<1>5. ~mem'[root'[s]][PX(2, v)].valid
  BY <1>3, <1>4
<1> QED BY <1>3, <1>5 DEF Translate

-----------------------------------------------------------------------------
\* walk() stays on its way.
LEMMA PathStep ==
  ASSUME MapInv, [Next]_vars
  PROVE  PathOK'
<1>1. IInv /\ TypeOK /\ PathOK /\ RequestOK
  BY DEF MapInv, IInv
<1>2. ASSUME pc' # "walk"
      PROVE  PathOK'
  BY <1>2 DEF PathOK
<1>3. ASSUME UNCHANGED <<mem, root, call, pc, level, pagetable>>
      PROVE  PathOK'
  BY <1>1, <1>3 DEF PathOK, Mid, Low
<1>4. CASE Walk
  BY <1>4 DEF Walk, PathOK
<1>5. CASE Descend
  <2>1. level \in Levels
    BY <1>1 DEF TypeOK
  <2>2. UNCHANGED <<mem, root, call, pc>> /\ pc = "walk"
    BY <1>5 DEF Descend
  <2>3. level = 1 \/ level = 2
    BY <1>5, <2>1 DEF Descend, Levels
  <2>4. CASE level = 2
    <3>1. /\ Entry = Mid(call.space, call.a)
          /\ Entry.valid /\ level' = 1 /\ pagetable' = Entry.page
      BY <1>1, <1>5, <2>2, <2>4 DEF Descend, PathOK, Entry, Mid
    <3> QED BY <2>2, <3>1 DEF PathOK, Mid, Low
  <2>5. CASE level = 1
    <3>1. /\ Entry = Low(call.space, call.a) /\ Mid(call.space, call.a).valid
          /\ Entry.valid /\ level' = 0 /\ pagetable' = Entry.page
      BY <1>1, <1>5, <2>2, <2>5 DEF Descend, PathOK, Entry, Low
    <3> QED BY <2>2, <3>1 DEF PathOK, Mid, Low
  <2> QED BY <2>3, <2>4, <2>5
<1>6. CASE MakeTable
  <2>1. level \in Levels
    BY <1>1 DEF TypeOK
  <2>2. /\ UNCHANGED <<root, call, pc>> /\ pc = "walk" /\ level > 0
        /\ level' = level - 1 /\ pagetable' = Min(FreePages)
    BY <1>6 DEF MakeTable
  <2>3. PICK cs, ca : cs = call.space /\ ca = call.a
    OBVIOUS
  <2>4. cs \in Spaces /\ root[cs] # None /\ ca \in Nat
    BY <1>1, <2>2, <2>3 DEF RequestOK, CallOK, Calls
  <2>5. PICK p, i : p = Min(FreePages) /\ i = PX(level, call.a)
    OBVIOUS
  <2>6. /\ p \in Pages /\ ~IsTable(p) /\ pagetable \in Pages /\ p # pagetable
        /\ PTE(p, {}).valid /\ PTE(p, {}).perm = {} /\ PTE(p, {}).page = p
        /\ i \in Entries
        /\ \A q \in Pages, x \in Entries :
             mem'[q][x] = IF q = pagetable /\ x = i THEN PTE(p, {})
                          ELSE IF q = p THEN Null ELSE mem[q][x]
    BY <1>1, <1>6, <2>5, MakeTableFacts
  <2>7. PICK lv \in [Pages -> Levels] : LevelsOK(lv)
    BY <1>1 DEF IInv, TreeOK
  <2>8. lv[pagetable] = level
    BY <2>2, <2>7 DEF LevelsOK
  <2>9. /\ PX(2, ca) \in Entries /\ PX(1, ca) \in Entries
        /\ root[cs] \in Pages /\ IsTable(root[cs]) /\ lv[root[cs]] = 2
    BY <1>1, <2>4, <2>7, Way
  <2>10. CASE level = 2
    <3>1. pagetable = root[cs] /\ i = PX(2, ca)
      BY <1>1, <2>2, <2>3, <2>5, <2>10 DEF PathOK
    <3>2. mem'[root[cs]][PX(2, ca)] = PTE(p, {})
      BY <2>6, <3>1
    <3>3. level' = 1
      BY <2>2, <2>10
    <3> QED BY <2>2, <2>3, <2>5, <2>6, <3>2, <3>3 DEF PathOK, Mid
  <2>11. CASE level = 1
    <3>1. pagetable = Mid(cs, ca).page /\ Mid(cs, ca).valid /\ i = PX(1, ca)
      BY <1>1, <2>2, <2>3, <2>5, <2>11 DEF PathOK
    <3>2. root[cs] # pagetable /\ root[cs] # p
      BY <2>6, <2>8, <2>9, <2>11
    <3>3. mem'[root[cs]][PX(2, ca)] = Mid(cs, ca)
      BY <2>6, <2>9, <3>2 DEF Mid
    <3>4. mem'[Mid(cs, ca).page][PX(1, ca)] = PTE(p, {})
      BY <2>6, <3>1
    <3>5. level' = 0
      BY <2>2, <2>11
    <3>6. root' = root /\ call' = call
      BY <2>2
    <3>7. Mid(call.space, call.a)' = Mid(cs, ca)
      BY <2>3, <3>3, <3>6 DEF Mid
    <3>8. Low(call.space, call.a)' = PTE(p, {})
      BY <2>3, <3>4, <3>6, <3>7 DEF Low
    <3> QED BY <2>2, <2>5, <2>6, <3>1, <3>5, <3>7, <3>8 DEF PathOK
  <2> QED BY <2>1, <2>2, <2>10, <2>11 DEF Levels
<1>7. CASE \E p \in Procs : proc_init(p) \/ MapProcess(p)
  BY <1>2, <1>7 DEF proc_init, MapProcess
<1>8. CASE UseStaticRoot \/ kvm_init \/ MapKernel \/ w_satp
  BY <1>2, <1>8 DEF UseStaticRoot, kvm_init, MapKernel, w_satp
<1>9. CASE Refuse \/ NoTable \/ Enter \/ AlreadyMapped \/ Return
  BY <1>2, <1>9 DEF Refuse, NoTable, Enter, AlreadyMapped, Return, NextPage
<1>10. CASE UNCHANGED vars \/ Take \/ Give
  BY <1>3, <1>10 DEF vars, Take, Give
<1> QED BY <1>4, <1>5, <1>6, <1>7, <1>8, <1>9, <1>10 DEF Next

\* A page that has had its turn stays served,
LEMMA ServedStays ==
  ASSUME MapInv, [Next]_vars, missed \subseteq missed',
         NEW s \in Spaces, root[s] # None, NEW v \in Nat, Served(s, v)
  PROVE  Served(s, v)'
<1>1. CASE Enter
  <2>1. root' = root /\ MAXVA' = MAXVA
    BY <1>1 DEF Enter, MAXVA, Span
  <2>2. CASE v < MAXVA /\ Translate(root[s], v).valid
    <3>1. v \in 0 .. MAXVA - 1
      BY <2>2, EntriesAssumption DEF MAXVA, Span
    <3>2. PICK cs, ca : cs = call.space /\ ca = call.a
      OBVIOUS
    <3>3. Translate(root[s], v)'.valid
      BY <1>1, <2>2, <3>1, <3>2, EnterFinds
    <3> QED BY <3>3 DEF Served
  <2>3. CASE v >= MAXVA
    BY <2>3 DEF Served
  <2>4. CASE ~(v < MAXVA) /\ ~(v >= MAXVA)
    BY <2>4, EntriesAssumption DEF MAXVA, Span
  <2>5. CASE v < MAXVA /\ ~Translate(root[s], v).valid
    <3>1. ~(v >= MAXVA)
      BY <2>5, EntriesAssumption DEF MAXVA, Span
    <3> QED BY <2>5, <3>1 DEF Served
  <2> QED BY <2>2, <2>3, <2>4, <2>5
<1>2. CASE ~Enter
  <2>1. root'[s] = root[s] /\ Translate(root[s], v)' = Translate(root[s], v)
    BY <1>2, FoundStays
  <2> QED BY <2>1 DEF Served
<1> QED BY <1>1, <1>2

\* and the page whose turn it is becomes served, whichever way it goes.
LEMMA TurnServes ==
  ASSUME MapInv, Refuse \/ NoTable \/ Enter \/ AlreadyMapped, NEW cs, cs = call.space,
         NEW ca, ca = call.a
  PROVE  Served(cs, ca)'
<1>1. IInv /\ TypeOK /\ RequestOK /\ PathOK
  BY DEF MapInv, IInv
<1>2. pc \in {"page", "walk"} /\ root' = root
  BY DEF Refuse, NoTable, Enter, AlreadyMapped
<1>3. cs \in Spaces /\ root[cs] # None /\ ca \in Nat
  BY <1>1, <1>2 DEF RequestOK, CallOK, Calls
<1>4. CASE Refuse
  BY <1>4 DEF Refuse, Served
<1>5. CASE NoTable
  BY <1>5 DEF NoTable, Served
<1>6. CASE Enter
  <2>1. pc = "walk"
    BY <1>6 DEF Enter
  <2>2. ca \in 0 .. MAXVA - 1
    BY <1>1, <1>3, <2>1, EntriesAssumption DEF RequestOK, MAXVA, Span
  <2>3. Translate(root[cs], ca)' = PTE(FrameOf(call), call.perm)
    BY <1>3, <1>6, <2>2, EnterFinds
  <2> QED BY <2>3 DEF PTE, Served
<1>7. CASE AlreadyMapped
  <2>1. pc = "walk" /\ level = 0 /\ Entry.valid /\ mem' = mem
    BY <1>7 DEF AlreadyMapped
  <2>2. Mid(cs, ca).valid /\ Low(cs, ca).valid /\ pagetable = Low(cs, ca).page
    BY <1>1, <2>1 DEF PathOK
  <2>3. Entry = Leaf(cs, ca)
    BY <2>1, <2>2 DEF Entry, Leaf
  <2>4. Translate(root[cs], ca).valid
    BY <1>1, <1>3, <2>1, <2>2, <2>3, Finds
  <2>5. Translate(root[cs], ca)' = Translate(root[cs], ca)
    BY <1>2, <2>1 DEF Translate
  <2> QED BY <2>4, <2>5 DEF Served
<1> QED BY <1>4, <1>5, <1>6, <1>7

\* So all pages of a call that have had their turn are served.
LEMMA ServedStep ==
  ASSUME MapInv, [Next]_vars
  PROVE  ServedOK'
<1>1. IInv /\ TypeOK /\ RequestOK /\ StartOK /\ ServedOK
  BY DEF MapInv, IInv
<1>2. ASSUME pc' \notin {"page", "walk"}
      PROVE  ServedOK'
  BY <1>2 DEF ServedOK
<1>3. ASSUME call'.a = PGROUNDDOWN(call'.va), call' \in Calls
      PROVE  ServedOK'
  <2>1. call'.a \in Nat
    BY <1>3 DEF Calls
  <2>2. PGROUNDDOWN(call'.va) .. call'.a - 1 = {}
    BY <1>3, <2>1
  <2> QED BY <2>2 DEF ServedOK, PGROUNDDOWN
<1>4. ASSUME pc \in {"page", "walk"}, call' = call, missed' = missed
      PROVE  ServedOK'
  <2>1. PICK cs : cs = call.space
    OBVIOUS
  <2>2. cs \in Spaces /\ root[cs] # None /\ call \in Calls
    BY <1>1, <1>4, <2>1 DEF RequestOK, CallOK, Calls
  <2>3. ASSUME NEW v \in PGROUNDDOWN(call.va) .. call.a - 1
        PROVE  Served(cs, v)'
    <3>1. v \in Nat
      BY <2>2, PageSizeAssumption DEF Calls, PGROUNDDOWN
    <3>2. Served(cs, v)
      BY <1>1, <1>4, <2>1 DEF ServedOK
    <3> QED BY <1>4, <2>2, <3>1, <3>2, ServedStays
  <2> QED BY <1>4, <2>1, <2>3 DEF ServedOK, Served, PGROUNDDOWN
<1>5. CASE Refuse \/ NoTable \/ Enter \/ AlreadyMapped
  <2>1. PICK cs, ca : cs = call.space /\ ca = call.a
    OBVIOUS
  <2>2. pc \in {"page", "walk"} /\ NextPage /\ missed \subseteq missed' /\ root' = root
    BY <1>5 DEF Refuse, NoTable, Enter, AlreadyMapped
  <2>3. cs \in Spaces /\ root[cs] # None /\ ca \in Nat /\ call \in Calls /\ call.va \in Nat
    BY <1>1, <2>1, <2>2 DEF RequestOK, CallOK, Calls
  <2>4. call'.space = cs /\ call'.va = call.va /\ call'.a = ca + 1
    BY <2>1, <2>2, <2>3 DEF NextPage, Calls
  <2>5. ASSUME NEW v \in PGROUNDDOWN(call.va) .. ca
        PROVE  Served(cs, v)'
    <3>1. v \in Nat
      BY <2>3, PageSizeAssumption DEF PGROUNDDOWN
    <3>2. CASE v = ca
      BY <1>5, <2>1, <3>2, TurnServes
    <3>3. CASE v # ca
      <4>1. PGROUNDDOWN(call.va) \in Int
        BY <2>3, PageSizeAssumption DEF PGROUNDDOWN
      <4>2. v \in PGROUNDDOWN(call.va) .. ca - 1
        BY <2>3, <3>1, <3>3, <4>1
      <4>3. Served(cs, v)
        BY <1>1, <2>1, <2>2, <4>2 DEF ServedOK
      <4> QED BY <2>2, <2>3, <3>1, <4>3, ServedStays
    <3> QED BY <3>2, <3>3
  <2>6. PGROUNDDOWN(call'.va) .. call'.a - 1 = PGROUNDDOWN(call.va) .. ca
    BY <2>3, <2>4 DEF PGROUNDDOWN
  <2> QED BY <2>4, <2>5, <2>6 DEF ServedOK, Served, PGROUNDDOWN
<1>6. CASE MapKernel
  <2>1. todo # <<>> /\ call' = todo[1] /\ todo \in Seq(Calls)
    BY <1>1, <1>6 DEF MapKernel, StartOK
  <2>2. 1 \in 1 .. Len(todo)
    BY <2>1
  <2> QED BY <1>1, <1>3, <2>1, <2>2 DEF StartOK
<1>7. CASE \E p \in Procs : MapProcess(p)
  <2>1. PICK p \in Procs, r \in Requests : call' = MapPages(p, r.va, r.pa, r.size, r.perm)
    BY <1>7 DEF MapProcess
  <2>2. p \in Spaces /\ r.va \in Nat /\ r.pa \in Nat /\ r.size \in Nat
        /\ r.perm \in SUBSET {"R", "W", "X"} /\ r.perm # {}
    BY RequestsAssumption, PageFacts
  <2>3. call' \in Calls /\ call'.a = PGROUNDDOWN(call'.va)
    BY <2>1, <2>2, MapPagesCalls
  <2> QED BY <1>3, <2>3
<1>8. CASE Walk \/ Descend \/ MakeTable
  BY <1>4, <1>8 DEF Walk, Descend, MakeTable
<1>9. CASE UNCHANGED vars \/ Take \/ Give
  <2>1. pc' = pc /\ call' = call /\ missed' = missed
    BY <1>9 DEF vars, Take, Give
  <2> QED BY <1>2, <1>4, <2>1
<1>10. CASE \E p \in Procs : proc_init(p)
  BY <1>2, <1>10 DEF proc_init
<1>11. CASE UseStaticRoot \/ kvm_init \/ w_satp \/ Return
  BY <1>2, <1>11 DEF UseStaticRoot, kvm_init, w_satp, Return
<1> QED BY <1>5, <1>6, <1>7, <1>8, <1>9, <1>10, <1>11 DEF Next

\* The inductive invariant of the tables and of the calls.
THEOREM MapInvariance == Spec => []MapInv
<1>1. Init => MapInv
  BY InitOK DEF MapInv, Init, PathOK, ServedOK
<1>2. MapInv /\ [Next]_vars => MapInv'
  BY NextOK, PathStep, ServedStep DEF MapInv
<1> QED BY <1>1, <1>2, PTL DEF Spec

\* Later bytes lie in later pages.
LEMMA PagesInOrder ==
  ASSUME NEW b \in Nat, NEW c \in Nat, b <= c
  PROVE  PGROUNDDOWN(b) \in Nat /\ PGROUNDDOWN(b) <= PGROUNDDOWN(c)
BY PageSizeAssumption DEF PGROUNDDOWN

\* When map_pages() returns, every page of the range has had its turn.
LEMMA ReturnServes ==
  ASSUME MapInv, [Next]_vars, call # NoCall, call' = NoCall, NEW v \in PagesOf(call)
  PROVE  v >= MAXVA \/ v \in DOMAIN Mapped(root[call.space]) \/ <<call.space, v>> \in missed
<1>1. IInv /\ TypeOK /\ RequestOK /\ StartOK /\ ServedOK
  BY DEF MapInv, IInv
<1>2. pc \in {"page", "walk"} /\ call \in Calls /\ root[call.space] # None
      /\ call.last = LastPage(call.va, call.size) /\ call.a >= PGROUNDDOWN(call.va)
  BY <1>1 DEF TypeOK, RequestOK, CallOK
<1>3. Return
  <2>1. CASE NextPage
    <3>1. call' \in Calls
      BY <1>2, <2>1 DEF NextPage, Calls
    <3> QED BY <3>1, CallsAreCalls
  <2>2. pc \notin {"vm_init", "kernel", "idle"}
    BY <1>2
  <2>3. call' # call
    OBVIOUS
  <2> QED BY <2>1, <2>2, <2>3 DEF Next, vars, UseStaticRoot, kvm_init, MapKernel, w_satp, proc_init,
                               MapProcess, Refuse, Walk, Descend, MakeTable, NoTable, Enter,
                               AlreadyMapped, Take, Give
<1>4. PICK b \in call.va .. call.va + call.size - 1 : v = PGROUNDDOWN(b)
  BY DEF PagesOf
<1>5. call.va \in Nat /\ call.size \in Nat /\ call.a \in Nat /\ call.last \in Int
      /\ call.space \in Spaces
  BY <1>2 DEF Calls
<1>6. b \in Nat /\ call.va <= b /\ b <= call.va + call.size - 1 /\ call.size # 0
      /\ call.va + call.size - 1 \in Nat
  BY <1>4, <1>5
<1>7. v \in Nat /\ PGROUNDDOWN(call.va) \in Nat /\ PGROUNDDOWN(call.va) <= v /\ v <= call.last
  BY <1>2, <1>4, <1>5, <1>6, PagesInOrder DEF LastPage
<1>8. v \in PGROUNDDOWN(call.va) .. call.a - 1
  BY <1>3, <1>5, <1>7 DEF Return
<1>9. Served(call.space, v)
  BY <1>1, <1>2, <1>8 DEF ServedOK
<1>10. MAXVA \in Nat
  BY EntriesAssumption DEF MAXVA, Span
<1>11. v < MAXVA /\ Translate(root[call.space], v).valid => v \in DOMAIN Mapped(root[call.space])
  <2>1. v < MAXVA => v \in 0 .. MAXVA - 1
    BY <1>7, <1>10
  <2> QED BY <1>2, <2>1 DEF Mapped
<1> QED BY <1>7, <1>9, <1>10, <1>11 DEF Served

\* When map_pages() returns, every page that has a byte in the range is mapped, is
\* beyond MAXVA or met a malloc() that failed.
THEOREM RangesServed == Spec => RangeServed
<1> DEFINE A == call # NoCall /\ call' = NoCall =>
                  \A v \in PagesOf(call) :
                    v >= MAXVA \/ v \in DOMAIN Mapped(root[call.space]) \/ <<call.space, v>> \in missed
<1>1. MapInv /\ [Next]_vars => [A]_vars
  BY ReturnServes
<1> QED BY <1>1, MapInvariance, PTL DEF Spec, RangeServed

-----------------------------------------------------------------------------
\* The address spaces and the request, as AddressMap sees them.
Map == [s \in Spaces |-> Mapped(root[s])]

\* A step in which no page is entered changes no address space.
LEMMA MapStays ==
  ASSUME MapInv, [Next]_vars, ~Enter
  PROVE  Map' = Map
<1> SUFFICES ASSUME NEW s \in Spaces
             PROVE  Mapped(root[s])' = Mapped(root[s])
  BY DEF Map, Spaces, Kernel
<1>1. \A v \in 0 .. MAXVA - 1 : v \in Nat
  BY EntriesAssumption DEF MAXVA, Span
<1>2. CASE root[s] # None
  <2>1. root'[s] = root[s]
    BY <1>2, FoundStays
  <2>2. \A v \in 0 .. MAXVA - 1 : Translate(root[s], v)' = Translate(root[s], v)
    BY <1>1, <1>2, FoundStays
  <2> QED BY <1>2, <2>1, <2>2 DEF Mapped, None, MAXVA, Span
<1>3. CASE root[s] = None /\ root'[s] = None
  BY <1>3 DEF Mapped, None
<1>4. CASE root[s] = None /\ root'[s] # None
  <2>1. \A v \in 0 .. MAXVA - 1 : ~Translate(root[s], v)'.valid
    BY <1>1, <1>4, NewRootFinds
  <2>2. Mapped(root[s])' = [v \in {} |-> [frame |-> 0, perm |-> {}]]
    BY <1>4, <2>1 DEF Mapped, None, MAXVA, Span
  <2>3. Mapped(root[s]) = <<>>
    BY <1>4 DEF Mapped
  <2> QED BY <2>2, <2>3
<1> QED BY <1>2, <1>3, <1>4

\* map_page() extends one address space by one page.
LEMMA MapGrows ==
  ASSUME MapInv, Enter, NEW cs, cs = call.space, NEW ca, ca = call.a
  PROVE  /\ cs \in Spaces /\ ca \notin DOMAIN Map[cs]
         /\ Map' = [Map EXCEPT ![cs] = Abstract!Extend(@, ca, [frame |-> FrameOf(call), perm |-> call.perm])]
<1> DEFINE e == [frame |-> FrameOf(call), perm |-> call.perm]
<1>1. IInv /\ TypeOK /\ RequestOK
  BY DEF MapInv, IInv
<1>2. pc = "walk" /\ root' = root
  BY DEF Enter
<1>3. cs \in Spaces /\ root[cs] # None /\ ca \in Nat
  BY <1>1, <1>2 DEF RequestOK, CallOK, Calls
<1>4. ca \in 0 .. MAXVA - 1
  BY <1>1, <1>2, <1>3, EntriesAssumption DEF RequestOK, MAXVA, Span
<1>5. PTE(FrameOf(call), call.perm).valid /\ PTE(FrameOf(call), call.perm).page = FrameOf(call)
      /\ PTE(FrameOf(call), call.perm).perm = call.perm
  BY DEF PTE
<1>6. ~Translate(root[cs], ca).valid
  BY <1>3, <1>4, EnterFinds
<1>7. ca \notin DOMAIN Map[cs]
  BY <1>3, <1>6 DEF Map, Mapped
<1>8. ASSUME NEW s \in Spaces
      PROVE  Mapped(root[s])' =
               IF s = cs THEN Abstract!Extend(Mapped(root[s]), ca, e) ELSE Mapped(root[s])
  <2>1. CASE root[s] = None
    BY <1>2, <1>3, <2>1 DEF Mapped, None
  <2>2. CASE root[s] # None /\ s # cs
    <3>1. \A v \in 0 .. MAXVA - 1 : Translate(root[s], v)' = Translate(root[s], v)
      BY <2>2, EnterFinds
    <3> QED BY <1>2, <2>2, <3>1 DEF Mapped, None, MAXVA, Span
  <2>3. CASE s = cs
    <3>1. \A v \in 0 .. MAXVA - 1 :
             Translate(root[s], v)' = IF v = ca THEN PTE(FrameOf(call), call.perm) ELSE Translate(root[s], v)
      BY <1>3, <2>3, EnterFinds
    <3> DEFINE D == {w \in 0 .. MAXVA - 1 : Translate(root[s], w).valid}
               F(v) == [frame |-> Translate(root[s], v).page, perm |-> Translate(root[s], v).perm]
    <3>2. Mapped(root[s]) = [v \in D |-> F(v)]
      BY <1>3, <2>3 DEF Mapped
    <3>3. Mapped(root[s])' = [v \in D \cup {ca} |-> IF v = ca THEN e ELSE F(v)]
      <4>1. Mapped(root[s])' =
              [v \in {w \in 0 .. MAXVA - 1 : Translate(root[s], w)'.valid} |->
                 [frame |-> Translate(root[s], v)'.page, perm |-> Translate(root[s], v)'.perm]]
        BY <1>2, <1>3, <2>3 DEF Mapped, None, MAXVA, Span
      <4>2. {w \in 0 .. MAXVA - 1 : Translate(root[s], w)'.valid} = D \cup {ca}
        BY <1>4, <1>5, <3>1
      <4>3. ASSUME NEW v \in D \cup {ca}
            PROVE  [frame |-> Translate(root[s], v)'.page, perm |-> Translate(root[s], v)'.perm]
                     = IF v = ca THEN e ELSE F(v)
        <5>1. v \in 0 .. MAXVA - 1
          BY <1>4
        <5> QED BY <1>5, <3>1, <5>1
      <4> QED BY <4>1, <4>2, <4>3
    <3>4. Abstract!Extend(Mapped(root[s]), ca, e) = [v \in D \cup {ca} |-> IF v = ca THEN e ELSE F(v)]
      <4>1. /\ DOMAIN [v \in D |-> F(v)] = D
            /\ \A v \in D : [w \in D |-> F(w)][v] = F(v)
        OBVIOUS
      <4> HIDE DEF D, F
      <4> QED BY <3>2, <4>1 DEF Abstract!Extend
    <3> QED BY <2>3, <3>3, <3>4
  <2> QED BY <2>1, <2>2, <2>3
<1>9. Map' = [s \in Spaces |-> Mapped(root[s])']
  BY DEF Map, Spaces, Kernel
<1> QED BY <1>3, <1>7, <1>8, <1>9 DEF Map

\* A call is a request, and none is not.
LEMMA CallsAreRequests ==
  ASSUME NEW c \in Calls
  PROVE  /\ ReqOf(c) # NoCall /\ ReqOf(NoCall) = NoCall
         /\ ReqOf(c) = [space |-> c.space, first |-> PGROUNDDOWN(c.va), next |-> c.a,
                        last |-> LastPage(c.va, c.size), frame |-> c.frame, perm |-> c.perm]
<1>1. c # NoCall
  BY CallsAreCalls
<1>2. ReqOf(c) = [space |-> c.space, first |-> PGROUNDDOWN(c.va), next |-> c.a,
                  last |-> LastPage(c.va, c.size), frame |-> c.frame, perm |-> c.perm]
  BY <1>1 DEF ReqOf
<1>3. ReqOf(c) # NoCall
  BY <1>2 DEF NoCall
<1> QED BY <1>2, <1>3 DEF ReqOf

\* Each step takes a page from the request as AddressMap does, or changes nothing.
LEMMA StepsAreMaps ==
  ASSUME MapInv, MapInv', [Next]_vars
  PROVE  [Abstract!Next]_<<Map, ReqOf(call)>>
<1>1. /\ IInv /\ TypeOK /\ RequestOK /\ StartOK /\ TypeOK' /\ RequestOK'
  BY DEF MapInv, IInv
<1>2. ~Enter => Map' = Map
  BY MapStays
<1>3. ASSUME ~Enter, call' = call
      PROVE  UNCHANGED <<Map, ReqOf(call)>>
  BY <1>2, <1>3 DEF ReqOf, NoCall, PGROUNDDOWN, LastPage
<1>4. CASE Refuse \/ NoTable \/ AlreadyMapped \/ Enter
  <2>1. /\ pc \in {"page", "walk"} /\ NextPage /\ call.a <= call.last
    BY <1>1, <1>4 DEF Refuse, NoTable, AlreadyMapped, Enter, RequestOK
  <2>2. call \in Calls /\ call.last = LastPage(call.va, call.size)
    BY <1>1, <2>1 DEF RequestOK, CallOK
  <2>3. /\ call' \in Calls
        /\ call'.space = call.space /\ call'.va = call.va /\ call'.size = call.size
        /\ call'.frame = call.frame /\ call'.perm = call.perm /\ call'.a = call.a + 1
    BY <2>1, <2>2 DEF NextPage, Calls
  <2>4. PICK cs, ca, r, rr : cs = call.space /\ ca = call.a /\ r = ReqOf(call) /\ rr = ReqOf(call')
    OBVIOUS
  <2>5. r = [space |-> cs, first |-> PGROUNDDOWN(call.va), next |-> ca,
             last |-> LastPage(call.va, call.size), frame |-> call.frame, perm |-> call.perm]
        /\ r # NoCall
    BY <2>2, <2>4, CallsAreRequests
  <2>6. rr = [space |-> cs, first |-> PGROUNDDOWN(call.va), next |-> ca + 1,
              last |-> LastPage(call.va, call.size), frame |-> call.frame, perm |-> call.perm]
    BY <2>3, <2>4, CallsAreRequests
  <2>7. rr = [r EXCEPT !.next = @ + 1]
    BY <2>5, <2>6
  <2>8. ReqOf(call)' = rr
    BY <2>4 DEF ReqOf, NoCall, PGROUNDDOWN, LastPage
  <2>9. r.next = ca /\ r.space = cs /\ r.perm = call.perm /\ r.next <= r.last
        /\ FrameOf(call) = r.frame + (r.next - r.first)
    BY <2>1, <2>2, <2>4, <2>5 DEF FrameOf
  <2>10. Abstract!Turn
    BY <2>4, <2>7, <2>8 DEF Abstract!Turn
  <2>11. CASE Enter
    <3>1. /\ ca \notin DOMAIN Map[cs]
          /\ Map' = [Map EXCEPT ![cs] = Abstract!Extend(@, ca, [frame |-> FrameOf(call), perm |-> call.perm])]
      BY <2>4, <2>11, MapGrows
    <3>2. Abstract!MapPage
      BY <2>4, <2>9, <2>10, <3>1 DEF Abstract!MapPage, Map
    <3> QED BY <2>4, <2>5, <3>2 DEF Abstract!Next
  <2>12. CASE ~Enter
    <3>1. Abstract!PassOver
      BY <1>2, <2>4, <2>9, <2>10, <2>12 DEF Abstract!PassOver, Map
    <3> QED BY <2>4, <2>5, <3>1 DEF Abstract!Next
  <2> QED BY <2>11, <2>12
<1>5. CASE MapKernel \/ \E p \in Procs : MapProcess(p)
  <2>1. pc \in {"kernel", "idle"} /\ pc' = "page" /\ ~Enter
    BY <1>5 DEF MapKernel, MapProcess, Enter
  <2>2. call = NoCall /\ call' \in Calls
    BY <1>1, <2>1 DEF TypeOK, RequestOK, CallOK
  <2>3. call'.a = PGROUNDDOWN(call'.va)
    <3>1. CASE MapKernel
      <4>1. todo # <<>> /\ call' = todo[1] /\ todo \in Seq(Calls)
        BY <1>1, <3>1 DEF MapKernel, StartOK
      <4>2. 1 \in 1 .. Len(todo)
        BY <4>1
      <4> QED BY <1>1, <4>1, <4>2 DEF StartOK
    <3>2. CASE \E p \in Procs : MapProcess(p)
      <4>1. PICK p \in Procs, r \in Requests : call' = MapPages(p, r.va, r.pa, r.size, r.perm)
        BY <3>2 DEF MapProcess
      <4>2. p \in Spaces /\ r.va \in Nat /\ r.pa \in Nat /\ r.size \in Nat
            /\ r.perm \in SUBSET {"R", "W", "X"} /\ r.perm # {}
        BY RequestsAssumption, PageFacts
      <4> QED BY <4>1, <4>2, MapPagesCalls
    <3> QED BY <1>5, <3>1, <3>2
  <2>4. ReqOf(call) = NoCall
    BY <2>2 DEF ReqOf
  <2>5. PICK c : c = call'
    OBVIOUS
  <2>6. ReqOf(call)' = ReqOf(c)
    BY <2>5 DEF ReqOf, NoCall, PGROUNDDOWN, LastPage
  <2>7. ReqOf(c) # NoCall /\ ReqOf(c).next = ReqOf(c).first
    BY <2>2, <2>3, <2>5, CallsAreRequests
  <2>8. Abstract!Ask
    BY <1>2, <2>1, <2>4, <2>6, <2>7 DEF Abstract!Ask, Map
  <2> QED BY <2>8 DEF Abstract!Next
<1>6. CASE Return
  <2>1. pc = "page" /\ call.a > call.last /\ call' = NoCall /\ ~Enter
    BY <1>6 DEF Return, Enter
  <2>2. call \in Calls /\ call.last = LastPage(call.va, call.size)
    BY <1>1, <2>1 DEF RequestOK, CallOK
  <2>3. ReqOf(call) # NoCall /\ ReqOf(call).next > ReqOf(call).last
    BY <2>1, <2>2, CallsAreRequests
  <2>4. ReqOf(call)' = NoCall
    BY <2>1 DEF ReqOf, NoCall
  <2>5. Abstract!Finish
    BY <1>2, <2>1, <2>3, <2>4 DEF Abstract!Finish, Map
  <2> QED BY <2>3, <2>5 DEF Abstract!Next
<1>7. CASE UseStaticRoot \/ kvm_init \/ w_satp \/ \E p \in Procs : proc_init(p)
  <2>1. pc # "walk" /\ call' = call
    BY <1>7 DEF UseStaticRoot, kvm_init, w_satp, proc_init
  <2> QED BY <1>3, <2>1 DEF Enter
<1>8. CASE Walk \/ Descend \/ MakeTable \/ Take \/ Give \/ UNCHANGED vars
  <2>1. call' = call
    BY <1>8 DEF Walk, Descend, MakeTable, Take, Give, vars
  <2> QED BY <1>3, <1>4, <2>1
<1> QED BY <1>4, <1>5, <1>6, <1>7, <1>8 DEF Next

\* The page tables are address spaces: each step maps one page as it was asked for in
\* one space, or changes nothing that the hardware finds.
THEOREM TablesAreMaps == Spec => ImplementsAddressMap
<1>1. Init => Abstract!Init
  <2> SUFFICES ASSUME Init PROVE Abstract!Init
    OBVIOUS
  <2>1. \A s \in Spaces : Mapped(root[s]) = <<>>
    BY DEF Init, Mapped
  <2>2. ReqOf(call) = NoCall
    BY DEF Init, ReqOf
  <2> QED BY <2>1, <2>2 DEF Abstract!Init
<1>2. MapInv /\ MapInv' /\ [Next]_vars => [Abstract!Next]_<<[s \in Spaces |-> Mapped(root[s])], ReqOf(call)>>
  BY StepsAreMaps DEF Map
<1> QED BY <1>1, <1>2, MapInvariance, PTL DEF Spec, ImplementsAddressMap, Abstract!Spec
=============================================================================
