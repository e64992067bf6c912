--------------------------- MODULE PageHeapProofs ---------------------------
(***************************************************************************)
(* Proofs about PageHeap, for every size of the heap and of the gap and    *)
(* every set of requests that stays within the gap.                        *)
(***************************************************************************)
EXTENDS PageHeap, TLAPS

\* Where the scan of malloc() stands: the entries start .. i-1 are free, and
\* no block of the requested length fits before the start that is tried.
ScanOK ==
  /\ pc = "inner" => /\ j \in 0 .. req
                     /\ i = start + j
                     /\ \A k \in start .. i - 1 : flag[k] = 0
                     /\ \A s \in 0 .. start - 1 : ~RunFree(s)
  /\ pc = "outer" => \A s \in 0 .. i - 1 : ~RunFree(s)

\* Where free() stands: inside the block it gives back.
FreeingOK ==
  Freeing => victim \in live /\ i \in Pages(victim)

IInv ==
  /\ TypeOK
  /\ LiveBlocksDisjoint
  /\ FlagsEncodeLive
  /\ ScanOK
  /\ FreeingOK
  /\ FreePagesZero

-----------------------------------------------------------------------------
\* A block lies in the table and its last page is one of its pages.
LEMMA BlockFacts ==
  ASSUME NEW b \in Blocks
  PROVE  /\ b.base \in Heap /\ b.len \in 1 .. Gap + 1
         /\ Pages(b) \subseteq Slots
         /\ LastPage(b) \in Pages(b) /\ b.base \in Pages(b)
<1>1. b.base \in Heap /\ b.len \in 1 .. Gap + 1
  BY RequestsAssumption DEF Blocks
<1>2. /\ b.base \in Int /\ b.len \in Int
      /\ b.base >= 0 /\ b.base < NumPages
      /\ b.len >= 1 /\ b.len <= Gap + 1
  BY <1>1, NumPagesAssumption, GapAssumption DEF Heap
<1> QED BY <1>1, <1>2, NumPagesAssumption, GapAssumption DEF Pages, LastPage, Slots

\* page_init() establishes the invariant.
LEMMA InitOK == Init => IInv
BY NumPagesAssumption, GapAssumption, RequestsAssumption
DEF Init, IInv, TypeOK, LiveBlocksDisjoint, FlagsEncodeLive, ScanOK,
    FreeingOK, FreePagesZero, Freeing, Heap, Slots

\* malloc() starts, or moves its scan: flags, owners and contents stay.
LEMMA ScanStep ==
  ASSUME IInv, (\E n \in Requests : Malloc(n)) \/ OuterLoop \/ OutOfMemory
                 \/ InnerLoop \/ InnerBreak
  PROVE  IInv'
<1> USE NumPagesAssumption, GapAssumption, RequestsAssumption
<1>1. UNCHANGED <<flag, dirty, live, victim>> /\ ~Freeing /\ ~Freeing'
  BY DEF Malloc, OuterLoop, OutOfMemory, InnerLoop, InnerBreak, Freeing
<1>2. LiveBlocksDisjoint' /\ FlagsEncodeLive' /\ FreePagesZero' /\ FreeingOK'
  BY <1>1 DEF IInv, LiveBlocksDisjoint, FlagsEncodeLive, FlagOf,
     FreePagesZero, FreeingOK
<1>3. CASE \E n \in Requests : Malloc(n)
  <2>1. TypeOK' /\ ScanOK'
    BY <1>3 DEF Malloc, IInv, TypeOK, ScanOK
  <2> QED BY <2>1, <1>2 DEF IInv
<1>4. CASE OuterLoop
  <2>1. TypeOK'
    BY <1>4 DEF OuterLoop, IInv, TypeOK, Heap
  <2>2. ScanOK'
    BY <1>4 DEF OuterLoop, IInv, TypeOK, ScanOK, RunFree
  <2> QED BY <2>1, <2>2, <1>2 DEF IInv
<1>5. CASE OutOfMemory
  <2>1. TypeOK' /\ ScanOK'
    BY <1>5 DEF OutOfMemory, IInv, TypeOK, ScanOK
  <2> QED BY <2>1, <1>2 DEF IInv
<1>6. CASE InnerLoop
  <2>1. TypeOK'
    BY <1>6 DEF InnerLoop, IInv, TypeOK, ScanOK, Heap
  <2>2. ScanOK'
    BY <1>6 DEF InnerLoop, IInv, TypeOK, ScanOK, RunFree, Heap
  <2> QED BY <2>1, <2>2, <1>2 DEF IInv
<1>7. CASE InnerBreak
  <2>1. TypeOK'
    BY <1>7 DEF InnerBreak, IInv, TypeOK, ScanOK, Heap
  <2>2. ASSUME NEW s \in 0 .. i
        PROVE  ~RunFree(s)
    <3>1. CASE s < start
      BY <3>1, <1>7 DEF InnerBreak, IInv, TypeOK, ScanOK, Heap
    <3>2. CASE s >= start
      <4>1. i \in s .. s + req - 1
        BY <3>2, <1>7 DEF InnerBreak, IInv, TypeOK, ScanOK, Heap
      <4> QED BY <4>1, <1>7 DEF InnerBreak, RunFree
    <3> QED BY <3>1, <3>2, <1>7 DEF InnerBreak, IInv, TypeOK, Heap
  <2>3. ScanOK'
    <3>1. pc' = "outer" /\ i' = i + 1 /\ i \in Nat /\ UNCHANGED <<flag, req>>
      BY <1>7 DEF InnerBreak, IInv, TypeOK
    <3>2. \A s \in 0 .. i' - 1 : ~RunFree(s)'
      BY <3>1, <2>2 DEF RunFree
    <3> QED BY <3>1, <3>2 DEF ScanOK
  <2> QED BY <2>1, <2>3, <1>2 DEF IInv
<1> QED BY <1>3, <1>4, <1>5, <1>6, <1>7

\* What malloc() knows when it marks a block: nobody owns a page of it.
LEMMA MarkedIsFree ==
  ASSUME IInv, pc = "inner", j = req
  PROVE  LET b == [base |-> start, len |-> req]
         IN  /\ b \in Blocks
             /\ \A k \in Pages(b) : flag[k] = 0
             /\ \A a \in live : Pages(a) \cap Pages(b) = {}
<1> DEFINE b == [base |-> start, len |-> req]
<1>1. b \in Blocks
  BY DEF IInv, TypeOK, Blocks
<1>2. \A k \in Pages(b) : flag[k] = 0
  <2>1. \A k \in start .. start + j - 1 : flag[k] = 0
    BY DEF IInv, ScanOK, TypeOK, Heap
  <2>2. Pages(b) = start .. start + j - 1
    BY DEF Pages
  <2> QED BY <2>1, <2>2
<1>3. ASSUME NEW a \in live, NEW k \in Pages(a)
      PROVE  flag[k] # 0
  BY DEF IInv, FlagsEncodeLive, FlagOf, FlagIn, Freeing
<1> QED BY <1>1, <1>2, <1>3

\* malloc() marks the entries of a block and hands it out.
LEMMA MarkStep ==
  ASSUME IInv, Mark
  PROVE  IInv'
<1> USE NumPagesAssumption, GapAssumption, RequestsAssumption
<1> DEFINE b == [base |-> start, len |-> req]
<1>1. /\ b \in Blocks
      /\ \A k \in Pages(b) : flag[k] = 0
      /\ \A a \in live : Pages(a) \cap Pages(b) = {}
  BY MarkedIsFree DEF Mark
<1>2. /\ flag' = [k \in Slots |-> IF k \in Pages(b) THEN FlagIn(b, k) ELSE flag[k]]
      /\ live' = live \cup {b}
      /\ pc = "inner" /\ pc' = "idle"
      /\ UNCHANGED <<dirty, victim, req, i, j, start>>
  BY DEF Mark
<1>3. TypeOK'
  BY <1>1, <1>2 DEF IInv, TypeOK, FlagIn
<1>4. LiveBlocksDisjoint'
  BY <1>1, <1>2 DEF IInv, LiveBlocksDisjoint
<1>5. ~Freeing /\ ~Freeing'
  BY <1>2 DEF Freeing
<1>6. \A a \in Blocks : Pages(a) \subseteq Slots
  BY BlockFacts
<1>7. FlagsEncodeLive'
  <2>1. ASSUME NEW a \in live', NEW k \in Pages(a)
        PROVE  flag'[k] = FlagIn(a, k)
    <3>1. CASE a = b
      BY <3>1, <1>1, <1>2, <1>6
    <3>2. CASE a \in live
      <4>1. k \notin Pages(b) /\ k \in Slots
        BY <3>2, <1>1, <1>6 DEF IInv, TypeOK
      <4>2. flag[k] = FlagIn(a, k)
        BY <3>2, <1>5 DEF IInv, FlagsEncodeLive, FlagOf
      <4> QED BY <4>1, <4>2, <1>2
    <3> QED BY <3>1, <3>2, <1>2
  <2>2. ASSUME NEW k \in Slots, \A a \in live' : k \notin Pages(a)
        PROVE  flag'[k] = 0
    <3>1. k \notin Pages(b) /\ flag[k] = 0
      BY <2>2, <1>2 DEF IInv, FlagsEncodeLive
    <3> QED BY <3>1, <1>2
  <2> QED BY <2>1, <2>2, <1>5 DEF FlagsEncodeLive, FlagOf, FlagIn, LastPage, Pages
<1>8. ScanOK' /\ FreeingOK'
  BY <1>2, <1>5 DEF ScanOK, FreeingOK
<1>9. FreePagesZero'
  <2>1. ASSUME NEW k \in Heap, flag'[k] = 0
        PROVE  k \notin dirty'
    <3>1. flag[k] = 0
      BY <2>1, <1>1, <1>2 DEF Heap, Slots
    <3> QED BY <3>1, <1>2 DEF IInv, FreePagesZero
  <2> QED BY <2>1 DEF FreePagesZero
<1> QED BY <1>3, <1>4, <1>7, <1>8, <1>9 DEF IInv

-----------------------------------------------------------------------------
\* free() finds the entry of the block it is given: nothing is changed yet.
LEMMA FreeStep ==
  ASSUME IInv, NEW b \in live, Free(b)
  PROVE  IInv'
<1> USE NumPagesAssumption, GapAssumption, RequestsAssumption
<1>1. /\ pc = "idle" /\ pc' = "clear" /\ victim' = b /\ i' = b.base
      /\ UNCHANGED <<flag, dirty, live, req, j, start>>
  BY DEF Free
<1>2. b \in Blocks
  BY DEF IInv, TypeOK
<1>3. b.base \in Heap /\ b.base \in Pages(b)
  BY <1>2, BlockFacts
<1>4. TypeOK'
  BY <1>1, <1>2, <1>3 DEF IInv, TypeOK, Heap
<1>5. LiveBlocksDisjoint' /\ FreePagesZero'
  BY <1>1 DEF IInv, LiveBlocksDisjoint, FreePagesZero
<1>6. ScanOK' /\ FreeingOK'
  BY <1>1, <1>3 DEF ScanOK, FreeingOK
<1>7. FlagsEncodeLive'
  <2>1. ~Freeing
    BY <1>1 DEF Freeing
  <2>2. ASSUME NEW a \in live, NEW k \in Pages(a)
        PROVE  flag[k] = FlagOf(a, k)'
    <3>1. ~(a = b /\ k < b.base)
      BY <1>2, <1>3 DEF Pages, Heap
    <3>2. flag[k] = FlagIn(a, k)
      BY <2>1 DEF IInv, FlagsEncodeLive, FlagOf
    <3> QED BY <3>1, <3>2, <1>1 DEF FlagOf, FlagIn, LastPage
  <2> QED BY <2>2, <1>1 DEF IInv, FlagsEncodeLive
<1> QED BY <1>4, <1>5, <1>6, <1>7 DEF IInv

\* A turn of free(): entry i of the victim is cleared; free() is done with the
\* victim when the entry was the last one.
LEMMA ClearStep ==
  ASSUME IInv, ClearPage \/ ClearLast
  PROVE  IInv'
<1> USE NumPagesAssumption, GapAssumption, RequestsAssumption
<1>1. /\ pc = "clear" /\ i \in Heap
      /\ flag' = [flag EXCEPT ![i] = 0]
      /\ dirty' = dirty \ {i}
      /\ UNCHANGED <<victim, req, j, start>>
  BY DEF ClearPage, ClearLast
<1>2. victim \in live /\ victim \in Blocks /\ i \in Pages(victim)
  BY <1>1 DEF IInv, TypeOK, FreeingOK, Freeing
<1>3. /\ victim.base \in Int /\ victim.len \in Int /\ victim.len >= 1
      /\ i \in Int /\ i \in Slots
  BY <1>2, BlockFacts DEF Heap, Slots
<1>4. flag[i] = FlagIn(victim, i)
  BY <1>1, <1>2, <1>3 DEF IInv, FlagsEncodeLive, FlagOf
<1>5. \A a \in live : a # victim => i \notin Pages(a)
  BY <1>2 DEF IInv, LiveBlocksDisjoint
<1>6. \A k \in Slots : k # i => flag'[k] = flag[k]
  BY <1>1 DEF IInv, TypeOK
<1>7. flag'[i] = 0
  BY <1>1, <1>3 DEF IInv, TypeOK
<1>8. FreePagesZero'
  BY <1>1, <1>6 DEF IInv, FreePagesZero, Heap, Slots
<1>9. \A a \in live : a \in Blocks /\ Pages(a) \subseteq Slots
  BY BlockFacts DEF IInv, TypeOK
<1>10. CASE ClearPage
  <2>1. pc' = "clear" /\ i' = i + 1 /\ flag[i] = 1 /\ UNCHANGED live
    BY <1>10 DEF ClearPage
  <2>2. i # LastPage(victim)
    BY <2>1, <1>4 DEF FlagIn
  <2>3. i + 1 \in Pages(victim)
    BY <2>2, <1>2, <1>3 DEF Pages, LastPage
  <2>4. TypeOK'
    BY <2>1, <1>1 DEF IInv, TypeOK, Heap, Slots
  <2>5. ScanOK' /\ FreeingOK' /\ LiveBlocksDisjoint'
    BY <2>1, <2>3, <1>1, <1>2 DEF IInv, ScanOK, FreeingOK, LiveBlocksDisjoint, Pages
  <2>6. FlagsEncodeLive'
    <3>1. ASSUME NEW a \in live, NEW k \in Pages(a)
          PROVE  flag'[k] = FlagOf(a, k)'
      <4>1. k \in Slots /\ k \in Int /\ flag[k] = FlagOf(a, k)
        BY <1>9 DEF IInv, FlagsEncodeLive, Slots
      <4>2. CASE a = victim /\ k = i
        BY <4>2, <1>7, <1>1, <2>1, <1>3 DEF FlagOf, Freeing
      <4>3. CASE a = victim /\ k # i
        BY <4>1, <4>3, <1>6, <1>1, <2>1, <1>3 DEF FlagOf, Freeing, FlagIn, LastPage
      <4>4. CASE a # victim
        BY <4>1, <4>4, <1>5, <1>6, <1>1 DEF FlagOf, FlagIn, LastPage
      <4> QED BY <4>2, <4>3, <4>4
    <3>2. ASSUME NEW k \in Slots, \A a \in live : k \notin Pages(a)
          PROVE  flag'[k] = 0
      BY <3>2, <1>6, <1>7 DEF IInv, FlagsEncodeLive
    <3> QED BY <3>1, <3>2, <2>1 DEF FlagsEncodeLive, Pages
  <2> QED BY <2>4, <2>5, <2>6, <1>8 DEF IInv
<1>11. CASE ClearLast
  <2>1. pc' = "idle" /\ i' = i /\ flag[i] # 1 /\ live' = live \ {victim}
    BY <1>11 DEF ClearLast
  <2>2. i = LastPage(victim)
    BY <2>1, <1>4 DEF FlagIn
  <2>3. TypeOK'
    BY <2>1, <1>1 DEF IInv, TypeOK, Heap, Slots
  <2>4. ScanOK' /\ FreeingOK' /\ LiveBlocksDisjoint' /\ ~Freeing'
    BY <2>1 DEF IInv, ScanOK, FreeingOK, LiveBlocksDisjoint, Freeing, Pages
  <2>5. FlagsEncodeLive'
    <3>1. ASSUME NEW a \in live', NEW k \in Pages(a)
          PROVE  flag'[k] = FlagIn(a, k)
      <4>1. a \in live /\ a # victim /\ k # i
        BY <2>1, <1>5
      <4>2. flag[k] = FlagIn(a, k) /\ k \in Slots
        BY <4>1, <1>9 DEF IInv, FlagsEncodeLive, FlagOf
      <4> QED BY <4>1, <4>2, <1>6
    <3>2. ASSUME NEW k \in Slots, \A a \in live' : k \notin Pages(a)
          PROVE  flag'[k] = 0
      <4>1. CASE k \in Pages(victim)
        <5>1. k <= i /\ k \in Int
          BY <4>1, <2>2, <1>3 DEF Pages, LastPage
        <5>2. CASE k < i
          <6>1. flag[k] = 0
            BY <5>2, <4>1, <1>1, <1>2 DEF IInv, FlagsEncodeLive, FlagOf, Freeing
          <6> QED BY <6>1, <5>2, <5>1, <1>3, <1>6
        <5> QED BY <5>1, <5>2, <1>3, <1>7
      <4>2. CASE k \notin Pages(victim)
        <5>1. flag[k] = 0
          BY <3>2, <4>2, <2>1 DEF IInv, FlagsEncodeLive
        <5> QED BY <5>1, <1>6, <1>7
      <4> QED BY <4>1, <4>2
    <3> QED BY <3>1, <3>2, <2>4 DEF FlagsEncodeLive, FlagOf, FlagIn, LastPage, Pages
  <2> QED BY <2>3, <2>4, <2>5, <1>8 DEF IInv
<1> QED BY <1>10, <1>11

\* free() runs off the table, or an owner stores into its block: flags and
\* owners stay.
LEMMA OtherStep ==
  ASSUME IInv, ClearBehindTable \/ \E b \in live, k \in Heap : Store(b, k)
  PROVE  IInv'
<1> USE NumPagesAssumption, GapAssumption, RequestsAssumption
<1>1. CASE ClearBehindTable
  BY <1>1 DEF ClearBehindTable, IInv, TypeOK, LiveBlocksDisjoint, FlagsEncodeLive,
     FlagOf, FlagIn, LastPage, Pages, ScanOK, FreeingOK, Freeing, FreePagesZero
<1>2. ASSUME NEW b \in live, NEW k \in Heap, Store(b, k)
      PROVE  IInv'
  <2>1. /\ pc = "idle" /\ k \in Pages(b) /\ dirty' = dirty \cup {k}
        /\ UNCHANGED <<flag, live, victim, pc, req, i, j, start>>
    BY <1>2 DEF Store
  <2>2. flag[k] # 0
    BY <2>1 DEF IInv, FlagsEncodeLive, FlagOf, FlagIn, Freeing
  <2>3. FreePagesZero'
    BY <2>1, <2>2 DEF IInv, FreePagesZero
  <2>4. TypeOK' /\ LiveBlocksDisjoint' /\ ScanOK' /\ FreeingOK'
    BY <2>1 DEF IInv, TypeOK, LiveBlocksDisjoint, ScanOK, FreeingOK, Freeing
  <2>5. FlagsEncodeLive'
    BY <2>1 DEF IInv, FlagsEncodeLive, FlagOf, Freeing, FlagIn, LastPage, Pages
  <2> QED BY <2>3, <2>4, <2>5 DEF IInv
<1> QED BY <1>1, <1>2

-----------------------------------------------------------------------------
\* Every step of a caller, of malloc() and of free() keeps the invariant.
LEMMA NextOK == IInv /\ [Next]_vars => IInv'
<1> SUFFICES ASSUME IInv, [Next]_vars
             PROVE  IInv'
  OBVIOUS
<1>1. CASE UNCHANGED vars
  BY <1>1 DEF vars, IInv, TypeOK, LiveBlocksDisjoint, FlagsEncodeLive, FlagOf,
     FlagIn, LastPage, Pages, ScanOK, RunFree, FreeingOK, Freeing, FreePagesZero
<1>2. CASE Next
  BY <1>2, ScanStep, MarkStep, FreeStep, ClearStep, OtherStep DEF Next, Work
<1> QED BY <1>1, <1>2

\* The inductive invariant holds in every reachable state of the allocator.
THEOREM Invariance == Spec => []IInv
BY InitOK, NextOK, PTL DEF Spec

\* The table entries, the loop variables and the blocks keep their types; in
\* particular the scan of malloc() reads no entry behind the gap.
THEOREM TypeCorrectness == Spec => []TypeOK
<1>1. IInv => TypeOK
  BY DEF IInv
<1> QED BY <1>1, Invariance, PTL

\* Two live blocks share no page, whatever the sequence of calls.
THEOREM Disjointness == Spec => []LiveBlocksDisjoint
<1>1. IInv => LiveBlocksDisjoint
  BY DEF IInv
<1> QED BY <1>1, Invariance, PTL

\* The flags mark the pages of the live blocks and no other.
THEOREM FlagEncoding == Spec => []FlagsEncodeLive
<1>1. IInv => FlagsEncodeLive
  BY DEF IInv
<1> QED BY <1>1, Invariance, PTL

\* Every page that can be handed out holds zeros.
THEOREM FreshPagesZero == Spec => []FreePagesZero
<1>1. IInv => FreePagesZero
  BY DEF IInv
<1> QED BY <1>1, Invariance, PTL

\* malloc() takes the first place that is long enough.
THEOREM MallocFirstFit == Spec => FirstFit
<1>1. ASSUME IInv, [Next]_vars
      PROVE  [\A b \in live' \ live : \A s \in 0 .. b.base - 1 : ~RunFree(s)]_vars
  <2>1. CASE Mark
    BY <1>1, <2>1 DEF Mark, IInv, ScanOK
  <2>2. CASE ~Mark
    <3>1. live' \subseteq live
      BY <1>1, <2>2 DEF Next, Work, vars, Malloc, OuterLoop, OutOfMemory,
         InnerLoop, InnerBreak, Free, ClearPage, ClearLast, ClearBehindTable, Store
    <3> QED BY <3>1
  <2> QED BY <2>1, <2>2
<1> QED BY <1>1, Invariance, PTL DEF Spec, FirstFit

\* malloc() fails only when no place is long enough.
THEOREM MallocFailsWhenFull == Spec => NullMeansFull
<1>1. ASSUME IInv, [Next]_vars
      PROVE  [pc = "outer" /\ pc' = "idle" => \A s \in Heap : ~RunFree(s)]_vars
  <2>1. CASE OutOfMemory
    <3>1. Heap \subseteq 0 .. i - 1
      BY <1>1, <2>1, NumPagesAssumption DEF OutOfMemory, IInv, TypeOK, Heap
    <3> QED BY <1>1, <2>1, <3>1 DEF OutOfMemory, IInv, ScanOK
  <2>2. CASE ~OutOfMemory
    <3>1. ~(pc = "outer" /\ pc' = "idle")
      BY <1>1, <2>2 DEF Next, Work, vars, Malloc, OuterLoop, Mark,
         InnerLoop, InnerBreak, Free, ClearPage, ClearLast, ClearBehindTable, Store
    <3> QED BY <3>1
  <2> QED BY <2>1, <2>2
<1> QED BY <1>1, Invariance, PTL DEF Spec, NullMeansFull

\* The search of malloc() is a first fit that fails only on a full heap.
THEOREM SearchIsRight == Spec => SearchRight
BY MallocFirstFit, MallocFailsWhenFull DEF SearchRight

\* The page table and its loops are an allocator in the sense of BlockStore.
THEOREM Refinement == Spec => ImplementsBlockStore
<1>1. Init => Promise!Init
  BY DEF Init, Promise!Init
<1>2. ASSUME IInv, [Next]_vars
      PROVE  [Promise!Next]_live
  <2>1. CASE Mark
    <3> DEFINE b == [base |-> start, len |-> req]
    <3>1. b \in Promise!Blocks /\ live' = live \cup {b}
      BY <1>2, <2>1 DEF Mark, IInv, TypeOK, Heap, Promise!Blocks
    <3>2. \A a \in live : Promise!Pages(a) \cap Promise!Pages(b) = {}
      BY <2>1, <1>2, MarkedIsFree DEF Mark, Pages, Promise!Pages
    <3> QED BY <3>1, <3>2 DEF Promise!Next, Promise!Alloc
  <2>2. CASE ClearLast
    <3>1. victim \in live /\ victim \in Promise!Blocks /\ live' = live \ {victim}
      BY <2>2, <1>2 DEF ClearLast, IInv, TypeOK, FreeingOK, Freeing, Blocks,
         Heap, Promise!Blocks
    <3> QED BY <3>1 DEF Promise!Next, Promise!Release
  <2>3. CASE ~Mark /\ ~ClearLast
    BY <1>2, <2>3 DEF Next, Work, vars, Malloc, OuterLoop, OutOfMemory,
       InnerLoop, InnerBreak, Free, ClearPage, ClearBehindTable, Store
  <2> QED BY <2>1, <2>2, <2>3
<1> QED BY <1>1, <1>2, Invariance, PTL DEF Spec, ImplementsBlockStore, Promise!Spec
=============================================================================
