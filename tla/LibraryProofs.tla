--------------------------- MODULE LibraryProofs ---------------------------
(***************************************************************************)
(* Proofs about the library the days link, for every call of it.           *)
(* The allocators of all snapshots, for every heap: the layout that        *)
(* page_init() computes fits, blocks are disjoint and described by the     *)
(* table whatever is passed to free(), as long as nobody calls malloc(0)   *)
(* or frees the inside of a block, and the lock is lost on day 3-3 only.   *)
(* The functions of string.c in every version, for all strings over any    *)
(* set of characters.  printf() of every version, for all formats, all     *)
(* widths of the integers and all values.                                  *)
(***************************************************************************)
EXTENDS Printf, Strings, HeapDays, FiniteSetTheorems, SequenceTheorems, WellFoundedInduction, NaturalsInduction, TLAPS

----------------------------------------------------------------------------
(***************************************************************************)
(* Positions in a string, in order (Ranks)                                 *)
(***************************************************************************)
\* The rank of a position is a number, and the last one counts them all.
LEMMA RankFacts ==
  ASSUME NEW N \in Nat, NEW S, S \subseteq 1 .. N
  PROVE  /\ IsFiniteSet(S) /\ Cardinality(S) \in Nat
         /\ \A k : IsFiniteSet({j \in S : j < k})
         /\ \A k : Rank(S, k) \in Nat /\ Rank(S, k) <= Cardinality(S)
         /\ Rank(S, 1) = 0 /\ Rank(S, N + 1) = Cardinality(S)
<1>1. IsFiniteSet(S) /\ Cardinality(S) \in Nat
  <2>1. IsFiniteSet(1 .. N) /\ S \in SUBSET (1 .. N)
    BY FS_Interval
  <2> QED BY <2>1, FS_Subset, FS_CardinalityType
<1>2. ASSUME NEW k
      PROVE  /\ IsFiniteSet({j \in S : j < k}) /\ Rank(S, k) \in Nat
             /\ Rank(S, k) <= Cardinality(S)
  <2> DEFINE T == {j \in S : j < k}
  <2>1. T \in SUBSET S
    OBVIOUS
  <2> HIDE DEF T
  <2>2. IsFiniteSet(T) /\ Cardinality(T) <= Cardinality(S) /\ Cardinality(T) \in Nat
    BY <1>1, <2>1, FS_Subset, FS_CardinalityType
  <2> QED BY <2>2 DEF T, Rank
<1>3. {j \in S : j < N + 1} = S /\ {j \in S : j < 1} = {}
  <2>1. \A j \in S : j \in Int /\ j < N + 1 /\ ~(j < 1)
    OBVIOUS
  <2> QED BY <2>1
<1> QED BY <1>1, <1>2, <1>3, FS_EmptySet DEF Rank

\* Behind an element the rank is one more, up to the next element.
LEMMA RankBehind ==
  ASSUME NEW N \in Nat, NEW S, S \subseteq 1 .. N, NEW k \in S, NEW m \in Nat, k < m,
         \A j \in k + 1 .. m - 1 : j \notin S
  PROVE  Rank(S, m) = Rank(S, k) + 1
<1> DEFINE A == {j \in S : j < k}
           B == {j \in S : j < m}
<1>1. B = A \cup {k} /\ k \notin A
  <2>1. k \in Int /\ ~(k < k) /\ \A j \in S : j \in Int /\ (j < m <=> j < k \/ j = k)
    OBVIOUS
  <2> QED BY <2>1
<1>2. IsFiniteSet(A)
  BY RankFacts
<1> HIDE DEF A, B
<1>3. Cardinality(B) = Cardinality(A) + 1
  BY <1>1, <1>2, FS_AddElement
<1> QED BY <1>3 DEF Rank, A, B

\* Between elements it does not change.
LEMMA RankSame ==
  ASSUME NEW N \in Nat, NEW S, S \subseteq 1 .. N, NEW k \in Nat, NEW m \in Nat, k <= m,
         \A j \in k .. m - 1 : j \notin S
  PROVE  Rank(S, m) = Rank(S, k)
<1>1. {j \in S : j < m} = {j \in S : j < k}
  <2>1. \A j \in S : j \in Int /\ (j < m <=> j < k)
    OBVIOUS
  <2> QED BY <2>1
<1> QED BY <1>1 DEF Rank

\* Ranks tell the elements apart,
LEMMA RanksDiffer ==
  ASSUME NEW N \in Nat, NEW S, S \subseteq 1 .. N, NEW k \in S, NEW m \in Nat, k < m
  PROVE  Rank(S, k) < Rank(S, m)
<1> DEFINE A == {j \in S : j < k}
           B == {j \in S : j < m}
<1>1. A \cup {k} \in SUBSET B /\ k \notin A
  <2>1. k \in Int /\ ~(k < k) /\ \A j \in S : j \in Int /\ (j < k => j < m)
    OBVIOUS
  <2> QED BY <2>1
<1>2. IsFiniteSet(A) /\ IsFiniteSet(B) /\ Cardinality(A) \in Nat /\ Cardinality(B) \in Nat
  BY RankFacts, FS_CardinalityType
<1> HIDE DEF A, B
<1>3. Cardinality(A \cup {k}) = Cardinality(A) + 1
  BY <1>1, <1>2, FS_AddElement
<1>4. Cardinality(A \cup {k}) <= Cardinality(B)
  BY <1>1, <1>2, FS_Subset
<1>5. Cardinality(A) < Cardinality(B)
  BY <1>2, <1>3, <1>4
<1> QED BY <1>5 DEF Rank, A, B

\* so the n-th element is the one with n - 1 in front of it.
LEMMA NthIs ==
  ASSUME NEW N \in Nat, NEW S, S \subseteq 1 .. N, NEW k \in S
  PROVE  Rank(S, k) + 1 \in 1 .. Cardinality(S) /\ Nth(S, Rank(S, k) + 1) = k
<1>1. k \in 1 .. N /\ Rank(S, k) \in Nat /\ Cardinality(S) \in Nat
  BY RankFacts
<1>2. Rank(S, k) < Cardinality(S)
  <2>1. N + 1 \in Nat /\ k < N + 1
    BY <1>1
  <2>3. Rank(S, k) < Rank(S, N + 1)
    BY <2>1, RanksDiffer
  <2> QED BY <2>3, RankFacts
<1> DEFINE c == CHOOSE j \in S : Rank(S, j) = (Rank(S, k) + 1) - 1
<1>3. c \in S /\ Rank(S, c) = (Rank(S, k) + 1) - 1
  <2>1. \E j \in S : Rank(S, j) = (Rank(S, k) + 1) - 1
    BY <1>1
  <2> QED BY <2>1
<1>4. Nth(S, Rank(S, k) + 1) = c
  BY DEF Nth
<1> HIDE DEF c
<1>5. c \in 1 .. N /\ Rank(S, c) = Rank(S, k)
  BY <1>1, <1>3
<1>6. ~(c < k)
  <2>1. c \in Nat /\ k \in Nat
    BY <1>1, <1>5
  <2>2. c < k => Rank(S, c) < Rank(S, k)
    BY <1>3, <2>1, RanksDiffer
  <2> QED BY <1>1, <1>5, <2>2
<1>7. ~(k < c)
  <2>1. c \in Nat /\ k \in Nat
    BY <1>1, <1>5
  <2>2. k < c => Rank(S, k) < Rank(S, c)
    BY <1>3, <2>1, RanksDiffer
  <2> QED BY <1>1, <1>5, <2>2
<1> QED BY <1>1, <1>2, <1>4, <1>5, <1>6, <1>7

----------------------------------------------------------------------------
(***************************************************************************)
(* The allocators (HeapDays)                                               *)
(***************************************************************************)
\* What the proofs use of the versions.
LEMMA VersionFacts ==
  ASSUME NEW mem \in MemVersions
  PROVE  /\ mem.aligned \in BOOLEAN
         /\ "free" \in mem.locks => mem = mem33
<1>1. mem \in {mem13, mem33, mem4}
  BY DEF MemVersions, mem21, mem22, mem23, mem31, mem32, mem51, mem52, mem53, mem54, mem6
<1>2. mem13.aligned = FALSE /\ mem13.locks = {}
  BY DEF mem13
<1>3. mem33.aligned = FALSE
  BY DEF mem33
<1>4. mem4.aligned = TRUE /\ mem4.locks = {"malloc", "printMEM"}
  BY DEF mem4
<1>5. mem.aligned \in BOOLEAN
  BY <1>1, <1>2, <1>3, <1>4
<1>6. "free" \in mem.locks => mem = mem33
  BY <1>1, <1>2, <1>4
<1>7. QED
  BY <1>5, <1>6

\* Division rounds down.
LEMMA Division ==
  ASSUME NEW a \in Nat, NEW b \in Nat \ {0}
  PROVE  /\ a \div b \in Nat
         /\ (a \div b) * b <= a
         /\ a < (a \div b) * b + b
OBVIOUS

\* page_init() of mem.c, dense or aligned: there is a page, and the table and the pages
\* do not overlap and end within the heap.
LEMMA Layout ==
  ASSUME NEW aligned \in BOOLEAN
  PROVE  /\ num_pages(aligned) \in Nat \ {0}
         /\ LayoutFits(aligned)
<1> DEFINE unit == PageSize + EntrySize
           q == HeapSize \div unit
           n == num_pages(aligned)
<1>1. unit \in Nat \ {0} /\ PageSize \in Nat \ {0} /\ EntrySize \in Nat \ {0}
      /\ HeapStart \in Nat /\ HeapSize \in Nat
  BY HeapStartAssumption, PageSizeAssumption, EntrySizeAssumption, HeapSizeAssumption
<1>2. q \in Nat /\ q * unit <= HeapSize /\ HeapSize < q * unit + unit
  BY <1>1, Division
<1>3. q >= 2
  <2>1. HeapSize >= 2 * unit
    BY HeapSizeAssumption
  <2>2. CASE q = 0
    BY <2>1, <2>2, <1>1, <1>2
  <2>3. CASE q = 1
    BY <2>1, <2>3, <1>1, <1>2
  <2>4. QED
    BY <1>2, <2>2, <2>3
<1>4. n = q - (IF aligned THEN 1 ELSE 0)
  BY DEF num_pages
<1>5. n \in Nat \ {0}
  BY <1>2, <1>3, <1>4
<1> HIDE DEF q, n
<1> DEFINE behind == HeapStart + n * EntrySize
<1>6. n * EntrySize \in Nat /\ PageSize * n \in Nat /\ behind \in Nat
  BY <1>1, <1>5
<1>7. n * EntrySize + PageSize * n = n * unit
  BY <1>1, <1>5
<1>8. CASE aligned
  <2> DEFINE up == (behind + PageSize - 1) \div PageSize
             first == up * PageSize
  <2>1. behind + PageSize - 1 \in Nat
    BY <1>1, <1>6
  <2>2. up \in Nat /\ first <= behind + PageSize - 1 /\ behind + PageSize - 1 < first + PageSize
    BY <2>1, <1>1, Division
  <2>3. first \in Nat
    BY <2>2, <1>1
  <2>4. alloc_start(aligned) = first /\ alloc_end(aligned) = first + PageSize * n
    BY <1>8 DEF alloc_start, alloc_end, n
  <2>5. behind <= first
    BY <2>1, <2>2, <2>3, <1>1, <1>6
  <2>6. n * unit + unit = q * unit
    BY <1>8, <1>4, <1>1, <1>2
  <2>7. first + PageSize * n <= HeapStart + HeapSize
    <3> DEFINE e == n * EntrySize
               p == PageSize * n
               u == q * unit
    <3>1. e \in Nat /\ p \in Nat /\ u \in Nat /\ e + p + unit = u /\ u <= HeapSize
      BY <1>6, <1>7, <2>6, <1>2, <1>1, <1>5
    <3>2. first <= HeapStart + e + PageSize - 1
      BY <2>2, <1>6
    <3> HIDE DEF e, p, u, first
    <3>3. first + p <= HeapStart + HeapSize
      BY <3>1, <3>2, <2>3, <1>1 DEF first
    <3>4. QED
      BY <3>3 DEF p
  <2>8. QED
    BY <1>5, <2>4, <2>5, <2>7 DEF LayoutFits, n
<1>9. CASE ~aligned
  <2>1. alloc_start(aligned) = behind /\ alloc_end(aligned) = behind + PageSize * n
    BY <1>9 DEF alloc_start, alloc_end, n
  <2>2. n = q
    BY <1>9, <1>4, <1>2
  <2>3. behind + PageSize * n <= HeapStart + HeapSize
    BY <1>1, <1>2, <1>6, <1>7, <2>2
  <2>4. QED
    BY <1>5, <1>6, <2>1, <2>3 DEF LayoutFits, n
<1>10. QED
  BY <1>8, <1>9

-----------------------------------------------------------------------------
\* The states, and what the blocks and the table have in common until a misuse.
LastPage(mem) == num_pages(mem.aligned) - 1

HeapTypeOK ==
  /\ h.mem \in MemVersions
  /\ h \in [mem : {h.mem}, flag : [0 .. LastPage(h.mem) -> 0 .. 2], blocks : SUBSET [base : Nat, len : Nat],
            misused : BOOLEAN, refused : BOOLEAN, lock : BOOLEAN, pc : {"ready", "hung", "wild"}]

FlagFor(bs, e) ==
  IF \E b \in bs : e = b.base + b.len - 1 THEN 2
  ELSE IF \E b \in bs : e \in Pages(b) THEN 1 ELSE 0

BlocksSound ==
  ~h.misused =>
    /\ \A b \in h.blocks : b.len >= 1 /\ b.base + b.len - 1 <= LastPage(h.mem)
    /\ \A b, c \in h.blocks : b # c => Pages(b) \cap Pages(c) = {}
    /\ \A e \in 0 .. LastPage(h.mem) : h.flag[e] = FlagFor(h.blocks, e)

LockLost ==
  /\ h.lock => h.mem = mem33 /\ h.refused
  /\ h.pc = "hung" => h.lock

Invariant == HeapTypeOK /\ BlocksSound /\ LockLost

-----------------------------------------------------------------------------
\* A step that leaves blocks and table alone and loses no lock.
LEMMA Untouched ==
  ASSUME Invariant,
         h'.mem = h.mem, h'.flag = h.flag, h'.blocks = h.blocks, h.misused => h'.misused,
         HeapTypeOK',
         LockLost'
  PROVE  Invariant'
BY DEF Invariant, BlocksSound, HeapTypeOK

\* page_init() of mem.c establishes the invariant.
LEMMA InitInvariant == HeapInit => Invariant
<1> SUFFICES ASSUME HeapInit PROVE Invariant
  OBVIOUS
<1>1. PICK mem \in MemVersions :
        h = [mem |-> mem, flag |-> [k \in 0 .. num_pages(mem.aligned) - 1 |-> 0], blocks |-> {},
             misused |-> FALSE, refused |-> FALSE, lock |-> FALSE, pc |-> "ready"]
  BY DEF HeapInit
<1>2. h.mem = mem /\ h.flag = [k \in 0 .. LastPage(mem) |-> 0] /\ h.blocks = {}
      /\ h.lock = FALSE /\ h.pc = "ready"
  BY <1>1 DEF LastPage
<1>3. HeapTypeOK
  BY <1>1, <1>2 DEF HeapTypeOK, LastPage
<1>4. BlocksSound
  BY <1>2 DEF BlocksSound, FlagFor
<1>5. LockLost
  BY <1>2 DEF LockLost
<1>6. QED
  BY <1>3, <1>4, <1>5 DEF Invariant

\* malloc() takes entries that are free, so its block meets no other.
LEMMA MallocInvariant ==
  ASSUME Invariant, NEW n \in 1 .. MostPages, Malloc(n)
  PROVE  Invariant'
<1> USE MostPagesAssumption
<1>1. PICK k \in Entries :
        /\ IsFirst(k, n)
        /\ h' = [h EXCEPT !.flag = [e \in Entries |-> IF e = k + n - 1 THEN 2
                                                      ELSE IF e \in k .. k + n - 2 THEN 1
                                                      ELSE @[e]],
                          !.blocks = @ \cup {[base |-> k, len |-> n]}]
  BY DEF Malloc
<1> DEFINE new == [base |-> k, len |-> n]
           last == LastPage(h.mem)
<1>2. HeapTypeOK /\ BlocksSound /\ LockLost
  BY DEF Invariant
<1>3. last + 1 \in Nat \ {0} /\ Entries = 0 .. last /\ last \in Int
  BY <1>2, VersionFacts, Layout DEF HeapTypeOK, LastPage, Entries
<1>4. k \in 0 .. last /\ k + n - 1 \in 0 .. last /\ \A e \in k .. k + n - 1 : h.flag[e] = 0
  BY <1>1, <1>3 DEF IsFirst, FreeRun
<1>5. /\ h'.mem = h.mem /\ h'.blocks = h.blocks \cup {new} /\ h'.misused = h.misused
      /\ h'.refused = h.refused /\ h'.lock = h.lock /\ h'.pc = h.pc
      /\ h'.flag = [e \in 0 .. last |-> IF e = k + n - 1 THEN 2
                                       ELSE IF e \in k .. k + n - 2 THEN 1 ELSE h.flag[e]]
  BY <1>1, <1>2, <1>3 DEF HeapTypeOK
<1>6. HeapTypeOK'
  <2>1. new \in [base : Nat, len : Nat]
    BY <1>4, <1>3
  <2>2. h.flag \in [0 .. last -> 0 .. 2]
    BY <1>2 DEF HeapTypeOK
  <2>3. \A e \in 0 .. last : h.flag[e] \in 0 .. 2
    BY <2>2
  <2> HIDE DEF last
  <2>4. h'.flag \in [0 .. last -> 0 .. 2]
    BY <2>3, <1>5
  <2> USE DEF last
  <2>5. QED
    BY <1>1, <1>2, <1>5, <2>1, <2>4 DEF HeapTypeOK
<1>7. LockLost'
  BY <1>2, <1>5 DEF LockLost
<1>8. BlocksSound'
  <2> SUFFICES ASSUME ~h.misused
               PROVE  /\ \A b \in h'.blocks : b.len >= 1 /\ b.base + b.len - 1 <= last
                      /\ \A b, c \in h'.blocks : b # c => Pages(b) \cap Pages(c) = {}
                      /\ \A e \in 0 .. last : h'.flag[e] = FlagFor(h'.blocks, e)
    BY <1>5 DEF BlocksSound
  <2>1. /\ \A b \in h.blocks : b.base \in Nat /\ b.len \in Nat /\ b.len >= 1
                               /\ b.base + b.len - 1 <= last
        /\ \A b, c \in h.blocks : b # c => Pages(b) \cap Pages(c) = {}
        /\ \A e \in 0 .. last : h.flag[e] = FlagFor(h.blocks, e)
    BY <1>2 DEF BlocksSound, HeapTypeOK
  <2>2. Pages(new) = k .. k + n - 1 /\ new.base = k /\ new.len = n
    BY DEF Pages
  <2>3. \A b \in h.blocks : Pages(b) \subseteq 0 .. last
    BY <2>1, <1>3 DEF Pages
  <2>4. \A b \in h.blocks : Pages(b) \cap Pages(new) = {}
    <3> SUFFICES ASSUME NEW b \in h.blocks, NEW e \in Pages(b), e \in Pages(new)
                 PROVE FALSE
      OBVIOUS
    <3>1. h.flag[e] = 0 /\ h.flag[e] = FlagFor(h.blocks, e)
      BY <1>4, <2>1, <2>2, <2>3
    <3>2. FlagFor(h.blocks, e) # 0
      BY DEF FlagFor
    <3>3. QED
      BY <3>1, <3>2
  <2>5. \A b \in h.blocks : b.base + b.len - 1 \in Pages(b)
    BY <2>1 DEF Pages
  <2>6. ASSUME NEW e \in 0 .. last PROVE h'.flag[e] = FlagFor(h'.blocks, e)
    <3>1. CASE e = k + n - 1
      BY <3>1, <1>5, <2>2 DEF FlagFor
    <3>2. CASE e \in k .. k + n - 2
      <4>1. e \in Pages(new) /\ e # k + n - 1
        BY <3>2, <2>2, <1>4, <1>3
      <4>2. \A b \in h.blocks : e # b.base + b.len - 1
        BY <4>1, <2>4, <2>5
      <4>3. FlagFor(h'.blocks, e) = 1
        BY <4>1, <4>2, <1>5, <2>2 DEF FlagFor
      <4>4. QED
        BY <4>1, <4>3, <3>2, <1>5
    <3>3. CASE e \notin k .. k + n - 1
      <4>1. e \notin Pages(new) /\ e # new.base + new.len - 1
        BY <3>3, <2>2, <1>4, <1>3
      <4>2. FlagFor(h'.blocks, e) = FlagFor(h.blocks, e)
        BY <4>1, <1>5 DEF FlagFor
      <4>3. h'.flag[e] = h.flag[e]
        BY <3>3, <1>5, <1>4, <1>3
      <4>4. QED
        BY <4>2, <4>3, <2>1
    <3>4. QED
      BY <3>1, <3>2, <3>3, <1>3, <1>4
  <2>7. \A b \in h'.blocks : b.len >= 1 /\ b.base + b.len - 1 <= last
    BY <2>1, <2>2, <1>4, <1>5, <1>3
  <2>8. \A b, c \in h'.blocks : b # c => Pages(b) \cap Pages(c) = {}
    BY <2>1, <2>4, <1>5
  <2>9. QED
    BY <2>6, <2>7, <2>8
<1>9. QED
  BY <1>6, <1>7, <1>8 DEF Invariant

\* free() of a page clears one block, or a page that was free.
LEMMA FreeInvariant ==
  ASSUME Invariant, NEW k \in Entries, FreePage(k)
  PROVE  Invariant'
<1> DEFINE last == LastPage(h.mem)
           gone == {b \in h.blocks : b.base = k}
<1>1. HeapTypeOK /\ BlocksSound /\ LockLost
  BY DEF Invariant
<1>2. last + 1 \in Nat \ {0} /\ Entries = 0 .. last /\ last \in Int
  BY <1>1, VersionFacts, Layout DEF HeapTypeOK, LastPage, Entries
<1>3. CASE \A e \in k .. num_pages(h.mem.aligned) - 1 : h.flag[e] = 1
  <2>1. h' = [h EXCEPT !.pc = "wild"]
    BY <1>3 DEF FreePage
  <2>2. /\ h'.mem = h.mem /\ h'.flag = h.flag /\ h'.blocks = h.blocks /\ h'.misused = h.misused
        /\ h'.refused = h.refused /\ h'.lock = h.lock /\ h'.pc = "wild"
    BY <2>1, <1>1 DEF HeapTypeOK
  <2>3. HeapTypeOK'
    BY <2>1, <2>2, <1>1 DEF HeapTypeOK
  <2>4. QED
    BY <2>2, <2>3, <1>1, Untouched DEF LockLost
<1>4. CASE ~\A e \in k .. num_pages(h.mem.aligned) - 1 : h.flag[e] = 1
  <2>1. h' = [h EXCEPT !.flag = [e \in Entries |-> IF e \in Cleared(k) THEN 0 ELSE @[e]],
                       !.blocks = {b \in @ : b.base # k},
                       !.misused = @ \/ \E b \in h.blocks : k \in Pages(b) \ {b.base}]
    BY <1>4 DEF FreePage
  <2>2. /\ h'.mem = h.mem /\ h'.blocks = h.blocks \ gone
        /\ h'.misused = (h.misused \/ \E b \in h.blocks : k \in Pages(b) \ {b.base})
        /\ h'.refused = h.refused /\ h'.lock = h.lock /\ h'.pc = h.pc
        /\ h'.flag = [e \in 0 .. last |-> IF e \in Cleared(k) THEN 0 ELSE h.flag[e]]
    BY <2>1, <1>1, <1>2 DEF HeapTypeOK
  <2>3. HeapTypeOK'
    <3>1. h.flag \in [0 .. last -> 0 .. 2]
      BY <1>1 DEF HeapTypeOK
    <3>2. \A e \in 0 .. last : h.flag[e] \in 0 .. 2
      BY <3>1
    <3> HIDE DEF last
    <3>3. h'.flag \in [0 .. last -> 0 .. 2]
      BY <3>2, <2>2
    <3> USE DEF last
    <3>4. h'.misused \in BOOLEAN
      BY <2>2, <1>1 DEF HeapTypeOK
    <3>5. QED
      BY <2>1, <2>2, <3>3, <3>4, <1>1 DEF HeapTypeOK
  <2>4. LockLost'
    BY <1>1, <2>2 DEF LockLost
  <2>5. BlocksSound'
    <3> SUFFICES ASSUME ~h'.misused
                 PROVE  /\ \A b \in h'.blocks : b.len >= 1 /\ b.base + b.len - 1 <= last
                        /\ \A b, c \in h'.blocks : b # c => Pages(b) \cap Pages(c) = {}
                        /\ \A e \in 0 .. last : h'.flag[e] = FlagFor(h'.blocks, e)
      BY <2>2 DEF BlocksSound
    <3>1. ~h.misused /\ \A b \in h.blocks : k \in Pages(b) => b.base = k
      BY <2>2
    <3>2. /\ \A b \in h.blocks : b.base \in Nat /\ b.len \in Nat /\ b.len >= 1
                                 /\ b.base + b.len - 1 <= last
          /\ \A b, c \in h.blocks : b # c => Pages(b) \cap Pages(c) = {}
          /\ \A e \in 0 .. last : h.flag[e] = FlagFor(h.blocks, e)
      BY <1>1, <3>1 DEF BlocksSound, HeapTypeOK
    <3>3. k \in 0 .. last
      BY <1>2
    <3>4. \A b \in h.blocks : /\ b.base \in Pages(b) /\ b.base + b.len - 1 \in Pages(b)
                              /\ Pages(b) \subseteq 0 .. last
      BY <3>2, <1>2 DEF Pages
    <3>5. CASE gone = {}
      <4>1. \A b \in h.blocks : k \notin Pages(b)
        BY <3>5, <3>1
      <4>2. h.flag[k] = 0
        BY <4>1, <3>2, <3>3, <3>4 DEF FlagFor
      <4>3. h'.blocks = h.blocks
        BY <3>5, <2>2
      <4>4. \A e \in Cleared(k) : e = k
        BY <4>2, <1>2, <3>3 DEF Cleared
      <4>5. \A e \in 0 .. last : h'.flag[e] = h.flag[e]
        BY <4>2, <4>4, <2>2
      <4>6. QED
        BY <4>3, <4>5, <3>2
    <3>6. CASE gone # {}
      <4>1. PICK b \in h.blocks : b.base = k
        BY <3>6
      <4>2. \A c \in h.blocks : c.base = k => c = b
        BY <4>1, <3>2, <3>4
      <4>3. h'.blocks = h.blocks \ {b}
        BY <4>1, <4>2, <2>2
      <4>4. \A e \in k .. k + b.len - 2 : h.flag[e] = 1
        <5> SUFFICES ASSUME NEW e \in k .. k + b.len - 2 PROVE h.flag[e] = 1
          OBVIOUS
        <5>0. b.base \in Nat /\ b.len \in Nat /\ b.len >= 1 /\ b.base + b.len - 1 <= last /\ b.base = k
          BY <4>1, <3>2
        <5>1. e \in Pages(b) /\ e # b.base + b.len - 1 /\ e \in 0 .. last
          BY <5>0, <1>2 DEF Pages
        <5>2. \A c \in h.blocks : e # c.base + c.len - 1
          BY <5>1, <3>2, <3>4
        <5>3. FlagFor(h.blocks, e) = 1
          BY <5>1, <5>2 DEF FlagFor
        <5>4. QED
          BY <5>1, <5>3, <3>2
      <4>5. k + b.len - 1 \in 0 .. last /\ h.flag[k + b.len - 1] = 2
        BY <4>1, <3>2, <3>4 DEF FlagFor
      <4>6. \A e \in 0 .. last : e \in Cleared(k) <=> e \in Pages(b)
        <5> SUFFICES ASSUME NEW e \in 0 .. last
                     PROVE  e \in Cleared(k) <=> e \in k .. k + b.len - 1
          BY <4>1 DEF Pages
        <5>1. CASE e < k
          BY <5>1, <3>3, <1>2 DEF Cleared
        <5>2. CASE e \in k .. k + b.len - 1
          <6>1. \A n \in k .. e - 1 : h.flag[n] = 1
            BY <5>2, <4>4, <3>3, <1>2, <4>1, <3>2
          <6>2. QED
            BY <6>1, <5>2, <1>2, <3>3 DEF Cleared
        <5>3. CASE e > k + b.len - 1
          <6>1. k + b.len - 1 \in k .. e - 1 /\ h.flag[k + b.len - 1] # 1
            BY <5>3, <4>5, <3>3, <4>1, <3>2, <1>2
          <6>2. QED
            BY <6>1, <5>3, <3>3, <4>1, <3>2, <1>2 DEF Cleared
        <5>4. QED
          BY <5>1, <5>2, <5>3, <3>3, <4>1, <3>2, <1>2
      <4>7. ASSUME NEW e \in 0 .. last PROVE h'.flag[e] = FlagFor(h'.blocks, e)
        <5>1. CASE e \in Pages(b)
          <6>1. \A c \in h'.blocks : e \notin Pages(c) /\ e # c.base + c.len - 1
            BY <5>1, <4>3, <3>2, <3>4
          <6>2. FlagFor(h'.blocks, e) = 0
            BY <6>1 DEF FlagFor
          <6>3. QED
            BY <6>2, <5>1, <4>6, <2>2
        <5>2. CASE e \notin Pages(b)
          <6>1. FlagFor(h'.blocks, e) = FlagFor(h.blocks, e)
            BY <5>2, <4>3, <3>4 DEF FlagFor
          <6>2. QED
            BY <6>1, <5>2, <4>6, <2>2, <3>2
        <5>3. QED
          BY <5>1, <5>2
      <4>8. QED
        BY <4>3, <4>7, <3>2
    <3>7. QED
      BY <3>5, <3>6
  <2>6. QED
    BY <2>3, <2>4, <2>5 DEF Invariant
<1>5. QED
  BY <1>3, <1>4

\* The other steps leave the blocks alone, or are a misuse.
LEMMA OtherInvariant ==
  ASSUME Invariant,
         \/ \E n \in 1 .. MostPages : MallocFails(n)
         \/ MallocNothing \/ FreeRefused \/ FreeBehind \/ PrintMEM \/ Hang
  PROVE  Invariant'
<1>1. HeapTypeOK /\ BlocksSound /\ LockLost
  BY DEF Invariant
<1>2. CASE h' = h
  BY <1>1, <1>2, Untouched DEF HeapTypeOK, LockLost
<1>3. CASE h' = [h EXCEPT !.pc = "wild"]
  <2>1. /\ h'.mem = h.mem /\ h'.flag = h.flag /\ h'.blocks = h.blocks /\ h'.misused = h.misused
        /\ h'.refused = h.refused /\ h'.lock = h.lock /\ h'.pc = "wild"
    BY <1>1, <1>3 DEF HeapTypeOK
  <2>2. HeapTypeOK'
    BY <1>1, <1>3, <2>1 DEF HeapTypeOK
  <2>3. QED
    BY <1>1, <2>1, <2>2, Untouched DEF LockLost
<1>4. CASE MallocNothing
  <2>1. h' = [h EXCEPT !.misused = TRUE, !.blocks = @ \cup {[base |-> 0, len |-> 0]}]
    BY <1>4 DEF MallocNothing
  <2>2. /\ h'.mem = h.mem /\ h'.misused = TRUE
        /\ h'.refused = h.refused /\ h'.lock = h.lock /\ h'.pc = h.pc
    BY <1>1, <2>1 DEF HeapTypeOK
  <2>3. h'.blocks \in SUBSET [base : Nat, len : Nat] /\ h'.flag = h.flag
    BY <1>1, <2>1 DEF HeapTypeOK
  <2>4. HeapTypeOK'
    BY <1>1, <2>1, <2>2, <2>3 DEF HeapTypeOK
  <2>5. QED
    BY <1>1, <2>2, <2>4 DEF Invariant, BlocksSound, LockLost
<1>5. CASE FreeRefused
  <2>1. h' = [h EXCEPT !.refused = TRUE, !.lock = "free" \in h.mem.locks]
    BY <1>5 DEF FreeRefused
  <2>2. /\ h'.mem = h.mem /\ h'.flag = h.flag /\ h'.blocks = h.blocks /\ h'.misused = h.misused
        /\ h'.refused = TRUE /\ h'.lock = ("free" \in h.mem.locks) /\ h'.pc = h.pc /\ h.pc = "ready"
    BY <1>1, <1>5, <2>1 DEF HeapTypeOK, FreeRefused, Ready
  <2>3. HeapTypeOK'
    <3>1. ("free" \in h.mem.locks) \in BOOLEAN
      OBVIOUS
    <3>2. h' = [h EXCEPT !.refused = TRUE, !.lock = h'.lock] /\ h'.lock \in BOOLEAN
      BY <2>1, <2>2, <3>1
    <3> DEFINE lock == h'.lock
    <3> HIDE DEF lock
    <3>3. h' = [h EXCEPT !.refused = TRUE, !.lock = lock] /\ lock \in BOOLEAN
      BY <3>2 DEF lock
    <3>4. QED
      BY <1>1, <2>2, <3>3 DEF HeapTypeOK
  <2>4. LockLost'
    BY <1>1, <2>2, VersionFacts DEF HeapTypeOK, LockLost
  <2>5. QED
    BY <2>2, <2>3, <2>4, Untouched
<1>6. CASE Hang
  <2>1. h' = [h EXCEPT !.pc = "hung"] /\ h.lock
    BY <1>6 DEF Hang, Blocked
  <2>2. /\ h'.mem = h.mem /\ h'.flag = h.flag /\ h'.blocks = h.blocks /\ h'.misused = h.misused
        /\ h'.refused = h.refused /\ h'.lock = h.lock
    BY <1>1, <2>1 DEF HeapTypeOK
  <2>3. HeapTypeOK'
    BY <1>1, <2>1, <2>2 DEF HeapTypeOK
  <2>4. QED
    BY <1>1, <2>1, <2>2, <2>3, Untouched DEF LockLost
<1>7. QED
  BY <1>2, <1>3, <1>4, <1>5, <1>6 DEF MallocFails, FreeBehind, PrintMEM

\* mem.c of every snapshot keeps the invariant.
THEOREM HeapInvariant == HeapSpec => []Invariant
<1>1. HeapInit => Invariant
  BY InitInvariant
<1>2. Invariant /\ [HeapNext]_h => Invariant'
  <2> SUFFICES ASSUME Invariant, [HeapNext]_h PROVE Invariant'
    OBVIOUS
  <2>1. CASE HeapNext
    <3>1. CASE \E n \in 1 .. MostPages : Malloc(n)
      BY <3>1, MallocInvariant
    <3>2. CASE \E k \in Entries : FreePage(k)
      BY <3>2, FreeInvariant
    <3>3. CASE \/ \E n \in 1 .. MostPages : MallocFails(n)
               \/ MallocNothing \/ FreeRefused \/ FreeBehind \/ PrintMEM \/ Hang
      BY <3>3, OtherInvariant
    <3>4. QED
      BY <2>1, <3>1, <3>2, <3>3 DEF HeapNext
  <2>2. CASE UNCHANGED h
    BY <2>2, Untouched DEF Invariant, HeapTypeOK, LockLost
  <2>3. QED
    BY <2>1, <2>2
<1>3. QED
  BY <1>1, <1>2, PTL DEF HeapSpec

\* page_init() of every snapshot keeps the table and the pages apart and inside the
\* heap, whatever the sizes are.
THEOREM PagesAlwaysFit == HeapSpec => []PagesFit
<1>1. Invariant => PagesFit
  BY VersionFacts, Layout DEF Invariant, HeapTypeOK, PagesFit
<1>2. QED
  BY <1>1, HeapInvariant, PTL

\* The allocator's lock is lost on day 3-3 only, and by a free() that returns early.
THEOREM HangNeedsRefusal == HeapSpec => []HangsOnlyAfterRefusal
<1>1. Invariant => HangsOnlyAfterRefusal
  BY DEF Invariant, LockLost, HangsOnlyAfterRefusal
<1>2. QED
  BY <1>1, HeapInvariant, PTL

\* The layout fits, a lock is waited for in vain on day 3-3 only, and blocks of malloc()
\* are disjoint and the table describes exactly them, whatever is passed to free(), until
\* malloc(0) is called or the inside of a block is freed.
THEOREM HeapAlwaysSound == HeapSpec => []HeapSound
<1>1. Invariant => PagesFit
  BY VersionFacts, Layout DEF Invariant, HeapTypeOK, PagesFit
<1>2. Invariant => HangsOnlyAfterRefusal
  BY DEF Invariant, LockLost, HangsOnlyAfterRefusal
<1>3. Invariant => HeapSound
  <2> SUFFICES ASSUME Invariant, ~h.misused
               PROVE  /\ \A b, c \in h.blocks : b # c => Pages(b) \cap Pages(c) = {}
                      /\ \A e \in Entries :
                           h.flag[e] = IF \E b \in h.blocks : e = b.base + b.len - 1 THEN 2
                                       ELSE IF \E b \in h.blocks : e \in Pages(b) THEN 1 ELSE 0
    BY <1>1, <1>2 DEF HeapSound
  <2>1. QED
    BY DEF Invariant, BlocksSound, FlagFor, Entries, LastPage
<1>4. QED
  BY <1>3, HeapInvariant, PTL

----------------------------------------------------------------------------
(***************************************************************************)
(* The string functions (Strings)                                          *)
(***************************************************************************)
Bytes == DOMAIN Code

\* A string in memory: one NUL, at its end.
IsString(s) ==
  /\ s \in Seq(Bytes) /\ Len(s) > 0
  /\ \A k \in 1 .. Len(s) : s[k] = "NUL" <=> k = Len(s)

CallType ==
  [file : Strings, op : Copies \cup Scans, a : Seq(Bytes), b : Seq(Bytes), n : 0 .. Room,
   i : Nat \ {0}, dst : [1 .. Room -> Bytes \cup {"old", "c"}], pc : {"loop", "done"},
   result : Int \cup {"d", "s", "null"}]

\* A strdup() that got no memory.
NoMemory == w.pc = "done" /\ w.result = "null"

\* The bytes that a copy has to leave, and how many there are,
Length ==
  CASE w.op \in {"memset", "memcpy", "strncpy"} -> w.n
    [] w.op = "strdup" /\ NoMemory              -> 0
    [] OTHER                                    -> Len(w.a)

Byte(k) ==
  CASE w.op = "memset"  -> "c"
    [] w.op = "strncpy" -> IF k <= Len(w.a) THEN w.a[k] ELSE "NUL"
    [] OTHER            -> w.a[k]

\* and what it returns at its end.
Back == IF w.op = "memcpy" THEN w.file.memcpy ELSE "d"

\* A copy has left the bytes up to the one it is at,
CopyOK ==
  w.op \in Copies =>
    /\ Length <= Room
    /\ w.op = "memcpy" => w.n <= Len(w.a)
    /\ w.i <= Length + 1
    /\ \A k \in 1 .. Room : w.dst[k] = IF k < w.i THEN Byte(k) ELSE "old"
    /\ w.pc = "done" => /\ w.i = Length + 1
                        /\ w.result # Back => w.op = "strdup" /\ w.result = "null"

\* and a scan has passed the ones in front of it.
ScanOK ==
  w.op \in Scans =>
    /\ w.i <= Len(w.a)
    /\ \A k \in 1 .. w.i - 1 : w.a[k] # "NUL"
    /\ w.op = "strlen" /\ w.pc = "done" => w.a[w.i] = "NUL" /\ w.result = w.i - 1
    /\ w.op = "strcmp" =>
         /\ w.i <= Len(w.b)
         /\ \A k \in 1 .. w.i - 1 : w.a[k] = w.b[k]
         /\ w.pc = "done" => /\ w.a[w.i] = "NUL" \/ w.a[w.i] # w.b[w.i]
                             /\ w.result = Code[w.a[w.i]] - Code[w.b[w.i]]

CallInv == w \in CallType /\ IsString(w.a) /\ IsString(w.b) /\ CopyOK /\ ScanOK

-----------------------------------------------------------------------------
\* A text with its NUL is a string.
LEMMA TextsAreStrings ==
  ASSUME NEW s \in Seq(Chars)
  PROVE  IsString(Append(s, "NUL")) /\ Len(Append(s, "NUL")) = Len(s) + 1
<1>1. /\ Append(s, "NUL") \in Seq(Bytes) /\ Len(Append(s, "NUL")) = Len(s) + 1
  <2>1. s \in Seq(Bytes)
    BY DEF Chars, Bytes
  <2> QED BY <2>1, CodeAssumption DEF Bytes
<1>2. \A k \in 1 .. Len(s) : Append(s, "NUL")[k] = s[k] /\ s[k] # "NUL"
  BY DEF Chars
<1>3. Append(s, "NUL")[Len(s) + 1] = "NUL"
  OBVIOUS
<1> QED BY <1>1, <1>2, <1>3 DEF IsString

\* The versions know the functions of the library and no others.
LEMMA VersionsKnow ==
  ASSUME NEW file \in Strings
  PROVE  /\ file.has \subseteq Copies \cup Scans
         /\ file.memcpy = IF file = string51 THEN "s" ELSE "d"
BY DEF Strings, string51, string52, string53, string54, string6, Copies, Scans

LEMMA CallInit == StringInit => CallInv
<1> SUFFICES ASSUME StringInit PROVE CallInv
  OBVIOUS
<1> DEFINE Called(file, op, a, b, n) ==
             /\ op \notin {"strcmp"} => b = <<>>
             /\ op \in {"strlen", "strcmp", "strcpy", "strdup"} => n = 0
             /\ op = "memcpy" => n <= Len(a) + 1
             /\ op = "memset" => a = <<>>
             /\ op \in {"strcpy", "strdup"} => Len(a) < Room
             /\ w = [file |-> file, op |-> op, a |-> Append(a, "NUL"), b |-> Append(b, "NUL"), n |-> n,
                     i |-> 1, dst |-> [k \in 1 .. Room |-> "old"], pc |-> "loop", result |-> 0]
<1>a. \E file \in Strings : \E op \in file.has, a \in Texts, b \in Texts, n \in 0 .. Room :
        Called(file, op, a, b, n)
  BY DEF StringInit
<1> HIDE DEF Called
<1>b. PICK file \in Strings : \E op \in file.has, a \in Texts, b \in Texts, n \in 0 .. Room :
        Called(file, op, a, b, n)
  BY <1>a
<1>0. PICK op \in file.has, a \in Texts, b \in Texts, n \in 0 .. Room : Called(file, op, a, b, n)
  BY <1>b
<1>1. /\ op = "memcpy" => n <= Len(a) + 1
      /\ op \in {"strcpy", "strdup"} => Len(a) < Room
      /\ w = [file |-> file, op |-> op, a |-> Append(a, "NUL"), b |-> Append(b, "NUL"), n |-> n,
              i |-> 1, dst |-> [k \in 1 .. Room |-> "old"], pc |-> "loop", result |-> 0]
  BY <1>0 DEF Called
<1>2. a \in Seq(Chars) /\ b \in Seq(Chars) /\ Len(a) \in Nat
  BY StringsAssumption
<1>3. IsString(w.a) /\ IsString(w.b) /\ Len(w.a) = Len(a) + 1
  BY <1>1, <1>2, TextsAreStrings
<1>4. w \in CallType
  BY <1>1, <1>3, VersionsKnow, RoomAssumption DEF CallType, IsString
<1>5. CopyOK
  BY <1>1, <1>2, <1>3, RoomAssumption DEF CopyOK, Length, Copies
<1>6. ScanOK
  BY <1>1, <1>3 DEF ScanOK, IsString
<1> QED BY <1>3, <1>4, <1>5, <1>6 DEF CallInv

\* A copy writes the byte it has to write, or leaves at the end, or is a strdup()
\* without memory.
LEMMA CopyStep ==
  ASSUME CallInv, w.op \in Copies, w.pc = "loop",
         \/ w.i <= Length /\ Write(Byte(w.i))
         \/ w.i = Length + 1 /\ Leave(Back)
         \/ w.op = "strdup" /\ w.i = 1 /\ Leave("null")
  PROVE  CallInv'
<1>1. /\ w \in CallType /\ CopyOK /\ w.i \in Nat \ {0} /\ Length \in Nat /\ Length <= Room
      /\ w.n \in Nat /\ Len(w.a) \in Nat
  BY RoomAssumption DEF CallInv, CallType, CopyOK, Length, IsString
<1>2. w.op \notin Scans
  BY DEF Copies, Scans
<1>3. CASE w.i <= Length /\ Write(Byte(w.i))
  <2> DEFINE i == w.i
             c == Byte(w.i)
  <2>1. c \in Bytes \cup {"c"}
    BY <1>1, <1>3, CodeAssumption DEF Byte, Length, Bytes, CallInv, CopyOK, IsString, CallType
  <2>2. i \in 1 .. Room
    BY <1>1, <1>3, RoomAssumption
  <2>3. w' = [w EXCEPT !.dst = [w.dst EXCEPT ![i] = c], !.i = i + 1]
    BY <1>3 DEF Write
  <2> HIDE DEF c
  <2>4. /\ w' \in CallType
        /\ w'.op = w.op /\ w'.a = w.a /\ w'.b = w.b /\ w'.n = w.n /\ w'.pc = w.pc /\ w'.i = i + 1
        /\ w'.result = w.result /\ w'.file = w.file /\ w'.dst = [w.dst EXCEPT ![i] = c]
    <3> DEFINE d == [w.dst EXCEPT ![i] = c]
    <3>1. d \in [1 .. Room -> Bytes \cup {"old", "c"}]
      BY <1>1, <2>1, <2>2 DEF CallType
    <3>2. w' = [w EXCEPT !.dst = d, !.i = i + 1]
      BY <2>3
    <3> HIDE DEF d
    <3>3. /\ w' \in CallType /\ w'.dst = d /\ w'.result = w.result /\ w'.file = w.file
          /\ w'.op = w.op /\ w'.a = w.a /\ w'.b = w.b /\ w'.n = w.n /\ w'.pc = w.pc /\ w'.i = i + 1
      <4> DEFINE D == [1 .. Room -> Bytes \cup {"old", "c"}]
      <4>1. d \in D
        BY <3>1
      <4>2. w \in [file : Strings, op : Copies \cup Scans, a : Seq(Bytes), b : Seq(Bytes),
                    n : 0 .. Room, i : Nat \ {0}, dst : D, pc : {"loop", "done"},
                    result : Int \cup {"d", "s", "null"}]
        BY <1>1 DEF CallType
      <4> HIDE DEF D
      <4>3. i + 1 \in Nat \ {0}
        BY <1>1
      <4>4. w' \in [file : Strings, op : Copies \cup Scans, a : Seq(Bytes), b : Seq(Bytes),
                     n : 0 .. Room, i : Nat \ {0}, dst : D, pc : {"loop", "done"},
                     result : Int \cup {"d", "s", "null"}]
        BY <3>2, <4>1, <4>2, <4>3
      <4>5. /\ w'.dst = d /\ w'.i = i + 1 /\ w'.result = w.result /\ w'.file = w.file
            /\ w'.op = w.op /\ w'.a = w.a /\ w'.b = w.b /\ w'.n = w.n /\ w'.pc = w.pc
        BY <3>2, <4>2
      <4> QED BY <4>4, <4>5 DEF CallType, D
    <3> QED BY <3>3 DEF d
  <2>5. Length' = Length /\ \A k : Byte(k)' = Byte(k)
    BY <2>4 DEF Length, Byte, NoMemory
  <2>6. \A k \in 1 .. Room : w'.dst[k] = IF k < i + 1 THEN Byte(k) ELSE "old"
    <3>1. \A k \in 1 .. Room : w.dst[k] = IF k < i THEN Byte(k) ELSE "old"
      BY <1>1 DEF CopyOK
    <3>2. w.dst \in [1 .. Room -> Bytes \cup {"old", "c"}]
      BY <1>1 DEF CallType
    <3>3. \A k \in 1 .. Room : w'.dst[k] = IF k = i THEN c ELSE w.dst[k]
      BY <2>2, <2>4, <3>2
    <3> QED BY <1>1, <3>1, <3>3 DEF c
  <2>7. CopyOK'
    BY <1>1, <1>3, <2>4, <2>5, <2>6 DEF CopyOK, IsString
  <2> QED BY <1>2, <2>4, <2>7 DEF CallInv, ScanOK, IsString
<1>4. CASE w.i = Length + 1 /\ Leave(Back)
  <2>1. w' = [w EXCEPT !.pc = "done", !.result = Back] /\ Back \in {"d", "s"}
    BY <1>1, <1>4, VersionsKnow DEF Leave, Back, CallType
  <2>2. /\ w' \in CallType
        /\ w'.op = w.op /\ w'.a = w.a /\ w'.b = w.b /\ w'.n = w.n /\ w'.i = w.i /\ w'.dst = w.dst
        /\ w'.file = w.file /\ w'.pc = "done" /\ w'.result = Back
    BY <1>1, <2>1 DEF CallType
  <2>3. Length' = Length /\ (\A k : Byte(k)' = Byte(k)) /\ Back' = Back
    <3>1. ~NoMemory /\ ~NoMemory'
      BY <2>1, <2>2 DEF NoMemory
    <3> QED BY <2>2, <3>1 DEF Length, Byte, Back
  <2>4. CopyOK'
    BY <1>1, <1>4, <2>2, <2>3 DEF CopyOK
  <2> QED BY <1>2, <2>2, <2>4 DEF CallInv, ScanOK, IsString
<1>5. CASE w.op = "strdup" /\ w.i = 1 /\ Leave("null")
  <2>1. w' = [w EXCEPT !.pc = "done", !.result = "null"]
    BY <1>5 DEF Leave
  <2>2. /\ w' \in CallType
        /\ w'.op = w.op /\ w'.a = w.a /\ w'.b = w.b /\ w'.n = w.n /\ w'.i = 1 /\ w'.dst = w.dst
        /\ w'.pc = "done" /\ w'.result = "null"
    BY <1>1, <1>5, <2>1 DEF CallType
  <2>3. Length' = 0
    BY <1>5, <2>2 DEF Length, NoMemory
  <2>4. \A k \in 1 .. Room : w.dst[k] = "old"
    BY <1>1, <1>5 DEF CopyOK
  <2>5. CopyOK'
    BY <1>5, <2>2, <2>3, <2>4, RoomAssumption DEF CopyOK
  <2> QED BY <1>2, <2>2, <2>5 DEF CallInv, ScanOK, IsString
<1> QED BY <1>3, <1>4, <1>5

\* The copying functions do that.
LEMMA CopiesCopy ==
  ASSUME CallInv, memset \/ memcpy \/ strcpy \/ strncpy \/ strdup
  PROVE  CallInv'
<1>1. /\ w \in CallType /\ CopyOK /\ w.i \in Nat \ {0} /\ w.n \in 0 .. Room /\ Len(w.a) \in Nat
      /\ IsString(w.a) /\ w.file \in Strings
  BY DEF CallInv, CallType, IsString
<1>2. w.op \in Copies /\ w.pc = "loop"
  BY DEF memset, memcpy, strcpy, strncpy, strdup, Copies
<1>3. /\ w.i <= Length + 1 /\ (w.op = "memcpy" => w.n <= Len(w.a)) /\ Length <= Room
      /\ \A k \in 1 .. Room : w.dst[k] = IF k < w.i THEN Byte(k) ELSE "old"
  BY <1>1, <1>2 DEF CopyOK
<1>4. CASE memset
  BY <1>1, <1>2, <1>3, <1>4, CopyStep DEF memset, Length, Byte, Back
<1>5. CASE memcpy
  BY <1>1, <1>2, <1>3, <1>5, CopyStep DEF memcpy, Length, Byte, Back
<1>6. CASE strcpy
  <2>1. w.op = "strcpy" /\ Length = Len(w.a) /\ Byte(w.i) = w.a[w.i]
    BY <1>6 DEF strcpy, Length, Byte
  <2>2. w.i > 1 /\ w.a[w.i - 1] = "NUL" <=> w.i = Length + 1
    BY <1>1, <1>3, <2>1 DEF IsString
  <2> QED BY <1>1, <1>2, <1>3, <1>6, <2>1, <2>2, CopyStep DEF strcpy, Back
<1>7. CASE strncpy
  BY <1>1, <1>2, <1>3, <1>7, CopyStep DEF strncpy, Length, Byte, Back
<1>8. CASE strdup
  <2>1. w.op = "strdup" /\ Length = Len(w.a) /\ \A k : Byte(k) = w.a[k]
    BY <1>2, <1>8 DEF strdup, Length, Byte, NoMemory
  <2>2. w.i > 1 => w.dst[w.i - 1] = w.a[w.i - 1]
    BY <1>1, <1>3, <2>1, RoomAssumption
  <2>3. w.i > 1 /\ w.dst[w.i - 1] = "NUL" <=> w.i = Length + 1
    BY <1>1, <1>3, <2>1, <2>2 DEF IsString
  <2> QED BY <1>1, <1>2, <1>3, <1>8, <2>1, <2>3, CopyStep DEF strdup, Back
<1> QED BY <1>4, <1>5, <1>6, <1>7, <1>8

\* The scans stop at the NUL at the latest.
LEMMA ScansScan ==
  ASSUME CallInv, strlen \/ strcmp
  PROVE  CallInv'
<1>1. /\ w \in CallType /\ ScanOK /\ w.i \in Nat \ {0} /\ Len(w.a) \in Nat /\ Len(w.b) \in Nat
      /\ IsString(w.a) /\ IsString(w.b)
  BY DEF CallInv, CallType, IsString
<1>2. w.op \in Scans /\ w.op \notin Copies /\ w.pc = "loop" /\ w.i \in 1 .. Len(w.a)
  BY <1>1 DEF strlen, strcmp, Scans, Copies, ScanOK
<1>3. ASSUME w' = [w EXCEPT !.i = @ + 1]
      PROVE  /\ w' \in CallType /\ w'.i = w.i + 1
             /\ w'.op = w.op /\ w'.a = w.a /\ w'.b = w.b /\ w'.pc = w.pc
  BY <1>1, <1>3 DEF CallType
<1>4. ASSUME NEW r \in Int, Leave(r)
      PROVE  /\ w' \in CallType /\ w'.i = w.i /\ w'.result = r
             /\ w'.op = w.op /\ w'.a = w.a /\ w'.b = w.b
  BY <1>1, <1>4 DEF CallType, Leave
<1>5. CASE strlen
  <2>1. w.op = "strlen"
    BY <1>5 DEF strlen
  <2>2. CASE w.a[w.i] # "NUL"
    <3>1. w' = [w EXCEPT !.i = @ + 1]
      BY <1>5, <2>2 DEF strlen
    <3>2. ScanOK'
      BY <1>1, <1>2, <1>3, <2>1, <2>2, <3>1 DEF ScanOK, IsString
    <3> QED BY <1>1, <1>2, <1>3, <3>1, <3>2 DEF CallInv, CopyOK, IsString
  <2>3. CASE w.a[w.i] = "NUL"
    <3>1. Leave(w.i - 1) /\ w.i - 1 \in Int
      BY <1>1, <1>5, <2>3 DEF strlen
    <3>2. ScanOK'
      BY <1>1, <1>2, <1>4, <2>1, <2>3, <3>1 DEF ScanOK
    <3> QED BY <1>1, <1>2, <1>4, <3>1, <3>2 DEF CallInv, CopyOK, IsString
  <2> QED BY <2>2, <2>3
<1>6. CASE strcmp
  <2>1. w.op = "strcmp" /\ w.i \in 1 .. Len(w.b)
    BY <1>1, <1>2, <1>6 DEF strcmp, ScanOK
  <2>2. CASE w.a[w.i] # "NUL" /\ w.a[w.i] = w.b[w.i]
    <3>1. w' = [w EXCEPT !.i = @ + 1]
      BY <1>6, <2>2 DEF strcmp
    <3>2. ScanOK'
      <4>1. /\ w'.i = w.i + 1 /\ w'.a = w.a /\ w'.b = w.b /\ w'.op = "strcmp" /\ w'.pc = "loop"
        BY <1>2, <1>3, <2>1, <3>1
      <4>2. w.i + 1 <= Len(w.a) /\ w.i + 1 <= Len(w.b)
        <5>1. w.i # Len(w.a) /\ w.i # Len(w.b)
          BY <1>1, <1>2, <2>1, <2>2 DEF IsString
        <5> QED BY <1>1, <1>2, <2>1, <5>1
      <4>3. \A k \in 1 .. (w.i + 1) - 1 : w.a[k] # "NUL" /\ w.a[k] = w.b[k]
        <5>1. \A k \in 1 .. w.i - 1 : w.a[k] # "NUL" /\ w.a[k] = w.b[k]
          BY <1>1, <1>2, <2>1 DEF ScanOK
        <5>2. \A k \in 1 .. (w.i + 1) - 1 : k \in 1 .. w.i - 1 \/ k = w.i
          <6>1. w.i \in Nat \ {0}
            BY <1>1
          <6> QED BY <6>1
        <5> QED BY <2>2, <5>1, <5>2
      <4> QED BY <4>1, <4>2, <4>3 DEF ScanOK
    <3> QED BY <1>1, <1>2, <1>3, <3>1, <3>2 DEF CallInv, CopyOK, IsString
  <2>3. CASE ~(w.a[w.i] # "NUL" /\ w.a[w.i] = w.b[w.i])
    <3>1. w.a[w.i] \in Bytes /\ w.b[w.i] \in Bytes
      BY <1>1, <1>2, <2>1 DEF CallType
    <3>2. Leave(Code[w.a[w.i]] - Code[w.b[w.i]]) /\ Code[w.a[w.i]] - Code[w.b[w.i]] \in Int
      BY <1>6, <2>3, <3>1, CodeAssumption DEF strcmp, Bytes
    <3>3. ScanOK'
      BY <1>1, <1>2, <1>4, <2>1, <2>3, <3>2 DEF ScanOK
    <3> QED BY <1>1, <1>2, <1>4, <3>2, <3>3 DEF CallInv, CopyOK, IsString
  <2> QED BY <2>2, <2>3
<1> QED BY <1>5, <1>6

\* The inductive invariant of the calls.
THEOREM CallInvariance == StringSpec => []CallInv
<1>1. CallInv /\ [StringNext]_w => CallInv'
  <2> SUFFICES ASSUME CallInv, [StringNext]_w PROVE CallInv'
    OBVIOUS
  <2>1. CASE UNCHANGED w
    BY <2>1 DEF CallInv, CopyOK, ScanOK, Length, NoMemory, Byte, Back, IsString
  <2> QED BY <2>1, CopiesCopy, ScansScan DEF StringNext
<1> QED BY <1>1, CallInit, PTL DEF StringSpec

-----------------------------------------------------------------------------
\* What a copy has to leave has these bytes.
LEMMA WantedIs ==
  ASSUME CallInv, w.op \in Copies, w.pc = "done"
  PROVE  Len(Wanted) = Length /\ \A k \in 1 .. Length : Wanted[k] = Byte(k)
<1>1. /\ w.n \in Nat /\ w.a \in Seq(Bytes) /\ Len(w.a) \in Nat
      /\ w.op \in {"memset", "memcpy", "strcpy", "strncpy", "strdup"}
      /\ w.op = "memcpy" => w.n <= Len(w.a)
  BY RoomAssumption DEF CallInv, CallType, CopyOK, Copies
<1>2. CASE w.op = "memset"
  <2>1. Wanted = [k \in 1 .. w.n |-> "c"]
    BY <1>2 DEF Wanted
  <2> QED BY <1>1, <1>2, <2>1 DEF Length, Byte
<1>3. CASE w.op = "memcpy"
  <2>1. Wanted = SubSeq(w.a, 1, w.n)
    BY <1>3 DEF Wanted
  <2> QED BY <1>1, <1>3, <2>1 DEF Length, Byte
<1>4. CASE w.op = "strncpy"
  <2>1. Wanted = [k \in 1 .. w.n |-> IF k <= Len(w.a) THEN w.a[k] ELSE "NUL"]
    BY <1>4 DEF Wanted
  <2>2. Len(Wanted) = w.n
    BY <1>1, <2>1
  <2> QED BY <1>1, <1>4, <2>1, <2>2 DEF Length, Byte
<1>5. CASE w.op \in {"strcpy", "strdup"}
  <2>1. CASE w.op = "strdup" /\ w.result = "null"
    BY <2>1 DEF Wanted, Length, NoMemory
  <2> QED BY <1>5, <2>1 DEF Wanted, Length, Byte, NoMemory
<1> QED BY <1>1, <1>2, <1>3, <1>4, <1>5

\* The copies: from CopyOK at the end, and ScanOK for where the scans read.
LEMMA CopiesAreRight == CallInv => CopiesWhatItShould
<1> SUFFICES ASSUME CallInv PROVE CopiesWhatItShould
  OBVIOUS
<1>1. /\ CopyOK /\ ScanOK /\ w.i \in Nat \ {0} /\ Length \in Nat /\ w.n \in Nat /\ Len(w.a) \in Nat
  BY RoomAssumption DEF CallInv, CallType, Length
<1>2. w.op \in Copies => w.i \in 1 .. Room + 1
  BY <1>1, RoomAssumption DEF CopyOK
<1>3. w.op \in Scans => w.i <= Len(w.a) /\ (w.op = "strcmp" => w.i <= Len(w.b))
  BY <1>1 DEF ScanOK
<1>4. ASSUME w.op \in Copies, w.pc = "done", NEW k \in 1 .. Room
      PROVE  w.dst[k] = IF k <= Len(Wanted) THEN Wanted[k] ELSE "old"
  <2>1. Len(Wanted) = Length /\ \A j \in 1 .. Length : Wanted[j] = Byte(j)
    BY <1>4, WantedIs
  <2>2. w.i = Length + 1 /\ w.dst[k] = IF k < w.i THEN Byte(k) ELSE "old"
    BY <1>1, <1>4 DEF CopyOK
  <2> QED BY <1>1, <2>1, <2>2
<1> QED BY <1>2, <1>3, <1>4 DEF CopiesWhatItShould

\* What it gives back: from CopyOK at the end.
LEMMA CopyGivenBack == CallInv => GivesBackCopy
<1> SUFFICES ASSUME CallInv, w.op \in Copies, w.pc = "done" PROVE GivesBackCopy
  BY DEF GivesBackCopy
<1>1. (w.result # Back => w.op = "strdup" /\ w.result = "null") /\ w.file \in Strings
  BY DEF CallInv, CopyOK, CallType
<1> QED BY <1>1, VersionsKnow DEF GivesBackCopy, Back

\* The order of two strings is the one of the characters at their first difference.
LEMMA LessAt ==
  ASSUME NEW a \in Seq(Bytes), NEW b \in Seq(Bytes), NEW i \in Nat \ {0},
         i <= Len(a), i <= Len(b), \A k \in 1 .. i - 1 : a[k] = b[k],
         a[i] = b[i] => i = Len(a) /\ i = Len(b)
  PROVE  Less(a, b) <=> Code[a[i]] < Code[b[i]]
<1>1. ASSUME Code[a[i]] < Code[b[i]] PROVE Less(a, b)
  <2>1. i \in DOMAIN a \cap DOMAIN b
    OBVIOUS
  <2> QED BY <1>1, <2>1 DEF Less
<1>2. ASSUME Less(a, b) PROVE Code[a[i]] < Code[b[i]]
  <2>1. PICK k \in DOMAIN a \cap DOMAIN b :
          Code[a[k]] < Code[b[k]] /\ \A n \in 1 .. k - 1 : a[n] = b[n]
    BY <1>2 DEF Less
  <2>2. k \in 1 .. Len(a) /\ k \in 1 .. Len(b) /\ Code[a[k]] \in Nat /\ Code[b[k]] \in Nat
    BY CodeAssumption DEF Bytes
  <2>3. ~(k < i)
    BY <2>1, <2>2
  <2>4. ~(k > i)
    BY <2>1, <2>2
  <2> QED BY <2>1, <2>2, <2>3, <2>4
<1> QED BY <1>1, <1>2

\* strlen() and strcmp(): from ScanOK at the end.
LEMMA ScansAreRight == CallInv => ScansAgree
<1> SUFFICES ASSUME CallInv, w.pc = "done" PROVE ScansAgree
  BY DEF ScansAgree
<1>1. /\ ScanOK /\ IsString(w.a) /\ IsString(w.b) /\ w.i \in Nat \ {0}
      /\ w.a \in Seq(Bytes) /\ w.b \in Seq(Bytes) /\ Len(w.a) \in Nat /\ Len(w.b) \in Nat
  BY DEF CallInv, CallType, IsString
<1>2. ASSUME w.op = "strlen" PROVE w.result = Len(w.a) - 1
  <2>1. w.i \in 1 .. Len(w.a) /\ w.a[w.i] = "NUL" /\ w.result = w.i - 1
    BY <1>1, <1>2 DEF ScanOK, Scans
  <2> QED BY <1>1, <2>1 DEF IsString
<1>3. ASSUME w.op = "strcmp"
      PROVE  /\ w.result = 0 <=> w.a = w.b
             /\ w.result < 0 <=> Less(w.a, w.b)
             /\ w.result > 0 <=> Less(w.b, w.a)
  <2> DEFINE i == w.i
             x == Code[w.a[i]]
             y == Code[w.b[i]]
  <2>1. /\ i \in 1 .. Len(w.a) /\ i \in 1 .. Len(w.b) /\ \A k \in 1 .. i - 1 : w.a[k] # "NUL"
        /\ \A k \in 1 .. i - 1 : w.a[k] = w.b[k]
        /\ w.a[i] = "NUL" \/ w.a[i] # w.b[i]
        /\ w.result = x - y
    BY <1>1, <1>3 DEF ScanOK, Scans
  <2>2. w.a[i] \in Bytes /\ w.b[i] \in Bytes /\ x \in Nat /\ y \in Nat
    BY <1>1, <2>1, CodeAssumption DEF Bytes
  <2>3. x = y <=> w.a[i] = w.b[i]
    BY <2>2, CodeAssumption DEF Bytes
  <2> HIDE DEF x, y
  <2>4. x = y <=> w.a = w.b
    <3>1. ASSUME x = y PROVE w.a = w.b
      <4>1. w.a[i] = "NUL" /\ w.b[i] = "NUL"
        BY <2>1, <2>3, <3>1
      <4>2. i = Len(w.a) /\ i = Len(w.b)
        BY <1>1, <2>1, <4>1 DEF IsString
      <4>3. \A k \in 1 .. i : w.a[k] = w.b[k]
        BY <2>1, <4>1
      <4> QED BY <1>1, <4>2, <4>3, SeqEqual
    <3>2. ASSUME w.a = w.b PROVE x = y
      BY <3>2 DEF x, y
    <3> QED BY <3>1, <3>2
  <2>5. w.a[i] = w.b[i] => i = Len(w.a) /\ i = Len(w.b)
    BY <1>1, <2>1 DEF IsString
  <2>6. (x < y <=> Less(w.a, w.b)) /\ (y < x <=> Less(w.b, w.a))
    <3>1. Less(w.a, w.b) <=> Code[w.a[i]] < Code[w.b[i]]
      <4>1. /\ w.a \in Seq(Bytes) /\ w.b \in Seq(Bytes) /\ i \in Nat \ {0}
            /\ i <= Len(w.a) /\ i <= Len(w.b) /\ \A k \in 1 .. i - 1 : w.a[k] = w.b[k]
            /\ w.a[i] = w.b[i] => i = Len(w.a) /\ i = Len(w.b)
        BY <1>1, <2>1, <2>5
      <4> QED BY <4>1, LessAt, Zenon
    <3>2. Less(w.b, w.a) <=> Code[w.b[i]] < Code[w.a[i]]
      <4>1. /\ w.a \in Seq(Bytes) /\ w.b \in Seq(Bytes) /\ i \in Nat \ {0}
            /\ i <= Len(w.a) /\ i <= Len(w.b) /\ \A k \in 1 .. i - 1 : w.b[k] = w.a[k]
            /\ w.b[i] = w.a[i] => i = Len(w.b) /\ i = Len(w.a)
        BY <1>1, <2>1, <2>5
      <4> QED BY <4>1, LessAt, Zenon
    <3> QED BY <3>1, <3>2 DEF x, y
  <2> QED BY <2>1, <2>2, <2>4, <2>6
<1> QED BY <1>2, <1>3 DEF ScansAgree

\* The functions of string.c do what the standard library's do: a copy changes the
\* bytes it has to and no others and gives itself back (with the exception of memcpy()
\* of days 5-1 and 5-2), no loop reads behind a NUL, and the scans count and order
\* the strings.
THEOREM StringsAreRight == StringSpec => []StringsRight
<1>1. CallInv => StringsRight
  BY CopiesAreRight, CopyGivenBack, ScansAreRight DEF StringsRight
<1> QED BY <1>1, CallInvariance, PTL
-----------------------------------------------------------------------------
(* strtok_r(): the starts of names are counted, in front of each position. *)

Before(p, k) == Rank(Starts(p), k)

LEMMA StartsCounted ==
  ASSUME NEW p \in Seq(Chars)
  PROVE  /\ Starts(p) \subseteq 1 .. Len(p) /\ Len(p) \in Nat /\ Cardinality(Starts(p)) \in Nat
         /\ \A k : Before(p, k) \in Nat /\ Before(p, k) <= Cardinality(Starts(p))
<1>1. Starts(p) \subseteq 1 .. Len(p) /\ Len(p) \in Nat
  BY DEF Starts
<1> QED BY <1>1, RankFacts DEF Before

\* None more begins where no name begins,
LEMMA NoneMore ==
  ASSUME NEW p \in Seq(Chars), NEW k \in Nat, k \notin Starts(p)
  PROVE  Before(p, k + 1) = Before(p, k)
<1>1. Starts(p) \subseteq 1 .. Len(p) /\ Len(p) \in Nat /\ k + 1 \in Nat /\ k <= k + 1
  BY StartsCounted
<1>2. \A j \in k .. (k + 1) - 1 : j \notin Starts(p)
  OBVIOUS
<1>3. Rank(Starts(p), k + 1) = Rank(Starts(p), k)
  BY <1>1, <1>2, RankSame
<1> QED BY <1>3 DEF Before

\* and all of them begin in front of the end.
LEMMA AllBefore ==
  ASSUME NEW p \in Seq(Chars)
  PROVE  Before(p, Len(p) + 1) = Cardinality(Starts(p)) /\ Before(p, 1) = 0
BY StartsCounted, RankFacts DEF Before

\* Behind a name there is one more.
LEMMA OneMoreBehind ==
  ASSUME NEW p \in Seq(Chars), NEW k \in Starts(p), NEW s \in k + 1 .. Len(p) + 1,
         \A j \in k .. s - 1 : p[j] # "/"
  PROVE  /\ Before(p, s) = Before(p, k) + 1
         /\ s <= Len(p) /\ p[s] = "/" => Before(p, s + 1) = Before(p, k) + 1
<1>1. k \in 1 .. Len(p) /\ s \in Nat
  BY StartsCounted
<1>2. \A j \in k + 1 .. s - 1 : j \notin Starts(p)
  <2> SUFFICES ASSUME NEW j \in k + 1 .. s - 1, j \in Starts(p) PROVE FALSE
    OBVIOUS
  <2>1. j - 1 \in k .. s - 1 /\ j # 1
    BY <1>1
  <2> QED BY <2>1 DEF Starts
<1>3. Before(p, s) = Before(p, k) + 1
  <2>1. Rank(Starts(p), s) = Rank(Starts(p), k) + 1
    BY <1>1, <1>2, StartsCounted, RankBehind
  <2> QED BY <2>1 DEF Before
<1>4. s <= Len(p) /\ p[s] = "/" => Before(p, s + 1) = Before(p, s)
  BY <1>1, NoneMore DEF Starts
<1> QED BY <1>3, <1>4

\* The name that begins at a start is the one behind the names that begin before it.
LEMMA NameOfStart ==
  ASSUME NEW p \in Seq(Chars), NEW k \in Starts(p)
  PROVE  /\ Before(p, k) + 1 \in 1 .. Cardinality(Starts(p))
         /\ Names(p)[Before(p, k) + 1] = NameAt(p, k)
<1>1. /\ Before(p, k) + 1 \in 1 .. Cardinality(Starts(p))
      /\ Nth(Starts(p), Before(p, k) + 1) = k
  BY StartsCounted, NthIs DEF Before
<1> QED BY <1>1 DEF Names

\* Where the name at a start ends.
LEMMA EndOfName ==
  ASSUME NEW p \in Seq(Chars), NEW k \in 1 .. Len(p), NEW e \in k .. Len(p),
         e = Len(p) \/ p[e + 1] = "/", \A n \in k .. e : p[n] # "/"
  PROVE  NameEnd(p, k) = e
<1> DEFINE P(j) == /\ j = Len(p) \/ p[j + 1] = "/"
                   /\ \A n \in k .. j : p[n] # "/"
           c == CHOOSE j \in k .. Len(p) : P(j)
<1>1. c \in k .. Len(p) /\ P(c)
  <2>1. e \in k .. Len(p) /\ P(e)
    OBVIOUS
  <2> QED BY <2>1
<1>2. NameEnd(p, k) = c
  BY DEF NameEnd
<1> HIDE DEF c
<1>3. ~(c < e) /\ ~(e < c)
  BY <1>1
<1> QED BY <1>1, <1>2, <1>3

\* The bytes of the copy are those of the path from a position on.
Same(p, temp, from) ==
  \A k \in from .. Len(p) + 1 : temp[k] = IF k <= Len(p) THEN p[k] ELSE "NUL"

\* What the caller reads at its token is the name, once a NUL is behind it.
LEMMA TokenIsName ==
  ASSUME NEW p \in Seq(Chars), NEW temp \in Seq(Bytes), Len(temp) = Len(p) + 1,
         NEW k \in Starts(p), NEW s \in k + 1 .. Len(p) + 1,
         temp[s] = "NUL", \A n \in k .. s - 1 : temp[n] = p[n] /\ p[n] # "/",
         s = Len(p) + 1 \/ p[s] = "/"
  PROVE  StringAt(temp, k) = NameAt(p, k) /\ StringAt(temp, k) \in Seq(Bytes)
<1>1. k \in 1 .. Len(p) /\ Len(p) \in Nat
  BY StartsCounted
<1>2. NameEnd(p, k) = s - 1
  BY <1>1, EndOfName
<1>3. \A n \in k .. s - 1 : temp[n] # "NUL"
  BY <1>1 DEF Chars
<1> DEFINE P(j) == temp[j] = "NUL" /\ \A n \in k .. j - 1 : temp[n] # "NUL"
           c == CHOOSE j \in k .. Len(temp) : P(j)
<1>4. c \in k .. Len(temp) /\ P(c)
  <2>1. s \in k .. Len(temp) /\ P(s)
    BY <1>1, <1>3
  <2> QED BY <2>1
<1>5. StringAt(temp, k) = SubSeq(temp, k, c)
  BY DEF StringAt
<1> HIDE DEF c
<1>6. c = s
  <2>1. ~(c < s) /\ ~(s < c)
    BY <1>1, <1>3, <1>4
  <2> QED BY <1>1, <1>4, <2>1
<1> DEFINE u == SubSeq(temp, k, s)
           v == SubSeq(p, k, s - 1)
           x == Append(v, "NUL")
<1>7. /\ u \in Seq(Bytes) /\ Len(u) = s - k + 1
      /\ \A n \in 1 .. s - k + 1 : u[n] = temp[k + n - 1]
  BY <1>1
<1>8. v \in Seq(Bytes) /\ Len(v) = s - k /\ \A n \in 1 .. s - k : v[n] = p[k + n - 1]
  <2>1. p \in Seq(Bytes)
    BY DEF Chars, Bytes
  <2> QED BY <1>1, <2>1
<1> HIDE DEF u, v
<1>9. /\ x \in Seq(Bytes) /\ Len(x) = s - k + 1 /\ x[s - k + 1] = "NUL"
      /\ \A n \in 1 .. s - k : x[n] = v[n]
  <2>1. "NUL" \in Bytes
    BY CodeAssumption DEF Bytes
  <2>2. x \in Seq(Bytes) /\ Len(x) = Len(v) + 1 /\ x[Len(v) + 1] = "NUL"
    BY <1>8, <2>1
  <2>3. \A n \in 1 .. Len(v) : x[n] = v[n]
    BY <1>8
  <2> QED BY <1>8, <2>2, <2>3
<1> HIDE DEF x
<1>10. \A n \in 1 .. Len(u) : u[n] = x[n]
  <2> SUFFICES ASSUME NEW n \in 1 .. s - k + 1 PROVE u[n] = x[n]
    BY <1>7
  <2>1. CASE n = s - k + 1
    BY <1>1, <1>7, <1>9, <2>1
  <2>2. CASE n \in 1 .. s - k
    <3>1. k + n - 1 \in k .. s - 1
      BY <1>1, <2>2
    <3> QED BY <1>7, <1>8, <1>9, <2>2, <3>1
  <2> QED BY <1>1, <2>1, <2>2
<1>11. u = x
  BY <1>7, <1>9, <1>10, SeqEqual
<1> QED BY <1>2, <1>5, <1>6, <1>7, <1>11 DEF u, v, x, NameAt

-----------------------------------------------------------------------------
(* A walk along a path.                                                    *)

Tokens == Seq(Seq(Bytes))

WalkType ==
  [path : Walked, temp : Seq(Bytes), pc : {"skip", "scan", "caller"}, s : Nat \ {0}, tok : Nat,
   last : Nat, tokens : Tokens]

\* The search for the next of n names may go on at position k.
Resumes(p, temp, n, k) ==
  /\ k \in 1 .. Len(p) + 1 /\ (k = 1 \/ p[k - 1] = "/")
  /\ n = Before(p, k) /\ Same(p, temp, k)

\* The token that begins at k and that the scan at position m is in.
Scanned(p, temp, n, k, m) ==
  /\ k \in Starts(p) /\ m \in k + 1 .. Len(p) + 1
  /\ \A j \in k .. m - 1 : p[j] # "/"
  /\ n = Before(p, k) /\ Same(p, temp, k)

WalkOK(u) ==
  /\ u \in WalkType /\ Len(u.temp) = Len(u.path) + 1
  /\ Len(u.tokens) <= Cardinality(Starts(u.path))
  /\ \A n \in 1 .. Len(u.tokens) : u.tokens[n] = Names(u.path)[n]
  /\ u.pc = "skip" => Resumes(u.path, u.temp, Len(u.tokens), u.s)
  /\ u.pc = "scan" => Scanned(u.path, u.temp, Len(u.tokens), u.tok, u.s)
  /\ u.pc = "caller" /\ u.tok # 0 /\ u.last # 0 =>
       Resumes(u.path, u.temp, Len(u.tokens), u.last)
  /\ u.pc = "caller" /\ (u.tok = 0 \/ u.last = 0) =>
       Len(u.tokens) = Cardinality(Starts(u.path))

WalkInv == WalkOK(t)

Begun(path, last) ==
  [path |-> path, temp |-> Append(path, "NUL"), pc |-> "skip", s |-> 1, tok |-> 0,
   last |-> last, tokens |-> <<>>]

\* A walk that begins, whatever an earlier one left in last.
LEMMA WalkBegins ==
  ASSUME NEW path \in Walked, NEW last \in Nat
  PROVE  WalkOK(Begun(path, last))
<1> DEFINE temp == Append(path, "NUL")
           u == [path |-> path, temp |-> temp, pc |-> "skip", s |-> 1, tok |-> 0,
                 last |-> last, tokens |-> <<>>]
<1>1. path \in Seq(Chars) /\ Len(path) \in Nat
  BY StringsAssumption DEF Walked
<1>2. temp \in Seq(Bytes) /\ Len(temp) = Len(path) + 1
  BY <1>1, TextsAreStrings DEF IsString
<1>3. Begun(path, last) = u
  BY DEF Begun
<1>4. Resumes(path, temp, 0, 1)
  BY <1>1, AllBefore DEF Resumes, Same
<1> HIDE DEF temp
<1>5. u \in WalkType
  <2>1. <<>> \in Tokens /\ "skip" \in {"skip", "scan", "caller"} /\ 1 \in Nat \ {0} /\ 0 \in Nat
    BY DEF Tokens
  <2> QED BY <1>2, <2>1 DEF WalkType
<1>6. Len(u.tokens) = 0 /\ Cardinality(Starts(path)) \in Nat
  BY <1>1, StartsCounted
<1>7. u.path = path /\ u.temp = temp /\ u.pc = "skip" /\ u.s = 1
  OBVIOUS
<1> HIDE DEF u
<1>8. WalkOK(u)
  BY <1>2, <1>4, <1>5, <1>6, <1>7 DEF WalkOK
<1> QED BY <1>3, <1>8

\* What the search and the scan read is the path with its NUL.
LEMMA Reads ==
  ASSUME WalkInv, t.pc \in {"skip", "scan"}
  PROVE  /\ t.path \in Seq(Chars) /\ Len(t.path) \in Nat /\ t.s \in 1 .. Len(t.path) + 1
         /\ t.temp[t.s] = "NUL" <=> t.s = Len(t.path) + 1
         /\ t.s # Len(t.path) + 1 => t.temp[t.s] = t.path[t.s]
<1>1. t.path \in Seq(Chars) /\ Len(t.path) \in Nat
  BY StringsAssumption DEF WalkInv, WalkOK, WalkType, Walked
<1>2. \A k \in 1 .. Len(t.path) : t.path[k] # "NUL"
  BY <1>1 DEF Chars
<1>3. /\ t.s \in 1 .. Len(t.path) + 1
      /\ t.temp[t.s] = IF t.s <= Len(t.path) THEN t.path[t.s] ELSE "NUL"
  <2>1. CASE t.pc = "skip"
    BY <1>1, <2>1 DEF WalkInv, WalkOK, Resumes, Same
  <2>2. CASE t.pc = "scan"
    <3>1. Scanned(t.path, t.temp, Len(t.tokens), t.tok, t.s) /\ t.tok \in 1 .. Len(t.path)
      BY <1>1, <2>2, StartsCounted DEF WalkInv, WalkOK, Scanned
    <3> QED BY <1>1, <3>1 DEF Scanned, Same
  <2> QED BY <2>1, <2>2
<1> QED BY <1>1, <1>2, <1>3

\* The search for a token.
LEMMA Searches ==
  ASSUME WalkInv, SkipDelimiter \/ NoTokenLeft \/ BeginToken
  PROVE  WalkInv'
<1>1. /\ t \in WalkType /\ t.pc = "skip" /\ Resumes(t.path, t.temp, Len(t.tokens), t.s)
      /\ Len(t.temp) = Len(t.path) + 1 /\ Len(t.tokens) <= Cardinality(Starts(t.path))
      /\ \A n \in 1 .. Len(t.tokens) : t.tokens[n] = Names(t.path)[n]
  BY DEF SkipDelimiter, NoTokenLeft, BeginToken, WalkInv, WalkOK
<1>2. /\ t.path \in Seq(Chars) /\ Len(t.path) \in Nat /\ t.s \in 1 .. Len(t.path) + 1
      /\ t.temp[t.s] = "NUL" <=> t.s = Len(t.path) + 1
      /\ t.s # Len(t.path) + 1 => t.temp[t.s] = t.path[t.s]
  BY <1>1, Reads
<1>6. t.s \in Nat /\ t.s + 1 \in Nat \ {0}
  BY <1>2
<1>3. CASE SkipDelimiter
  <2>1. /\ t' \in WalkType /\ t'.path = t.path /\ t'.temp = t.temp /\ t'.pc = "skip"
        /\ t'.s = t.s + 1 /\ t'.tokens = t.tokens
    BY <1>1, <1>3 DEF SkipDelimiter, WalkType
  <2>2. t.s \in 1 .. Len(t.path) /\ t.path[t.s] = "/"
    BY <1>2, <1>3 DEF SkipDelimiter
  <2>3. Before(t.path, t.s + 1) = Before(t.path, t.s)
    BY <1>2, <2>2, NoneMore DEF Starts
  <2>6. t.s + 1 \in 1 .. Len(t.path) + 1 /\ (t.s + 1) - 1 = t.s
    BY <1>2, <2>2
  <2>4. Same(t.path, t.temp, t.s + 1)
    BY <1>1, <1>2 DEF Resumes, Same
  <2>5. Resumes(t.path, t.temp, Len(t.tokens), t.s + 1)
    BY <1>1, <2>2, <2>3, <2>4, <2>6 DEF Resumes
  <2> QED BY <1>1, <2>1, <2>5 DEF WalkInv, WalkOK
<1>4. CASE NoTokenLeft
  <2>1. /\ t' \in WalkType /\ t'.path = t.path /\ t'.temp = t.temp /\ t'.pc = "caller"
        /\ t'.tok = 0 /\ t'.tokens = t.tokens
    BY <1>1, <1>4, <1>6 DEF NoTokenLeft, WalkType
  <2>2. t.s = Len(t.path) + 1
    BY <1>2, <1>4 DEF NoTokenLeft
  <2>3. Len(t.tokens) = Cardinality(Starts(t.path))
    BY <1>1, <1>2, <2>2, AllBefore DEF Resumes
  <2> QED BY <1>1, <2>1, <2>3 DEF WalkInv, WalkOK
<1>5. CASE BeginToken
  <2>1. /\ t' \in WalkType /\ t'.path = t.path /\ t'.temp = t.temp /\ t'.pc = "scan"
        /\ t'.tok = t.s /\ t'.s = t.s + 1 /\ t'.tokens = t.tokens
    BY <1>1, <1>5, <1>6 DEF BeginToken, WalkType
  <2>2. t.s \in Starts(t.path)
    BY <1>1, <1>2, <1>5 DEF BeginToken, Resumes, Starts
  <2>3. Scanned(t.path, t.temp, Len(t.tokens), t.s, t.s + 1)
    BY <1>1, <1>2, <2>2 DEF Resumes, Scanned, Starts
  <2> QED BY <1>1, <2>1, <2>3 DEF WalkInv, WalkOK
<1> QED BY <1>3, <1>4, <1>5

\* A token that is handed out is the next name.
LEMMA TokenEnds ==
  ASSUME WalkInv, t.pc = "scan", NEW temp \in Seq(Bytes), NEW last, Returned(temp, last),
         Len(temp) = Len(t.path) + 1, temp[t.s] = "NUL",
         \A n \in t.tok .. Len(t.path) + 1 : n # t.s => temp[n] = t.temp[n],
         \/ last = 0 /\ t.s = Len(t.path) + 1
         \/ last = t.s + 1 /\ t.s <= Len(t.path) /\ t.path[t.s] = "/"
  PROVE  WalkInv'
<1>1. /\ t \in WalkType /\ Scanned(t.path, t.temp, Len(t.tokens), t.tok, t.s)
      /\ \A n \in 1 .. Len(t.tokens) : t.tokens[n] = Names(t.path)[n]
  BY DEF WalkInv, WalkOK
<1>2. t.path \in Seq(Chars) /\ Len(t.path) \in Nat /\ t.s \in 1 .. Len(t.path) + 1
  BY Reads
<1> PICK p \in Seq(Chars) : p = t.path
  BY <1>2
<1> PICK k \in Starts(p) : k = t.tok
  BY <1>1 DEF Scanned
<1> PICK s \in k + 1 .. Len(p) + 1 : s = t.s
  BY <1>1 DEF Scanned
<1>3. /\ \A j \in k .. s - 1 : p[j] # "/"
      /\ Len(t.tokens) = Before(p, k) /\ Same(p, t.temp, k)
      /\ k \in 1 .. Len(p) /\ Len(p) \in Nat /\ s \in Nat
  BY <1>1, <1>2, StartsCounted DEF Scanned
<1>here. /\ temp[s] = "NUL" /\ Len(temp) = Len(p) + 1
       /\ \A n \in k .. Len(p) + 1 : n # s => temp[n] = t.temp[n]
       /\ \/ last = 0 /\ s = Len(p) + 1
          \/ last = s + 1 /\ s <= Len(p) /\ p[s] = "/"
  OBVIOUS
<1>4. \A n \in k .. s - 1 : temp[n] = p[n]
  <2> SUFFICES ASSUME NEW n \in k .. s - 1 PROVE temp[n] = p[n]
    OBVIOUS
  <2>0. k \in Nat /\ s \in Nat /\ Len(p) \in Nat /\ s <= Len(p) + 1
    BY <1>3
  <2>1. n \in k .. Len(p) + 1 /\ n <= Len(p) /\ n # s
    BY <2>0
  <2>2. temp[n] = t.temp[n]
    BY <1>here, <2>1
  <2> QED BY <1>3, <2>1, <2>2 DEF Same
<1>5. StringAt(temp, k) = NameAt(p, k) /\ StringAt(temp, k) \in Seq(Bytes)
  <2>1. /\ Len(temp) = Len(p) + 1 /\ temp[s] = "NUL"
        /\ \A n \in k .. s - 1 : temp[n] = p[n] /\ p[n] # "/"
        /\ s = Len(p) + 1 \/ p[s] = "/"
    BY <1>3, <1>4, <1>here
  <2> QED BY <2>1, TokenIsName, Zenon
<1>6. /\ Before(p, k) + 1 \in 1 .. Cardinality(Starts(p))
      /\ Names(p)[Before(p, k) + 1] = StringAt(temp, k)
  BY <1>5, NameOfStart
<1> DEFINE token == StringAt(temp, k)
           tokens == Append(t.tokens, token)
<1>7. t' = [t EXCEPT !.temp = temp, !.last = last, !.pc = "caller", !.s = s + 1, !.tokens = tokens]
  BY DEF Returned
<1>8. t.tokens \in Tokens /\ token \in Seq(Bytes) /\ last \in Nat
  BY <1>1, <1>3, <1>5, <1>here DEF WalkType
<1> HIDE DEF token
<1>9. /\ tokens \in Tokens /\ Len(tokens) = Len(t.tokens) + 1
      /\ tokens[Len(t.tokens) + 1] = token /\ \A n \in 1 .. Len(t.tokens) : tokens[n] = t.tokens[n]
  BY <1>8 DEF Tokens
<1> HIDE DEF tokens
<1>10. /\ t' \in WalkType /\ t'.path = p /\ t'.temp = temp /\ t'.last = last /\ t'.pc = "caller"
       /\ t'.tok = k /\ t'.tokens = tokens
  <2>1. s + 1 \in Nat \ {0}
    BY <1>3
  <2> QED BY <1>1, <1>7, <1>8, <1>9, <2>1 DEF WalkType
<1>11. \A n \in 1 .. Len(tokens) : tokens[n] = Names(p)[n]
  <2> SUFFICES ASSUME NEW n \in 1 .. Len(t.tokens) + 1 PROVE tokens[n] = Names(p)[n]
    BY <1>9
  <2>1. Len(t.tokens) \in Nat
    BY <1>8 DEF Tokens
  <2>2. CASE n = Len(t.tokens) + 1
    BY <1>3, <1>6, <1>9, <2>2 DEF token
  <2>3. CASE n \in 1 .. Len(t.tokens)
    BY <1>1, <1>9, <2>3
  <2> QED BY <2>1, <2>2, <2>3
<1>12. CASE last = 0 /\ s = Len(p) + 1
  <2>1. Len(tokens) = Cardinality(Starts(p))
    <3>1. Before(p, s) = Before(p, k) + 1
      BY <1>3, OneMoreBehind
    <3>2. Before(p, s) = Cardinality(Starts(p))
      BY <1>12, AllBefore
    <3> QED BY <1>3, <1>9, <3>1, <3>2
  <2> QED BY <1>3, <1>10, <1>11, <1>12, <1>here, <2>1, StartsCounted DEF WalkInv, WalkOK
<1>13. CASE last = s + 1 /\ s <= Len(p) /\ p[s] = "/"
  <2>2. Len(tokens) = Before(p, s + 1)
    BY <1>3, <1>9, <1>13, OneMoreBehind
  <2>3. Same(p, temp, s + 1)
    <3>1. \A n \in s + 1 .. Len(p) + 1 : n \in k .. Len(p) + 1 /\ n # s
      BY <1>3
    <3> QED BY <1>3, <1>here, <3>1 DEF Same
  <2>4. Resumes(p, temp, Len(tokens), last)
    <3>0. s \in Nat /\ Len(p) \in Nat /\ s <= Len(p)
      BY <1>3, <1>13
    <3>1. s + 1 \in 1 .. Len(p) + 1 /\ (s + 1) - 1 = s
      BY <3>0
    <3>2. Resumes(p, temp, Len(tokens), s + 1)
      BY <1>13, <2>2, <2>3, <3>1 DEF Resumes
    <3> QED BY <1>13, <3>2
  <2> QED BY <1>3, <1>6, <1>9, <1>10, <1>11, <1>13, <1>here, <2>4 DEF WalkInv, WalkOK
<1> QED BY <1>12, <1>13, <1>here

\* The scan for the end of a token.
LEMMA ScansToken ==
  ASSUME WalkInv, ScanToken \/ EndToken \/ EndString
  PROVE  WalkInv'
<1>1. /\ t \in WalkType /\ t.pc = "scan" /\ Scanned(t.path, t.temp, Len(t.tokens), t.tok, t.s)
      /\ Len(t.temp) = Len(t.path) + 1 /\ Len(t.tokens) <= Cardinality(Starts(t.path))
      /\ \A n \in 1 .. Len(t.tokens) : t.tokens[n] = Names(t.path)[n]
  BY DEF ScanToken, EndToken, EndString, WalkInv, WalkOK
<1>2. /\ t.path \in Seq(Chars) /\ Len(t.path) \in Nat /\ t.s \in 1 .. Len(t.path) + 1
      /\ t.temp[t.s] = "NUL" <=> t.s = Len(t.path) + 1
      /\ t.s # Len(t.path) + 1 => t.temp[t.s] = t.path[t.s]
      /\ t.tok \in 1 .. Len(t.path) /\ t.temp \in Seq(Bytes)
  BY <1>1, Reads, StartsCounted DEF Scanned, WalkType
<1>3. CASE ScanToken
  <2>1. /\ t' \in WalkType /\ t'.path = t.path /\ t'.temp = t.temp /\ t'.pc = "scan"
        /\ t'.tok = t.tok /\ t'.s = t.s + 1 /\ t'.tokens = t.tokens
    <3>1. t.s + 1 \in Nat \ {0} /\ t' = [t EXCEPT !.s = @ + 1]
      BY <1>2, <1>3 DEF ScanToken
    <3> QED BY <1>1, <1>3, <3>1 DEF ScanToken, WalkType
  <2>2. t.s \in 1 .. Len(t.path) /\ t.path[t.s] # "/"
    BY <1>2, <1>3 DEF ScanToken
  <2>3. Scanned(t.path, t.temp, Len(t.tokens), t.tok, t.s + 1)
    BY <1>1, <1>2, <2>2 DEF Scanned
  <2> QED BY <1>1, <2>1, <2>3 DEF WalkInv, WalkOK
<1>4. CASE EndToken
  <2> DEFINE temp == [t.temp EXCEPT ![t.s] = "NUL"]
  <2>1. Returned(temp, t.s + 1) /\ t.s <= Len(t.path) /\ t.path[t.s] = "/"
    BY <1>2, <1>4 DEF EndToken
  <2>2. /\ temp \in Seq(Bytes) /\ Len(temp) = Len(t.path) + 1 /\ temp[t.s] = "NUL"
        /\ \A n \in 1 .. Len(t.path) + 1 : n # t.s => temp[n] = t.temp[n]
    BY <1>1, <1>2, CodeAssumption DEF Bytes
  <2> HIDE DEF temp
  <2> QED BY <1>1, <1>2, <2>1, <2>2, TokenEnds
<1>5. CASE EndString
  <2>1. Returned(t.temp, 0) /\ t.temp[t.s] = "NUL" /\ t.s = Len(t.path) + 1
    BY <1>2, <1>5 DEF EndString
  <2> QED BY <1>1, <1>2, <2>1, TokenEnds
<1> QED BY <1>3, <1>4, <1>5

\* The caller: it goes on with the path, or with another one.
LEMMA CallerGoesOn ==
  ASSUME WalkInv, NextToken \/ \E path \in Walked : NextPath(path)
  PROVE  WalkInv'
<1>1. /\ t \in WalkType /\ t.pc = "caller"
      /\ Len(t.temp) = Len(t.path) + 1 /\ Len(t.tokens) <= Cardinality(Starts(t.path))
      /\ \A n \in 1 .. Len(t.tokens) : t.tokens[n] = Names(t.path)[n]
  BY DEF NextToken, NextPath, WalkInv, WalkOK
<1>2. CASE \E path \in Walked : NextPath(path)
  <2>1. PICK path \in Walked : t' = [FindInode(path) EXCEPT !.last = t.last]
    BY <1>2 DEF NextPath
  <2>2. t.last \in Nat
    BY <1>1 DEF WalkType
  <2>3. t' = Begun(path, t.last)
    BY <2>1 DEF FindInode, Begun
  <2> QED BY <2>2, <2>3, WalkBegins DEF WalkInv
<1>3. CASE NextToken /\ t.last = 0
  <2>1. /\ t' \in WalkType /\ t'.path = t.path /\ t'.temp = t.temp /\ t'.pc = "caller"
        /\ t'.tok = 0 /\ t'.tokens = t.tokens
    BY <1>1, <1>3 DEF NextToken, WalkType
  <2> QED BY <1>1, <1>3, <2>1 DEF WalkInv, WalkOK
<1>4. CASE NextToken /\ t.last # 0
  <2>1. /\ t' \in WalkType /\ t'.path = t.path /\ t'.temp = t.temp /\ t'.pc = "skip"
        /\ t'.s = t.last /\ t'.tokens = t.tokens
    BY <1>1, <1>4 DEF NextToken, WalkType
  <2>2. Resumes(t.path, t.temp, Len(t.tokens), t.last)
    BY <1>1, <1>4 DEF NextToken, WalkInv, WalkOK
  <2> QED BY <1>1, <2>1, <2>2 DEF WalkInv, WalkOK
<1> QED BY <1>2, <1>3, <1>4

\* The inductive invariant of the walks.
THEOREM WalkInvariance == StrtokSpec => []WalkInv
<1>1. StrtokInit => WalkInv
  <2> SUFFICES ASSUME NEW path \in Walked, t = FindInode(path) PROVE WalkInv
    BY DEF StrtokInit
  <2>1. t = Begun(path, 0)
    BY DEF FindInode, Begun
  <2> QED BY <2>1, WalkBegins DEF WalkInv
<1>2. WalkInv /\ [StrtokNext]_t => WalkInv'
  <2> SUFFICES ASSUME WalkInv, [StrtokNext]_t PROVE WalkInv'
    OBVIOUS
  <2>1. CASE UNCHANGED t
    BY <2>1 DEF WalkInv, WalkOK
  <2> QED BY <2>1, Searches, ScansToken, CallerGoesOn DEF StrtokNext
<1> QED BY <1>1, <1>2, PTL DEF StrtokSpec

\* strtok_r() hands its caller the names along the path one by one, in order and
\* all of them, and never reads behind the path's NUL, for every path and whatever
\* walks were given up in the middle before.
THEOREM TokensAreTheNames == StrtokSpec => []TokensAreNames
<1>1. WalkInv => TokensAreNames
  <2> SUFFICES ASSUME WalkInv PROVE TokensAreNames
    OBVIOUS
  <2>1. /\ t.path \in Seq(Chars) /\ t.tokens \in Tokens /\ Len(t.path) \in Nat
        /\ Cardinality(Starts(t.path)) \in Nat
    BY StringsAssumption, StartsCounted DEF WalkInv, WalkOK, WalkType, Walked
  <2> DEFINE names == Names(t.path)
             m == Len(t.tokens)
  <2>2. /\ names \in Seq({names[n] : n \in 1 .. Cardinality(Starts(t.path))})
        /\ Len(names) = Cardinality(Starts(t.path))
    BY <2>1 DEF Names
  <2>3. m \in Nat /\ m <= Len(names) /\ \A n \in 1 .. m : t.tokens[n] = names[n]
    BY <2>1, <2>2 DEF WalkInv, WalkOK
  <2> HIDE DEF names
  <2>4. SubSeq(t.tokens, 1, m) = SubSeq(names, 1, m)
    BY <2>1, <2>2, <2>3
  <2>5. m = Len(names) => t.tokens = names
    <3>1. SubSeq(t.tokens, 1, m) = t.tokens /\ SubSeq(names, 1, Len(names)) = names
      BY <2>1, <2>2, SubSeqFull DEF Tokens
    <3> QED BY <2>4, <3>1
  <2> QED BY <2>1, <2>2, <2>3, <2>4, <2>5, Reads DEF TokensAreNames, IsPrefix, WalkInv, WalkOK, Resumes, names
<1> QED BY <1>1, WalkInvariance, PTL

----------------------------------------------------------------------------
(***************************************************************************)
(* printf() (Printf)                                                       *)
(***************************************************************************)
\* The least of some numbers is one of them.
LEMMA LeastIsIn ==
  ASSUME NEW S, S \subseteq Nat, S # {}
  PROVE  Min(S) \in S /\ \A k \in S : Min(S) <= k
<1>1. PICK d \in S : \A e \in S : ~ (<<e, d>> \in OpToRel(<, Nat))
  BY WFMin, NatLessThanWellFounded
<1>2. \A e \in S : ~ (e < d)
  BY <1>1 DEF OpToRel
<1>3. \A e \in S : d <= e
  BY <1>2
<1> QED BY <1>3 DEF Min

\* What holds at zero and goes on from each number to the next holds of all.
LEMMA Climbs ==
  ASSUME NEW N \in Nat, NEW G, 0 \in G, \A k \in 1 .. N : k - 1 \in G => k \in G
  PROVE  \A k \in 0 .. N : k \in G
<1> DEFINE S == {k \in 0 .. N : k \notin G}
           m == Min(S)
<1> SUFFICES ASSUME S # {} PROVE FALSE
  OBVIOUS
<1>1. m \in S /\ \A k \in S : m <= k
  <2>1. S \subseteq Nat
    OBVIOUS
  <2> HIDE DEF S
  <2> QED BY <2>1, LeastIsIn
<1> HIDE DEF m
<1>2. m \in 1 .. N /\ m - 1 \in 0 .. N
  BY <1>1
<1>3. m - 1 \notin S
  <2>1. ~(m <= m - 1)
    BY <1>2
  <2> HIDE DEF S
  <2> QED BY <1>1, <2>1
<1> QED BY <1>1, <1>2, <1>3

\* A value can be handed on from turn to turn.
LEMMA Iterates ==
  ASSUME NEW a \in Int, NEW F \in [Int -> Int], NEW N \in Nat
  PROVE  \E g \in [0 .. N -> Int] : g[0] = a /\ \A k \in 1 .. N : g[k] = F[g[k - 1]]
<1> DEFINE Runs(g, n) == g[0] = a /\ \A k \in 1 .. n : g[k] = F[g[k - 1]]
           S == {n \in Nat : ~ \E g \in [0 .. n -> Int] : Runs(g, n)}
<1> SUFFICES ASSUME N \in S PROVE FALSE
  OBVIOUS
<1> DEFINE m == Min(S)
<1>1. m \in S /\ \A k \in S : m <= k
  <2>1. S \subseteq Nat /\ S # {}
    OBVIOUS
  <2> HIDE DEF S
  <2> QED BY <2>1, LeastIsIn
<1>2. m \in Nat /\ ~ \E g \in [0 .. m -> Int] : Runs(g, m)
  BY <1>1
<1>3. m # 0
  <2> DEFINE g == [k \in 0 .. 0 |-> a]
  <2>1. g \in [0 .. 0 -> Int] /\ Runs(g, 0)
    OBVIOUS
  <2> HIDE DEF g, m, Runs
  <2> QED BY <1>2, <2>1
<1>4. PICK g \in [0 .. m - 1 -> Int] : Runs(g, m - 1)
  <2>0. m \in Nat
    BY <1>2
  <2> HIDE DEF m, S, Runs
  <2>1. m - 1 \in Nat /\ ~(m <= m - 1)
    BY <2>0, <1>3
  <2>2. m - 1 \notin S
    BY <1>1, <2>1
  <2> USE DEF S
  <2> QED BY <2>1, <2>2
<1> DEFINE u == [k \in 0 .. m |-> IF k = m THEN F[g[m - 1]] ELSE g[k]]
<1> HIDE DEF m
<1>5. u \in [0 .. m -> Int]
  <2>1. m - 1 \in 0 .. m - 1 /\ g[m - 1] \in Int /\ F[g[m - 1]] \in Int
    BY <1>2, <1>3, <1>4
  <2>2. ASSUME NEW k \in 0 .. m
        PROVE  (IF k = m THEN F[g[m - 1]] ELSE g[k]) \in Int
    <3>1. k # m => k \in 0 .. m - 1
      BY <1>2, <2>2
    <3> QED BY <1>4, <2>1, <3>1
  <2> QED BY <2>2
<1>6. u[0] = a
  BY <1>2, <1>3, <1>4
<1>7. \A k \in 1 .. m : u[k] = F[u[k - 1]]
  <2> SUFFICES ASSUME NEW k \in 1 .. m PROVE u[k] = F[u[k - 1]]
    OBVIOUS
  <2>1. k \in 0 .. m /\ k - 1 \in 0 .. m /\ k - 1 # m /\ (k # m => k \in 1 .. m - 1)
    BY <1>2
  <2>2. u[k - 1] = g[k - 1]
    BY <2>1
  <2> QED BY <1>4, <2>1, <2>2
<1> QED BY <1>2, <1>5, <1>6, <1>7

-----------------------------------------------------------------------------
(* Division and remainder, by a divisor that is not known.                 *)

\* What a division leaves adds up with what it takes.
LEMMA DivisionIs ==
  ASSUME NEW m \in Nat \ {0}, NEW x \in Int
  PROVE  \E q \in Int, r \in 0 .. m - 1 : r = x % m /\ x = m * q + r
<1> DEFINE q == x \div m
           r == x % m
<1>1. q \in Int /\ r \in 0 .. m - 1
  <2>1. q \in Int
    OBVIOUS
  <2>2. r \in 0 .. m - 1
    OBVIOUS
  <2> QED BY <2>1, <2>2
<1>2. ASSUME NEW a \in Int, NEW b \in Int, a = q, b = r
      PROVE  x = m * a + b
  BY <1>2
<1> HIDE DEF q, r
<1>3. x = m * q + r
  BY <1>1, <1>2
<1> QED BY <1>1, <1>3 DEF r

\* A remainder is known by what it adds up to.
LEMMA OneRemainder ==
  ASSUME NEW m \in Nat \ {0}, NEW v \in Int, NEW r \in 0 .. m - 1
  PROVE  (m * v + r) % m = r
<1>1. PICK u \in Int, s \in 0 .. m - 1 : s = (m * v + r) % m /\ m * v + r = m * u + s
  <2>1. m * v + r \in Int
    OBVIOUS
  <2> QED BY <2>1, DivisionIs
<1>2. m * (v - u) = s - r
  BY <1>1
<1>3. v - u >= 1 => m * (v - u) >= m
  OBVIOUS
<1>4. v - u <= -1 => m * (v - u) <= -m
  OBVIOUS
<1>5. v = u
  BY <1>2, <1>3, <1>4
<1> QED BY <1>1, <1>5

\* The low bits of a number are those of its low bits.
LEMMA RemainderTwice ==
  ASSUME NEW m \in Nat \ {0}, NEW k \in Nat \ {0}, NEW x \in Int
  PROVE  (x % (m * k)) % m = x % m
<1> DEFINE n == m * k
<1>1. n \in Nat \ {0}
  OBVIOUS
<1>2. PICK a \in Int, u \in 0 .. n - 1 : u = x % n /\ x = n * a + u
  <2> HIDE DEF n
  <2> QED BY <1>1, DivisionIs
<1>3. PICK b \in Int, r \in 0 .. m - 1 : r = u % m /\ u = m * b + r
  <2>1. u \in Int
    BY <1>1
  <2> QED BY <2>1, DivisionIs
<1> DEFINE y == k * a + b
<1>4. y \in Int /\ x = m * y + r
  BY <1>2, <1>3
<1>5. x % m = r
  <2> HIDE DEF y
  <2> QED BY <1>4, OneRemainder
<1> QED BY <1>2, <1>3, <1>5

\* A divisor of the half divides the whole.
LEMMA DoublesDivide ==
  ASSUME NEW m \in Nat \ {0}, NEW n \in Nat \ {0}, n % m = 0
  PROVE  \E k \in Nat \ {0} : 2 * n = (2 * m) * k
<1>1. PICK q \in Int, r \in 0 .. m - 1 : r = n % m /\ n = m * q + r
  BY DivisionIs
<1>2. n = m * q
  BY <1>1
<1>3. q > 0
  <2>1. q <= 0 => m * q <= 0
    OBVIOUS
  <2> QED BY <1>2, <2>1
<1> QED BY <1>2, <1>3

-----------------------------------------------------------------------------
(* Digits.                                                                 *)

\* The bases that printf() prints in.
Bases == {10, 16}

\* A division of C by a base comes nearer to zero.
LEMMA DivisionFacts ==
  ASSUME NEW v \in Int, NEW base \in Bases
  PROVE  /\ CDiv(v, base) \in Int /\ Abs(v) \in Nat /\ CMod(v, base) = v - base * CDiv(v, base)
         /\ v # 0 => Abs(CDiv(v, base)) < Abs(v)
         /\ v = 0 => CDiv(v, base) = 0
         /\ v >= 0 => CDiv(v, base) >= 0 /\ CMod(v, base) \in 0 .. base - 1
<1>1. CASE base = 10
  BY <1>1 DEF CDiv, CMod, Abs
<1>2. CASE base = 16
  BY <1>2 DEF CDiv, CMod, Abs
<1> QED BY <1>1, <1>2 DEF Bases

\* The quotients are divided from one to the next.
LEMMA QuotientsAre ==
  ASSUME NEW v \in Int, NEW base \in Bases
  PROVE  /\ Quotients(v, base) \in [0 .. Abs(v) -> Int]
         /\ Quotients(v, base)[0] = v
         /\ \A k \in 1 .. Abs(v) : Quotients(v, base)[k] = CDiv(Quotients(v, base)[k - 1], base)
<1> DEFINE R(g) == g = [k \in 0 .. Abs(v) |-> IF k = 0 THEN v ELSE CDiv(g[k - 1], base)]
           q == CHOOSE g : R(g)
<1>1. Quotients(v, base) = q
  BY DEF Quotients
<1>2. Abs(v) \in Nat
  BY DivisionFacts
<1>3. PICK g \in [0 .. Abs(v) -> Int] :
        g[0] = v /\ \A k \in 1 .. Abs(v) : g[k] = CDiv(g[k - 1], base)
  <2> DEFINE F == [x \in Int |-> CDiv(x, base)]
  <2>1. F \in [Int -> Int]
    BY DivisionFacts
  <2>2. PICK g \in [0 .. Abs(v) -> Int] :
          g[0] = v /\ \A k \in 1 .. Abs(v) : g[k] = F[g[k - 1]]
    <3>1. ASSUME NEW G \in [Int -> Int], NEW N \in Nat
          PROVE  \E g \in [0 .. N -> Int] : g[0] = v /\ \A k \in 1 .. N : g[k] = G[g[k - 1]]
      BY Iterates
    <3> HIDE DEF F
    <3> QED BY <1>2, <2>1, <3>1
  <2>3. \A k \in 1 .. Abs(v) : g[k - 1] \in Int
    BY <1>2
  <2> QED BY <2>2, <2>3
<1>4. R(g)
  BY <1>2, <1>3
<1>5. R(q)
  BY <1>4
<1> HIDE DEF q
<1>6. \A k \in 0 .. Abs(v) : q[k] = IF k = 0 THEN v ELSE CDiv(q[k - 1], base)
  BY <1>5
<1>7. q[0] = v /\ \A k \in 1 .. Abs(v) : q[k] = CDiv(q[k - 1], base)
  BY <1>2, <1>6
<1>8. \A k \in 0 .. Abs(v) : q[k] = g[k]
  <2> DEFINE G == {k \in 0 .. Abs(v) : q[k] = g[k]}
  <2>1. 0 \in G
    BY <1>2, <1>3, <1>7
  <2>2. ASSUME NEW k \in 1 .. Abs(v), k - 1 \in G PROVE k \in G
    <3>1. k \in 0 .. Abs(v)
      BY <1>2
    <3> QED BY <1>3, <1>7, <2>2, <3>1
  <2>3. \A k \in 0 .. Abs(v) : k \in G
    <3> HIDE DEF G
    <3> QED BY <1>2, <2>1, <2>2, Climbs
  <2> QED BY <2>3
<1>9. q = [k \in 0 .. Abs(v) |-> IF k = 0 THEN v ELSE CDiv(q[k - 1], base)]
  BY <1>5
<1>10. q \in [0 .. Abs(v) -> Int]
  BY <1>3, <1>8, <1>9
<1> QED BY <1>1, <1>7, <1>10

\* A positive number is used up after as many turns as there are digits.
LEMMA QuotientsEnd ==
  ASSUME NEW v \in Nat \ {0}, NEW base \in Bases
  PROVE  \E n \in Nat \ {0} :
           LET q == Quotients(v, base)
           IN  /\ n = LastTurn(q, v) /\ n <= v
               /\ q[0] = v /\ q[n] = 0 /\ q[n - 1] # 0
               /\ \A k \in 0 .. n : q[k] \in Nat
               /\ \A k \in 1 .. n : q[k] = CDiv(q[k - 1], base)
<1> DEFINE q == Quotients(v, base)
           T == {j \in 0 .. v : q[j] = 0}
           n == Min(T)
<1>1. Abs(v) = v
  BY DEF Abs
<1>2. q \in [0 .. v -> Int] /\ q[0] = v /\ \A k \in 1 .. v : q[k] = CDiv(q[k - 1], base)
  BY <1>1, QuotientsAre
<1> HIDE DEF q
<1>3. \A k \in 0 .. v : q[k] \in Nat /\ q[k] <= v - k
  <2> DEFINE G == {k \in 0 .. v : q[k] \in Nat /\ q[k] <= v - k}
  <2>1. 0 \in G
    BY <1>2
  <2>2. ASSUME NEW k \in 1 .. v, k - 1 \in G PROVE k \in G
    <3> DEFINE p == q[k - 1]
    <3>1. p \in Nat /\ p <= v - k + 1 /\ q[k] = CDiv(p, base)
      BY <1>2, <2>2
    <3> HIDE DEF p
    <3>2. CDiv(p, base) \in Nat /\ (p # 0 => CDiv(p, base) < p) /\ (p = 0 => CDiv(p, base) = 0)
      BY <3>1, DivisionFacts DEF Abs
    <3> QED BY <3>1, <3>2
  <2>3. \A k \in 0 .. v : k \in G
    <3> HIDE DEF G
    <3> QED BY <2>1, <2>2, Climbs
  <2> QED BY <2>3
<1>4. n \in T /\ \A j \in T : n <= j
  <2>1. T \subseteq Nat /\ v \in T
    BY <1>3
  <2> HIDE DEF T
  <2> QED BY <2>1, LeastIsIn
<1>5. n = LastTurn(q, v)
  <2>1. n \in 0 .. Abs(v) /\ q[n] = 0 /\ \A k \in 0 .. n - 1 : q[k] # 0
    <3> HIDE DEF n
    <3> QED BY <1>1, <1>4
  <2>2. ASSUME NEW j \in 0 .. Abs(v), q[j] = 0, \A k \in 0 .. j - 1 : q[k] # 0
        PROVE  j = n
    <3> HIDE DEF n
    <3>1. n <= j /\ j \in Int /\ n \in 0 .. v
      BY <1>1, <1>4, <2>2
    <3>2. ~(n <= j - 1)
      BY <2>1, <2>2, <3>1
    <3> QED BY <3>1, <3>2
  <2> HIDE DEF n
  <2> QED BY <2>1, <2>2 DEF LastTurn
<1> HIDE DEF n
<1>6. n \in 1 .. v /\ q[n] = 0
  BY <1>2, <1>4
<1>7. q[n - 1] # 0
  <2>1. n - 1 \in 0 .. v /\ ~(n <= n - 1)
    BY <1>6
  <2>2. n - 1 \notin T
    BY <1>4, <2>1
  <2> QED BY <2>1, <2>2
<1>8. (\A k \in 0 .. n : q[k] \in Nat) /\ \A k \in 1 .. n : q[k] = CDiv(q[k - 1], base)
  <2>1. \A k \in 0 .. n : k \in 0 .. v /\ (k # 0 => k \in 1 .. v)
    BY <1>6
  <2>2. \A k \in 1 .. n : k \in 1 .. v
    BY <1>6
  <2> QED BY <1>2, <1>3, <2>1, <2>2
<1>9. \E m \in Nat \ {0} :
        /\ m = LastTurn(q, v) /\ m <= v
        /\ q[0] = v /\ q[m] = 0 /\ q[m - 1] # 0
        /\ \A k \in 0 .. m : q[k] \in Nat
        /\ \A k \in 1 .. m : q[k] = CDiv(q[k - 1], base)
  <2> DEFINE M == LastTurn(q, v)
  <2>1. n = M /\ n \in Nat \ {0} /\ n <= v
    BY <1>5, <1>6
  <2> HIDE DEF M
  <2>2. q[0] = v /\ q[n] = 0 /\ q[n - 1] # 0
    BY <1>2, <1>6, <1>7
  <2> QED BY <1>8, <2>1, <2>2 DEF M
<1> QED BY <1>9 DEF q

\* The value of a sequence of digits is what Horner's scheme adds up to.
LEMMA ValueIs ==
  ASSUME NEW ds \in Seq(Int), NEW base \in Bases, NEW g \in [0 .. Len(ds) -> Int],
         g[0] = 0, \A k \in 1 .. Len(ds) : g[k] = g[k - 1] * base + ds[k]
  PROVE  ValueOf(ds, base) = g[Len(ds)]
<1> DEFINE R(u) == u = [k \in 0 .. Len(ds) |-> IF k = 0 THEN 0 ELSE u[k - 1] * base + ds[k]]
           h0 == CHOOSE u : R(u)
<1>1. ValueOf(ds, base) = h0[Len(ds)]
  BY DEF ValueOf
<1>2. Len(ds) \in Nat
  OBVIOUS
<1>3. R(g)
  BY <1>2
<1>4. R(h0)
  BY <1>3
<1> HIDE DEF h0
<1>5. \A k \in 0 .. Len(ds) : h0[k] = IF k = 0 THEN 0 ELSE h0[k - 1] * base + ds[k]
  BY <1>4
<1>6. h0[0] = 0 /\ \A k \in 1 .. Len(ds) : h0[k] = h0[k - 1] * base + ds[k]
  BY <1>2, <1>5
<1> DEFINE G == {k \in 0 .. Len(ds) : h0[k] = g[k]}
<1>7. 0 \in G
  BY <1>2, <1>6
<1>8. ASSUME NEW k \in 1 .. Len(ds), k - 1 \in G PROVE k \in G
  <2>1. k \in 0 .. Len(ds)
    BY <1>2
  <2> QED BY <1>6, <1>8, <2>1
<1>9. \A k \in 0 .. Len(ds) : k \in G
  <2> HIDE DEF G
  <2> QED BY <1>2, <1>7, <1>8, Climbs
<1> QED BY <1>1, <1>2, <1>9

\* The digits, turned round, are those of the number.
LEMMA DigitsAreNumeral ==
  ASSUME NEW v \in Nat \ {0}, NEW base \in Bases
  PROVE  /\ Reverse(Digits(v, base)) \in Seq(Int)
         /\ IsNumeral(Reverse(Digits(v, base)), base, v)
<1> DEFINE q == Quotients(v, base)
<1>1. PICK n \in Nat \ {0} :
        /\ n = LastTurn(q, v) /\ n <= v
        /\ q[0] = v /\ q[n] = 0 /\ q[n - 1] # 0
        /\ \A k \in 0 .. n : q[k] \in Nat
        /\ \A k \in 1 .. n : q[k] = CDiv(q[k - 1], base)
  BY QuotientsEnd
<1> DEFINE s == [k \in 1 .. n |-> CMod(q[k - 1], base)]
           r == [i \in 1 .. n |-> CMod(q[n - i], base)]
<1>2. Digits(v, base) = s
  BY <1>1 DEF Digits
<1> HIDE DEF q
<1>3. ASSUME NEW i \in 1 .. n
      PROVE  /\ n - i \in 0 .. n /\ CMod(q[n - i], base) \in 0 .. base - 1
             /\ q[n - i + 1] = CDiv(q[n - i], base) /\ q[n - i] \in Nat
             /\ q[n - i] = q[n - i + 1] * base + CMod(q[n - i], base)
  <2> DEFINE p == q[n - i]
  <2>1. n - i \in 0 .. n /\ n - i + 1 \in 1 .. n /\ (n - i + 1) - 1 = n - i
    BY <1>1
  <2>2. p \in Nat /\ q[n - i + 1] = CDiv(p, base)
    BY <1>1, <2>1
  <2> HIDE DEF p
  <2>3. /\ CDiv(p, base) \in Int /\ CMod(p, base) \in 0 .. base - 1
        /\ CMod(p, base) = p - base * CDiv(p, base)
    BY <2>2, DivisionFacts
  <2>4. base \in Int
    BY DEF Bases
  <2>5. p = CDiv(p, base) * base + CMod(p, base)
    BY <2>2, <2>3, <2>4
  <2> QED BY <2>1, <2>2, <2>3, <2>5 DEF p
<1>4. Reverse(s) = r
  <2>1. Len(s) = n
    OBVIOUS
  <2>2. \A i \in 1 .. n : s[Len(s) - i + 1] = CMod(q[n - i], base)
    <3> SUFFICES ASSUME NEW i \in 1 .. n PROVE s[n - i + 1] = CMod(q[n - i], base)
      BY <2>1
    <3>1. n - i + 1 \in 1 .. n /\ (n - i + 1) - 1 = n - i
      OBVIOUS
    <3> QED BY <3>1
  <2> HIDE DEF s
  <2> QED BY <2>1, <2>2 DEF Reverse
<1>5. r \in Seq(Int) /\ Len(r) = n /\ \A i \in 1 .. n : r[i] \in 0 .. base - 1
  <2>1. \A i \in 1 .. n : CMod(q[n - i], base) \in 0 .. base - 1
    BY <1>3
  <2>2. base \in Int
    BY DEF Bases
  <2> QED BY <2>1, <2>2
<1>6. r[1] # 0
  <2>1. CMod(q[n - 1], base) = q[n - 1] - base * CDiv(q[n - 1], base)
    BY <1>3, DivisionFacts
  <2>2. q[n] = CDiv(q[n - 1], base)
    BY <1>1
  <2>3. base * 0 = 0 /\ 1 \in 1 .. n
    BY DEF Bases
  <2>4. CMod(q[n - 1], base) # 0
    BY <1>1, <1>3, <2>1, <2>2, <2>3
  <2> QED BY <2>3, <2>4
<1>7. ValueOf(r, base) = v
  <2> DEFINE g == [k \in 0 .. n |-> q[n - k]]
  <2>1. g \in [0 .. n -> Int]
    <3>1. \A k \in 0 .. n : n - k \in 0 .. n
      OBVIOUS
    <3> QED BY <1>1, <3>1
  <2>2. g[0] = 0 /\ g[n] = v
    BY <1>1
  <2>3. ASSUME NEW k \in 1 .. n PROVE g[k] = g[k - 1] * base + r[k]
    <3>1. k \in 0 .. n /\ k - 1 \in 0 .. n /\ n - (k - 1) = n - k + 1
      OBVIOUS
    <3>2. g[k] = q[n - k] /\ g[k - 1] = q[n - k + 1] /\ r[k] = CMod(q[n - k], base)
      BY <3>1
    <3> HIDE DEF g, r
    <3> QED BY <1>3, <3>2
  <2> HIDE DEF g, r
  <2>4. ValueOf(r, base) = g[Len(r)]
    BY <1>5, <2>1, <2>2, <2>3, ValueIs
  <2> QED BY <1>5, <2>2, <2>4
<1> HIDE DEF r, s
<1>8. IsNumeral(r, base, v)
  BY <1>5, <1>6, <1>7 DEF IsNumeral
<1> QED BY <1>2, <1>4, <1>5, <1>8

\* Zero has a digit.
LEMMA ZeroIsNumeral ==
  ASSUME NEW base \in Bases
  PROVE  IsNumeral(<<0>>, base, 0)
<1> DEFINE ds == <<0>>
           g == [k \in 0 .. 1 |-> 0]
<1>1. ds \in Seq(Int) /\ Len(ds) = 1 /\ ds[1] = 0
  OBVIOUS
<1>2. base \in Nat \ {0}
  BY DEF Bases
<1>3. ValueOf(ds, base) = 0
  <2>1. g \in [0 .. Len(ds) -> Int] /\ g[0] = 0 /\ g[Len(ds)] = 0
    BY <1>1
  <2>2. \A k \in 1 .. Len(ds) : g[k] = g[k - 1] * base + ds[k]
    <3>1. 0 = 0 * base + 0 /\ g[1] = 0 /\ g[1 - 1] = 0
      BY <1>2
    <3> HIDE DEF g, ds
    <3> QED BY <1>1, <3>1
  <2> HIDE DEF g, ds
  <2> QED BY <1>1, <2>1, <2>2, ValueIs
<1> HIDE DEF ds
<1>4. IsNumeral(ds, base, 0)
  BY <1>1, <1>2, <1>3 DEF IsNumeral
<1> QED BY <1>4 DEF ds

\* Numbers in decimal: print_int().
LEMMA PrintsInt ==
  ASSUME NEW v \in Longs, v # -LongHalf
  PROVE  IF v < 0 THEN Head(print_int(v)) = "-" /\ IsNumeral(Tail(print_int(v)), 10, -v)
                  ELSE IsNumeral(print_int(v), 10, v)
<1>1. v \in Int /\ LongHalf \in Nat \ {0} /\ -LongHalf < v /\ v < LongHalf /\ 10 \in Bases
  BY HalvesAssumption DEF Longs, Bases
<1>2. CASE v = 0
  BY <1>1, <1>2, ZeroIsNumeral DEF print_int
<1>3. CASE v > 0
  <2>1. v \in Nat \ {0}
    BY <1>1, <1>3
  <2>2. print_int(v) = Reverse(Digits(v, 10))
    BY <2>1 DEF print_int
  <2>3. IsNumeral(Reverse(Digits(v, 10)), 10, v)
    BY <1>1, <2>1, DigitsAreNumeral
  <2> QED BY <2>1, <2>2, <2>3
<1>4. CASE v < 0
  <2>1. -v \in Nat \ {0} /\ -v \in 0 .. LongSpan - 1 /\ LongSpan \in Nat \ {0} /\ -v < LongHalf
    BY <1>1, <1>4 DEF LongSpan
  <2>2. Wrap(-v) = -v
    <3> DEFINE y == -v
    <3> HIDE DEF y
    <3>1. (LongSpan * 0 + y) % LongSpan = y
      BY <2>1, OneRemainder DEF y
    <3>2. y % LongSpan = y
      <4> DEFINE M == LongSpan
      <4>1. M * 0 + y = y
        BY <2>1 DEF y
      <4> QED BY <3>1, <4>1
    <3> QED BY <2>1, <3>2 DEF Wrap, y
  <2> DEFINE d == Reverse(Digits(-v, 10))
  <2>3. d \in Seq(Int) /\ IsNumeral(d, 10, -v)
    BY <1>1, <2>1, DigitsAreNumeral
  <2>4. print_int(v) = <<"-">> \o d
    BY <1>1, <1>4, <2>2 DEF print_int
  <2> HIDE DEF d
  <2>5. Head(<<"-">> \o d) = "-" /\ Tail(<<"-">> \o d) = d
    BY <2>3
  <2> QED BY <1>4, <2>3, <2>4, <2>5
<1> QED BY <1>1, <1>2, <1>3, <1>4

\* and in hexadecimal: print_hex().
LEMMA PrintsHex ==
  ASSUME NEW v \in Nat
  PROVE  IsNumeral(print_hex(v), 16, v)
<1>1. 16 \in Bases
  BY DEF Bases
<1>2. CASE v = 0
  BY <1>1, <1>2, ZeroIsNumeral DEF print_hex
<1>3. CASE v # 0
  <2>1. v \in Nat \ {0} /\ print_hex(v) = Reverse(Digits(v, 16))
    BY <1>3 DEF print_hex
  <2> QED BY <1>1, <2>1, DigitsAreNumeral
<1> QED BY <1>2, <1>3

\* The widths: an unsigned int is what is left of an unsigned long long.
LEMMA Widths ==
  /\ IntSpan \in Nat \ {0} /\ LongSpan \in Nat \ {0}
  /\ \A v \in Int : /\ v % IntSpan \in Nat /\ v % LongSpan \in Nat
                    /\ (v % IntSpan) % IntSpan = v % IntSpan
                    /\ (v % LongSpan) % IntSpan = v % IntSpan
  /\ \A v \in Ints : v >= 0 => v % IntSpan = v /\ v % LongSpan = v
<1>1. IntHalf \in Nat \ {0} /\ LongHalf \in Nat \ {0} /\ LongHalf % IntHalf = 0
  BY HalvesAssumption
<1>2. IntSpan \in Nat \ {0} /\ LongSpan \in Nat \ {0}
  BY <1>1 DEF IntSpan, LongSpan
<1>3. PICK k \in Nat \ {0} : LongSpan = IntSpan * k
  BY <1>1, DoublesDivide DEF IntSpan, LongSpan
<1>4. ASSUME NEW m \in Nat \ {0}, NEW x \in 0 .. m - 1 PROVE x % m = x
  <2>1. (m * 0 + x) % m = x
    BY <1>4, OneRemainder
  <2>2. m * 0 + x = x
    BY <1>4
  <2> QED BY <2>1, <2>2
<1>5. ASSUME NEW v \in Int
      PROVE  /\ v % IntSpan \in 0 .. IntSpan - 1 /\ v % LongSpan \in Nat
             /\ (v % LongSpan) % IntSpan = v % IntSpan
  <2>1. v % IntSpan \in 0 .. IntSpan - 1
    BY <1>2, DivisionIs
  <2>2. v % LongSpan \in 0 .. LongSpan - 1
    BY <1>2, DivisionIs
  <2>3. (v % (IntSpan * k)) % IntSpan = v % IntSpan
    BY <1>2, RemainderTwice
  <2> QED BY <1>2, <1>3, <2>1, <2>2, <2>3
<1>6. ASSUME NEW v \in Ints, v >= 0
      PROVE  v \in 0 .. IntSpan - 1 /\ v \in 0 .. LongSpan - 1
  <2>1. IntSpan <= LongSpan
    <3>1. k >= 1 => IntSpan * k >= IntSpan
      BY <1>2
    <3> QED BY <1>3, <3>1
  <2>2. v \in Int /\ v < IntHalf
    BY <1>1 DEF Ints
  <2> QED BY <1>1, <1>2, <1>6, <2>1, <2>2 DEF IntSpan
<1>7. \A v \in Int : (v % IntSpan) % IntSpan = v % IntSpan
  BY <1>2, <1>4, <1>5
<1>8. \A v \in Ints : v >= 0 => v % IntSpan = v /\ v % LongSpan = v
  BY <1>2, <1>4, <1>6
<1>9. \A v \in Int : v % IntSpan \in Nat /\ v % LongSpan \in Nat
  BY <1>2, <1>5
<1> QED BY <1>2, <1>5, <1>7, <1>8, <1>9

-----------------------------------------------------------------------------
(* The walk over the format.                                               *)

\* What the directives are called in f.taken.
DirectiveNames == {"s", "d", "c", "x", "lld", "llx"}

Fields == [version |-> f.version, fmt |-> f.fmt, value |-> f.value, pos |-> f.pos,
           taken |-> f.taken, out |-> f.out, done |-> f.done]

TypeOK ==
  /\ f = Fields
  /\ f.version \in Versions /\ f.fmt \in Formats /\ f.value \in ValuesFor(f.fmt)
  /\ f.pos \in Nat \ {0} /\ f.taken \in Seq(DirectiveNames) /\ f.done \in BOOLEAN

\* What is taken is taken for a directive of the version.
TakenForDirective ==
  f.taken # <<>> => \E k \in Directives : k < Len(f.fmt) /\ DirectiveAt(k) # ""

\* In a plain format the turns begin where they should, and what has been taken and
\* put out is that of the directives and turns that lie behind.
InStep ==
  Plain => /\ f.pos \in Turns \cup {Len(f.fmt) + 1}
           /\ f.taken = [n \in 1 .. Rank(Directives, f.pos) |-> DirectiveAt(Nth(Directives, n))]
           /\ f.out = [n \in 1 .. Rank(Turns, f.pos) |-> PutAt(Nth(Turns, n))]

\* The walk has not left the format, but where the end cuts a directive.
Within == f.pos <= Len(f.fmt) + 1 \/ Cut

AtEnd == f.done => f.pos = Len(f.fmt) + 1

ScanInv == TypeOK /\ Within /\ TakenForDirective /\ InStep /\ AtEnd

\* The versions grow: all have %s and %d, and %llx comes with %lld.
LEMMA PrintfVersions ==
  ASSUME NEW v \in Versions
  PROVE  /\ v.directives \subseteq DirectiveNames
         /\ {"s", "d"} \subseteq v.directives
         /\ "llx" \in v.directives => "lld" \in v.directives
         /\ v.hex \in {IntSpan, LongSpan}
BY DEF DirectiveNames, Versions, printf12, printf13, printf21, printf22, printf23, printf31, printf32,
       printf33, printf4, printf51, printf52, printf53, printf54, printf6

\* No character of a format is taken for its end.
LEMMA FormatFacts ==
  ASSUME TypeOK
  PROVE  /\ Len(f.fmt) \in Nat
         /\ \A k \in 1 .. Len(f.fmt) :
              f.fmt[k] \in STRING /\ f.fmt[k] # "NUL" /\ f.fmt[k] # "beyond"
         /\ Directives \subseteq 1 .. Len(f.fmt) /\ Turns \subseteq 1 .. Len(f.fmt)
         /\ \A k \in Directives \cup Turns : k \in Nat \ {0}
<1>1. f.fmt \in Seq(STRING \ {"NUL", "beyond"})
  BY FormatsAssumption DEF TypeOK
<1> QED BY <1>1 DEF Directives, Turns

\* What a character of the format says about its place.
LEMMA AtFacts ==
  ASSUME TypeOK, NEW k \in Nat \ {0}
  PROVE  /\ At(k) \notin {"NUL", "beyond"} <=> k <= Len(f.fmt)
         /\ k <= Len(f.fmt) => At(k) = f.fmt[k]
         /\ At(k) = "NUL" <=> k = Len(f.fmt) + 1
<1>1. k <= Len(f.fmt) => k \in 1 .. Len(f.fmt)
  BY FormatFacts
<1> QED BY <1>1, FormatFacts DEF At

\* A turn leaves the format and the version alone, and so all that is said of them.
LEMMA TurnFacts ==
  ASSUME TypeOK, NEW k \in Nat, NEW arg \in Seq(DirectiveNames), NEW put, Turn(k, arg, put)
  PROVE  /\ TypeOK'
         /\ f'.pos = k + 1 /\ f'.taken = f.taken \o arg /\ f'.out = Append(f.out, put)
         /\ f'.fmt = f.fmt /\ f'.version = f.version /\ f'.value = f.value /\ f'.done = f.done
<1>1. f' = [version |-> f.version, fmt |-> f.fmt, value |-> f.value, pos |-> k + 1,
            taken |-> f.taken \o arg, out |-> Append(f.out, put), done |-> f.done]
  BY DEF TypeOK, Fields, Turn
<1>2. f.taken \o arg \in Seq(DirectiveNames) /\ k + 1 \in Nat \ {0}
  BY ConcatProperties DEF TypeOK
<1> QED BY <1>1, <1>2 DEF TypeOK, Fields

\* What depends on the format, the version and the value only stays with them.
LEMMA SameFormat ==
  ASSUME f'.fmt = f.fmt, f'.version = f.version, f'.value = f.value
  PROVE  /\ Directives' = Directives /\ Turns' = Turns
         /\ \A k : DirectiveAt(k)' = DirectiveAt(k) /\ PutAt(k)' = PutAt(k)
         /\ Plain' <=> Plain
         /\ Cut' <=> Cut
<1>1. HasLong' <=> HasLong
  BY DEF HasLong
<1>2. \A k : DirectiveAt(k)' = DirectiveAt(k)
  BY <1>1 DEF DirectiveAt
<1>3. Directives' = Directives
  BY DEF Directives
<1>4. \A k : Converted(DirectiveAt(k), f.value)' = Converted(DirectiveAt(k), f.value)
  BY <1>2 DEF Converted
<1>5. \A k : PutAt(k)' = PutAt(k)
  BY <1>3, <1>4 DEF PutAt
<1>6. Turns' = Turns
  BY <1>3 DEF Turns, Inside
<1> QED BY <1>1, <1>2, <1>3, <1>5, <1>6 DEF Plain, Cut

\* How many characters of a directive follow its '%'.
Width(k) == IF k \notin Directives THEN 0 ELSE IF f.fmt[k + 1] = "l" THEN 3 ELSE 1

\* A directive that takes an argument ends in the format, and holds no other '%'.
LEMMA DirectiveFacts ==
  ASSUME TypeOK, NEW k \in Nat
  PROVE  (k \in Directives /\ k < Len(f.fmt) /\ DirectiveAt(k) # "") =>
         /\ Width(k) \in {1, 3} /\ k + Width(k) <= Len(f.fmt)
         /\ \A j \in k + 1 .. k + Width(k) : j \notin Directives
         /\ Width(k) = 1 => f.fmt[k + 1] \in f.version.directives /\ DirectiveAt(k) = f.fmt[k + 1]
         /\ Width(k) = 3 => /\ HasLong /\ f.fmt[k + 1] = "l" /\ f.fmt[k + 2] = "l"
                            /\ \/ f.fmt[k + 3] = "d" /\ DirectiveAt(k) = "lld"
                               \/ f.fmt[k + 3] = "x" /\ DirectiveAt(k) = "llx"
         /\ DirectiveAt(k) \in f.version.directives
<1>0. SUFFICES ASSUME k \in Directives, k < Len(f.fmt), DirectiveAt(k) # ""
               PROVE  /\ Width(k) \in {1, 3} /\ k + Width(k) <= Len(f.fmt)
                      /\ \A j \in k + 1 .. k + Width(k) : j \notin Directives
                      /\ Width(k) = 1 => /\ f.fmt[k + 1] \in f.version.directives
                                         /\ DirectiveAt(k) = f.fmt[k + 1]
                      /\ Width(k) = 3 => /\ HasLong /\ f.fmt[k + 1] = "l" /\ f.fmt[k + 2] = "l"
                                         /\ \/ f.fmt[k + 3] = "d" /\ DirectiveAt(k) = "lld"
                                            \/ f.fmt[k + 3] = "x" /\ DirectiveAt(k) = "llx"
                      /\ DirectiveAt(k) \in f.version.directives
  OBVIOUS
<1>1. k \in Directives /\ f.version.directives \subseteq {"s", "d", "c", "x", "lld", "llx"}
  BY <1>0, PrintfVersions DEF TypeOK, DirectiveNames
<1>2. k \in 1 .. Len(f.fmt) /\ k < Len(f.fmt) /\ Len(f.fmt) \in Nat
  BY <1>0, FormatFacts
<1>3. "l" \notin f.version.directives /\ "%" \notin f.version.directives
  BY <1>1
<1>4. CASE f.fmt[k + 1] \in f.version.directives
  <2>1. DirectiveAt(k) = f.fmt[k + 1] /\ f.fmt[k + 1] # "l" /\ f.fmt[k + 1] # "%"
    BY <1>3, <1>4 DEF DirectiveAt
  <2>2. Width(k) = 1
    BY <1>1, <2>1 DEF Width
  <2>3. k + 1 \notin Directives
    BY <2>1 DEF Directives
  <2>4. \A j \in k + 1 .. k + 1 : j = k + 1
    BY <1>2
  <2>5. \A j \in k + 1 .. k + Width(k) : j \notin Directives
    BY <2>2, <2>3, <2>4
  <2>6. Width(k) = 1 /\ k + 1 <= Len(f.fmt) /\ k + Width(k) <= Len(f.fmt)
    BY <1>2, <2>2
  <2> QED BY <1>2, <1>4, <2>1, <2>5, <2>6
<1>5. CASE f.fmt[k + 1] \notin f.version.directives
  <2>1. /\ HasLong /\ f.fmt[k + 1] = "l" /\ k + 3 <= Len(f.fmt) /\ f.fmt[k + 2] = "l"
        /\ \/ f.fmt[k + 3] = "d" /\ DirectiveAt(k) = "lld"
           \/ f.fmt[k + 3] = "x" /\ DirectiveAt(k) = "llx" /\ "llx" \in f.version.directives
    BY <1>0, <1>5 DEF DirectiveAt
  <2>2. Width(k) = 3
    BY <1>1, <2>1 DEF Width
  <2>3. k + 1 \notin Directives /\ k + 2 \notin Directives /\ k + 3 \notin Directives
    BY <2>1 DEF Directives
  <2>4. \A j \in k + 1 .. k + 3 : j \notin Directives
    <3>1. \A j \in k + 1 .. k + 3 : j = k + 1 \/ j = k + 2 \/ j = k + 3
      BY <1>2
    <3> QED BY <2>3, <3>1
  <2>5. DirectiveAt(k) \in f.version.directives
    BY <2>1 DEF HasLong
  <2> QED BY <1>2, <2>1, <2>2, <2>4, <2>5
<1> QED BY <1>4, <1>5

\* Its characters are those that no turn begins at.
LEMMA InsideWidth ==
  ASSUME NEW k \in Directives
  PROVE  Inside(k) = k + 1 .. k + Width(k)
BY DEF Inside, Width

\* In a plain format the next turn begins behind a character that begins no directive,
\* or behind the last character of a directive, and nothing is skipped.
LEMMA PlainTurn ==
  ASSUME TypeOK, Plain, NEW p \in Turns, NEW m, m = p + Width(p) + 1
  PROVE  /\ m \in Turns \cup {Len(f.fmt) + 1}
         /\ Rank(Turns, m) = Rank(Turns, p) + 1
         /\ p \in Directives => Rank(Directives, m) = Rank(Directives, p) + 1
         /\ p \notin Directives => Rank(Directives, m) = Rank(Directives, p)
<1>1. /\ Len(f.fmt) \in Nat /\ Directives \subseteq 1 .. Len(f.fmt)
      /\ Turns \subseteq 1 .. Len(f.fmt) /\ p \in 1 .. Len(f.fmt)
  BY FormatFacts
<1>2. ASSUME NEW k \in Directives
      PROVE  /\ k \in 1 .. Len(f.fmt) /\ Width(k) \in Nat /\ k + Width(k) <= Len(f.fmt)
             /\ \A j \in k + 1 .. k + Width(k) : j \notin Directives
             /\ \A j \in k + 1 .. k + Width(k) : j \notin Turns
  <2>1. k \in 1 .. Len(f.fmt) /\ k < Len(f.fmt) /\ DirectiveAt(k) # ""
    BY <1>1, <1>2 DEF Plain, Directives
  <2>2. \A j \in Inside(k) : j \notin Turns
    BY <1>2 DEF Turns
  <2>3. \A j \in k + 1 .. k + Width(k) : j \notin Turns
    BY <1>2, <2>2, InsideWidth
  <2>4. k \in Nat
    BY <1>2, FormatFacts
  <2>5. /\ Width(k) \in {1, 3} /\ k + Width(k) <= Len(f.fmt)
        /\ \A j \in k + 1 .. k + Width(k) : j \notin Directives
    BY <1>2, <2>1, <2>4, DirectiveFacts
  <2>6. Width(k) \in Nat
    BY <2>5
  <2> QED BY <2>1, <2>3, <2>5, <2>6
<1>3. /\ Width(p) \in Nat /\ p + Width(p) <= Len(f.fmt) /\ m \in Nat /\ p < m
      /\ \A j \in p + 1 .. m - 1 : j \notin Directives /\ j \notin Turns
  <2>1. CASE p \in Directives
    BY <1>1, <1>2, <2>1
  <2>2. CASE p \notin Directives
    BY <1>1, <2>2 DEF Width
  <2> QED BY <2>1, <2>2
<1>4. m \in Turns \cup {Len(f.fmt) + 1}
  <2> SUFFICES ASSUME m # Len(f.fmt) + 1, m \notin Turns PROVE FALSE
    OBVIOUS
  <2>1. m \in 1 .. Len(f.fmt)
    BY <1>1, <1>3
  <2>2. PICK k \in Directives : m \in Inside(k)
    BY <2>1 DEF Turns
  <2>3. m \in k + 1 .. k + Width(k)
    BY <2>2, InsideWidth
  <2>4. k < p \/ k = p \/ k \in p + 1 .. m - 1
    BY <1>1, <1>2, <1>3, <2>3
  <2>5. k # p
    BY <1>1, <1>3, <2>3
  <2>6. k < p => p \in k + 1 .. k + Width(k)
    BY <1>1, <1>2, <1>3, <2>3
  <2> QED BY <1>2, <1>3, <2>4, <2>5, <2>6
<1>5. Rank(Turns, m) = Rank(Turns, p) + 1
  BY <1>1, <1>3, RankBehind
<1>6. CASE p \in Directives
  <2>1. Rank(Directives, m) = Rank(Directives, p) + 1
    BY <1>1, <1>3, <1>6, RankBehind
  <2> QED BY <1>4, <1>5, <1>6, <2>1
<1>7. CASE p \notin Directives
  <2>1. p \in Nat /\ p <= m /\ \A j \in p .. m - 1 : j \notin Directives
    BY <1>1, <1>3, <1>7
  <2>2. Rank(Directives, m) = Rank(Directives, p)
    BY <1>1, <1>3, <2>1, RankSame
  <2> QED BY <1>4, <1>5, <1>7, <2>2
<1> QED BY <1>6, <1>7

\* A list that grows by the next of its elements.
LEMMA Prolonged ==
  ASSUME NEW r \in Nat, NEW g, DOMAIN g = 1 .. r + 1
  PROVE  /\ Append([n \in 1 .. r |-> g[n]], g[r + 1]) = [n \in 1 .. r + 1 |-> g[n]]
         /\ [n \in 1 .. r |-> g[n]] \o <<g[r + 1]>> = [n \in 1 .. r + 1 |-> g[n]]
<1> DEFINE S == {g[n] : n \in 1 .. r + 1}
           s == [n \in 1 .. r |-> g[n]]
           z == [n \in 1 .. r + 1 |-> g[n]]
<1>1. r + 1 \in 1 .. r + 1 /\ \A n \in 1 .. r : n \in 1 .. r + 1
  OBVIOUS
<1>2. s \in Seq(S) /\ Len(s) = r /\ g[r + 1] \in S
  <2>1. \A n \in 1 .. r : g[n] \in S
    BY <1>1
  <2> HIDE DEF S
  <2>2. s \in Seq(S) /\ Len(s) = r
    BY <2>1
  <2> QED BY <1>1, <2>2 DEF S
<1>3. z \in Seq(S) /\ Len(z) = r + 1 /\ \A n \in 1 .. r + 1 : z[n] = g[n]
  <2>1. \A n \in 1 .. r + 1 : g[n] \in S
    OBVIOUS
  <2> HIDE DEF S
  <2> QED BY <2>1
<1>4. \A n \in 1 .. r : s[n] = g[n]
  OBVIOUS
<1> HIDE DEF S, s, z
<1>5. /\ Append(s, g[r + 1]) \in Seq(S) /\ Len(Append(s, g[r + 1])) = r + 1
      /\ \A n \in 1 .. r : Append(s, g[r + 1])[n] = s[n]
      /\ Append(s, g[r + 1])[r + 1] = g[r + 1]
  BY <1>2, AppendProperties
<1>6. Append(s, g[r + 1]) = z
  <2>1. \A n \in 1 .. r + 1 : n = r + 1 \/ n \in 1 .. r
    OBVIOUS
  <2>2. \A n \in 1 .. r + 1 : Append(s, g[r + 1])[n] = z[n]
    BY <1>3, <1>4, <1>5, <2>1
  <2> DEFINE a == Append(s, g[r + 1])
  <2>3. a \in Seq(S) /\ Len(a) = Len(z) /\ \A n \in 1 .. Len(a) : a[n] = z[n]
    BY <1>3, <1>5, <2>2
  <2> HIDE DEF a
  <2>4. a = z
    BY <1>3, <2>3, SeqEqual
  <2> QED BY <2>4 DEF a
<1>7. s \o <<g[r + 1]>> = Append(s, g[r + 1])
  BY <1>2, AppendIsConcat
<1> QED BY <1>6, <1>7 DEF s, z

\* A turn over the next character, or the next directive, of a plain format.
LEMMA GoesOn ==
  ASSUME TypeOK, InStep, NEW k \in Nat, NEW arg \in Seq(DirectiveNames), NEW put, Turn(k, arg, put),
         Plain => /\ f.pos \in Turns /\ k = f.pos + Width(f.pos) /\ put = PutAt(f.pos)
                  /\ arg = IF f.pos \in Directives THEN <<DirectiveAt(f.pos)>> ELSE <<>>
  PROVE  InStep'
<1> DEFINE T == Turns
           D == Directives
           L == Len(f.fmt)
           out(m) == [n \in 1 .. m |-> PutAt(Nth(T, n))]
           names(m) == [n \in 1 .. m |-> DirectiveAt(Nth(D, n))]
<1>1. /\ f'.pos = k + 1 /\ f'.taken = f.taken \o arg /\ f'.out = Append(f.out, put)
      /\ f'.fmt = f.fmt /\ f'.version = f.version /\ f'.value = f.value
  BY TurnFacts
<1>2. /\ D' = D /\ T' = T /\ (Plain' <=> Plain) /\ L' = L
      /\ \A n : DirectiveAt(Nth(D, n))' = DirectiveAt(Nth(D, n))
      /\ \A n : PutAt(Nth(T, n))' = PutAt(Nth(T, n))
  <2>1. D' = D /\ T' = T /\ (Plain' <=> Plain) /\ L' = L
    BY <1>1, SameFormat
  <2>2. \A n : Nth(D, n)' = Nth(D, n) /\ Nth(T, n)' = Nth(T, n)
    BY <2>1
  <2>3. \A j : DirectiveAt(j)' = DirectiveAt(j) /\ PutAt(j)' = PutAt(j)
    BY <1>1, SameFormat
  <2> QED BY <2>1, <2>2, <2>3
<1> SUFFICES ASSUME Plain'
             PROVE  /\ f'.pos \in T' \cup {L' + 1}
                    /\ f'.taken = [n \in 1 .. Rank(D', f'.pos) |-> DirectiveAt(Nth(D, n))']
                    /\ f'.out = [n \in 1 .. Rank(T', f'.pos) |-> PutAt(Nth(T, n))']
  BY DEF InStep
<1> SUFFICES ASSUME Plain
             PROVE  /\ k + 1 \in T \cup {L + 1}
                    /\ f.taken \o arg = names(Rank(D, k + 1))
                    /\ Append(f.out, put) = out(Rank(T, k + 1))
  <2>1. Plain
    BY <1>2
  <2>2. \A m : /\ [n \in 1 .. m |-> DirectiveAt(Nth(D, n))'] = names(m)
               /\ [n \in 1 .. m |-> PutAt(Nth(T, n))'] = out(m)
    BY <1>2
  <2> HIDE DEF names, out
  <2>3. Rank(D', f'.pos) = Rank(D, k + 1) /\ Rank(T', f'.pos) = Rank(T, k + 1)
    BY <1>1, <1>2
  <2> QED BY <1>1, <1>2, <2>1, <2>2, <2>3
<1>3. /\ f.pos \in T /\ k + 1 = f.pos + Width(f.pos) + 1 /\ put = PutAt(f.pos)
      /\ arg = IF f.pos \in D THEN <<DirectiveAt(f.pos)>> ELSE <<>>
      /\ f.taken = names(Rank(D, f.pos)) /\ f.out = out(Rank(T, f.pos))
  BY DEF InStep
<1>4. /\ k + 1 \in T \cup {L + 1} /\ Rank(T, k + 1) = Rank(T, f.pos) + 1
      /\ f.pos \in D => Rank(D, k + 1) = Rank(D, f.pos) + 1
      /\ f.pos \notin D => Rank(D, k + 1) = Rank(D, f.pos)
  BY <1>3, PlainTurn
<1>5. L \in Nat /\ D \subseteq 1 .. L /\ T \subseteq 1 .. L
  BY FormatFacts
<1>6. Rank(T, f.pos) \in Nat /\ Rank(D, f.pos) \in Nat
  BY <1>5, RankFacts
<1>7. Nth(T, Rank(T, f.pos) + 1) = f.pos
  BY <1>3, <1>5, NthIs
<1>8. f.pos \in D => Nth(D, Rank(D, f.pos) + 1) = f.pos
  BY <1>5, NthIs
<1> HIDE DEF T, D, L
<1>9. Append(f.out, put) = out(Rank(T, k + 1))
  <2> DEFINE r == Rank(T, f.pos)
             g == [n \in 1 .. r + 1 |-> PutAt(Nth(T, n))]
  <2>1. r \in Nat /\ put = PutAt(Nth(T, r + 1)) /\ f.out = out(r) /\ Rank(T, k + 1) = r + 1
    BY <1>3, <1>4, <1>6, <1>7
  <2> HIDE DEF r
  <2>2. DOMAIN g = 1 .. r + 1 /\ g[r + 1] = put /\ out(r + 1) = [n \in 1 .. r + 1 |-> g[n]]
    BY <2>1
  <2>3. out(r) = [n \in 1 .. r |-> g[n]]
    BY <2>1
  <2> HIDE DEF g
  <2>4. Append([n \in 1 .. r |-> g[n]], g[r + 1]) = [n \in 1 .. r + 1 |-> g[n]]
    BY <2>1, <2>2, Prolonged
  <2> HIDE DEF out
  <2> QED BY <2>1, <2>2, <2>3, <2>4
<1>10. f.taken \o arg = names(Rank(D, k + 1))
  <2>1. CASE f.pos \in D
    <3> DEFINE r == Rank(D, f.pos)
               g == [n \in 1 .. r + 1 |-> DirectiveAt(Nth(D, n))]
    <3>1. /\ r \in Nat /\ arg = <<DirectiveAt(Nth(D, r + 1))>> /\ f.taken = names(r)
          /\ Rank(D, k + 1) = r + 1
      BY <1>3, <1>4, <1>6, <1>8, <2>1
    <3> HIDE DEF r
    <3>2. DOMAIN g = 1 .. r + 1 /\ <<g[r + 1]>> = arg /\ names(r + 1) = [n \in 1 .. r + 1 |-> g[n]]
      BY <3>1
    <3>3. names(r) = [n \in 1 .. r |-> g[n]]
      BY <3>1
    <3> HIDE DEF g
    <3>4. [n \in 1 .. r |-> g[n]] \o <<g[r + 1]>> = [n \in 1 .. r + 1 |-> g[n]]
      BY <3>1, <3>2, Prolonged
    <3> HIDE DEF names
    <3> QED BY <3>1, <3>2, <3>3, <3>4
  <2>2. CASE f.pos \notin D
    <3>1. arg = <<>> /\ f.taken \in Seq(DirectiveNames)
      BY <1>3, <2>2 DEF TypeOK
    <3>2. f.taken \o arg = f.taken
      BY <3>1, ConcatEmptySeq
    <3> HIDE DEF names
    <3> QED BY <1>3, <1>4, <2>2, <3>2
  <2> QED BY <2>1, <2>2
<1> QED BY <1>4, <1>9, <1>10 DEF T, L

\* What is left to show of a turn.
LEMMA Turned ==
  ASSUME ScanInv, NEW k \in Nat, NEW arg \in Seq(DirectiveNames), NEW put, Turn(k, arg, put)
  PROVE  (/\ f.pos <= Len(f.fmt) /\ (k <= Len(f.fmt) \/ Cut)
          /\ arg # <<>> => \E j \in Directives : j < Len(f.fmt) /\ DirectiveAt(j) # ""
          /\ Plain => /\ k = f.pos + Width(f.pos) /\ put = PutAt(f.pos)
                      /\ arg = IF f.pos \in Directives THEN <<DirectiveAt(f.pos)>> ELSE <<>>)
         => ScanInv'
<1>0. SUFFICES ASSUME f.pos <= Len(f.fmt), k <= Len(f.fmt) \/ Cut,
                      arg # <<>> => \E j \in Directives : j < Len(f.fmt) /\ DirectiveAt(j) # "",
                      Plain => /\ k = f.pos + Width(f.pos) /\ put = PutAt(f.pos)
                               /\ arg = IF f.pos \in Directives THEN <<DirectiveAt(f.pos)>>
                                         ELSE <<>>
               PROVE  ScanInv'
  OBVIOUS
<1>1. TypeOK /\ TakenForDirective /\ InStep /\ AtEnd
  BY DEF ScanInv
<1>2. /\ TypeOK' /\ f'.pos = k + 1 /\ f'.taken = f.taken \o arg /\ f'.done = f.done
      /\ f'.fmt = f.fmt /\ f'.version = f.version /\ f'.value = f.value
  BY <1>1, TurnFacts
<1>3. Directives' = Directives /\ (Cut' <=> Cut) /\ \A j : DirectiveAt(j)' = DirectiveAt(j)
  BY <1>2, SameFormat
<1>4. Len(f.fmt) \in Nat
  BY <1>1, FormatFacts
<1>5. Within'
  <2>1. k <= Len(f.fmt) => k + 1 <= Len(f.fmt) + 1
    BY <1>4
  <2> QED BY <1>0, <1>2, <1>3, <2>1 DEF Within
<1>6. TakenForDirective'
  <2>1. f.taken = <<>> /\ arg = <<>> => f.taken \o arg = <<>>
    BY <1>1, ConcatEmptySeq DEF TypeOK
  <2>2. f.taken \o arg # <<>> => \E j \in Directives : j < Len(f.fmt) /\ DirectiveAt(j) # ""
    BY <1>0, <1>1, <2>1 DEF TakenForDirective
  <2> QED BY <1>2, <1>3, <2>2 DEF TakenForDirective
<1>7. f.pos \in Nat /\ f.pos # Len(f.fmt) + 1
  <2>1. f.pos \in Nat
    BY <1>1 DEF TypeOK
  <2>2. f.pos <= Len(f.fmt)
    BY <1>0
  <2> QED BY <1>4, <2>1, <2>2
<1>8. InStep'
  <2>1. Plain => f.pos \in Turns
    BY <1>1, <1>7 DEF InStep
  <2> QED BY <1>0, <1>1, <2>1, GoesOn
<1>9. AtEnd'
  <2>1. ~f.done
    BY <1>1, <1>7 DEF AtEnd
  <2> QED BY <1>2, <2>1 DEF AtEnd
<1> QED BY <1>2, <1>5, <1>6, <1>8, <1>9 DEF ScanInv

\* The actions, one by one.
LEMMA LiteralKeeps ==
  ASSUME ScanInv, Literal
  PROVE  ScanInv'
<1>1. TypeOK /\ f.pos \in Nat \ {0}
  BY DEF ScanInv, TypeOK
<1>2. f.pos <= Len(f.fmt) /\ At(f.pos) = f.fmt[f.pos] /\ f.fmt[f.pos] # "%"
  BY <1>1, AtFacts DEF Literal
<1>3. f.pos \notin Directives
  BY <1>2 DEF Directives
<1>4. Width(f.pos) = 0 /\ PutAt(f.pos) = <<At(f.pos)>> /\ f.pos + 0 = f.pos
  BY <1>1, <1>2, <1>3 DEF Width, PutAt
<1>5. Turn(f.pos, <<>>, <<At(f.pos)>>) /\ <<>> \in Seq(DirectiveNames)
  BY DEF Literal
<1> QED BY <1>1, <1>2, <1>3, <1>4, <1>5, Turned

\* At a '%'.
LEMMA AtDirective ==
  ASSUME TypeOK, At(f.pos) = "%"
  PROVE  /\ f.pos \in Directives /\ f.pos \in 1 .. Len(f.fmt)
         /\ \A n \in {1, 2, 3} :
              /\ f.pos + n \in Nat \ {0}
              /\ At(f.pos + n) \notin {"NUL", "beyond"} <=> f.pos + n <= Len(f.fmt)
              /\ f.pos + n <= Len(f.fmt) => At(f.pos + n) = f.fmt[f.pos + n]
<1>1. f.pos \in Nat \ {0}
  BY DEF TypeOK
<1>2. f.pos <= Len(f.fmt) /\ f.fmt[f.pos] = "%"
  BY <1>1, AtFacts
<1>3. ASSUME NEW n \in {1, 2, 3}
      PROVE  /\ f.pos + n \in Nat \ {0}
             /\ At(f.pos + n) \notin {"NUL", "beyond"} <=> f.pos + n <= Len(f.fmt)
             /\ f.pos + n <= Len(f.fmt) => At(f.pos + n) = f.fmt[f.pos + n]
  <2>1. f.pos + n \in Nat \ {0}
    BY <1>1, <1>3
  <2> QED BY <2>1, AtFacts
<1>4. f.pos \in 1 .. Len(f.fmt)
  BY <1>1, <1>2, FormatFacts
<1> QED BY <1>2, <1>3, <1>4 DEF Directives

LEMMA ConvertKeeps ==
  ASSUME ScanInv, Convert
  PROVE  ScanInv'
<1> DEFINE p == f.pos
           name == At(p + 1)
<1>1. TypeOK /\ At(p) = "%"
  BY DEF ScanInv, Convert
<1>2. p \in Directives /\ p \in 1 .. Len(f.fmt) /\ p + 1 \in Nat /\ Len(f.fmt) \in Nat
  BY <1>1, AtDirective, FormatFacts
<1>3. name \in {"s", "d", "c", "x"} /\ name \in f.version.directives
  BY DEF Convert
<1>4. p + 1 <= Len(f.fmt) /\ name = f.fmt[p + 1]
  <2>1. name \notin {"NUL", "beyond"}
    BY <1>3
  <2> QED BY <1>1, <2>1, AtDirective
<1>5. DirectiveAt(p) = name /\ DirectiveAt(p) # ""
  BY <1>3, <1>4 DEF DirectiveAt
<1>6. Width(p) = 1
  BY <1>2, <1>3, <1>4 DEF Width
<1>7. PutAt(p) = Converted(name, f.value)
  BY <1>2, <1>5 DEF PutAt
<1>8. Turn(p + 1, <<name>>, Converted(name, f.value)) /\ <<name>> \in Seq(DirectiveNames)
  <2>1. Turn(p + 1, <<name>>, Converted(name, f.value))
    BY DEF Convert
  <2> HIDE DEF name
  <2>2. name \in DirectiveNames
    BY <1>1, <1>3, PrintfVersions DEF TypeOK
  <2> QED BY <2>1, <2>2
<1>9. p < Len(f.fmt) /\ p <= Len(f.fmt)
  BY <1>2, <1>4
<1> HIDE DEF name
<1> QED BY <1>2, <1>4, <1>5, <1>6, <1>7, <1>8, <1>9, Turned

LEMMA PrintDirectiveKeeps ==
  ASSUME ScanInv, PrintDirective
  PROVE  ScanInv'
<1> DEFINE p == f.pos
<1>1. TypeOK /\ At(p) = "%"
  BY DEF ScanInv, PrintDirective
<1>2. p \in Directives /\ p \in 1 .. Len(f.fmt) /\ p + 1 \in Nat /\ Len(f.fmt) \in Nat
  BY <1>1, AtDirective, FormatFacts
<1>3. f.fmt[p] = "%"
  BY <1>2 DEF Directives
<1>4. ~Plain
  <2> SUFFICES ASSUME Plain PROVE FALSE
    OBVIOUS
  <2>1. p < Len(f.fmt) /\ DirectiveAt(p) # ""
    BY <1>2, <1>3 DEF Plain
  <2>2. p + 1 <= Len(f.fmt)
    <3>1. p < Len(f.fmt)
      BY <2>1
    <3>2. p \in Nat /\ Len(f.fmt) \in Nat
      BY <1>2
    <3> QED BY <3>1, <3>2
  <2>3. At(p + 1) = f.fmt[p + 1]
    BY <1>1, <2>2, AtDirective
  <2> QED BY <2>1, <2>3 DEF PrintDirective, DirectiveAt
<1>5. p + 1 <= Len(f.fmt) \/ Cut
  <2>1. p = Len(f.fmt) => Cut
    BY <1>2, <1>3 DEF Cut
  <2>2. p \in Nat /\ p <= Len(f.fmt)
    BY <1>2
  <2>3. p = Len(f.fmt) \/ p + 1 <= Len(f.fmt)
    BY <1>2, <2>2
  <2> QED BY <2>1, <2>3
<1>6. Turn(p + 1, <<>>, <<At(p + 1)>>) /\ <<>> \in Seq(DirectiveNames)
  BY DEF PrintDirective
<1>7. p <= Len(f.fmt)
  BY <1>2
<1> QED BY <1>2, <1>4, <1>5, <1>6, <1>7, Turned

LEMMA EndOfFormatKeeps ==
  ASSUME ScanInv, EndOfFormat
  PROVE  ScanInv'
<1>1. TypeOK /\ TakenForDirective /\ InStep /\ Within
  BY DEF ScanInv
<1>2. f' = [version |-> f.version, fmt |-> f.fmt, value |-> f.value, pos |-> f.pos,
            taken |-> f.taken, out |-> f.out, done |-> TRUE]
  BY <1>1 DEF TypeOK, Fields, EndOfFormat
<1>3. TypeOK'
  BY <1>1, <1>2 DEF TypeOK, Fields
<1>4. /\ f'.fmt = f.fmt /\ f'.version = f.version /\ f'.value = f.value
      /\ f'.pos = f.pos /\ f'.taken = f.taken /\ f'.out = f.out
  BY <1>2
<1>5. /\ Directives' = Directives /\ Turns' = Turns /\ (Cut' <=> Cut) /\ (Plain' <=> Plain)
      /\ \A j : DirectiveAt(j)' = DirectiveAt(j) /\ PutAt(j)' = PutAt(j)
  BY <1>4, SameFormat
<1>6. Within' /\ TakenForDirective'
  BY <1>1, <1>4, <1>5 DEF Within, TakenForDirective
<1>7. InStep'
  BY <1>1, <1>4, <1>5 DEF InStep
<1>8. AtEnd'
  BY <1>1, <1>4, AtFacts DEF AtEnd, EndOfFormat, TypeOK
<1> QED BY <1>3, <1>6, <1>7, <1>8 DEF ScanInv

LEMMA ConvertLongKeeps ==
  ASSUME ScanInv, ConvertLong
  PROVE  ScanInv'
<1> DEFINE p == f.pos
           L == Len(f.fmt)
           name == CASE At(p + 3) = "d" -> "lld" [] At(p + 3) = "x" -> "llx" [] OTHER -> ""
<1>1. TypeOK /\ HasLong /\ At(p) = "%" /\ At(p + 1) = "l"
  BY DEF ScanInv, ConvertLong
<1>2. p \in Directives /\ p \in 1 .. L /\ p \in Nat /\ L \in Nat
  BY <1>1, AtDirective, FormatFacts
<1>3. p + 1 <= L /\ f.fmt[p + 1] = "l" /\ f.fmt[p] = "%"
  BY <1>1, <1>2, AtDirective DEF Directives
<1>4. /\ At(p + 2) \notin {"NUL", "beyond"} <=> p + 2 <= L
      /\ p + 2 <= L => At(p + 2) = f.fmt[p + 2]
      /\ At(p + 3) \notin {"NUL", "beyond"} <=> p + 3 <= L
      /\ p + 3 <= L => At(p + 3) = f.fmt[p + 3]
  BY <1>1, AtDirective
<1>5. "" \notin f.version.directives /\ "l" \notin f.version.directives
  <2>1. f.version.directives \subseteq {"s", "d", "c", "x", "lld", "llx"}
    BY <1>1, PrintfVersions DEF TypeOK, DirectiveNames
  <2> QED BY <2>1
<1>6. /\ p + 2 <= L \/ Cut
      /\ At(p + 2) = "l" => p + 2 <= L /\ f.fmt[p + 2] = "l" /\ (p + 3 <= L \/ Cut)
  <2>1. p \in 1 .. Len(f.fmt)
    BY <1>2
  <2>2. p + 1 = L => Cut
    BY <1>1, <1>3, <2>1 DEF Cut
  <2>3. p + 2 = L /\ f.fmt[p + 2] = "l" => Cut
    BY <1>1, <1>3, <2>1 DEF Cut
  <2>4. (p + 2 <= L \/ p + 1 = L) /\ (p + 2 <= L => p + 3 <= L \/ p + 2 = L)
    <3>1. p + 1 <= L
      BY <1>3
    <3> HIDE DEF L
    <3> QED BY <1>2, <3>1
  <2>5. At(p + 2) = "l" => p + 2 <= L
    BY <1>4
  <2> HIDE DEF L
  <2> QED BY <1>4, <2>2, <2>3, <2>4, <2>5
<1>7. Plain => /\ Width(p) = 3 /\ p + 3 <= L /\ At(p + 2) = "l" /\ name = DirectiveAt(p)
               /\ DirectiveAt(p) \in f.version.directives
  <2> SUFFICES ASSUME Plain
               PROVE  /\ Width(p) = 3 /\ p + 3 <= L /\ At(p + 2) = "l"
                      /\ name = DirectiveAt(p) /\ DirectiveAt(p) \in f.version.directives
    OBVIOUS
  <2>1. p < Len(f.fmt) /\ DirectiveAt(p) # ""
    BY <1>2, <1>3 DEF Plain
  <2>2. Width(p) = 3
    BY <1>2, <1>3 DEF Width
  <2>3. /\ p + 3 <= L /\ f.fmt[p + 2] = "l" /\ DirectiveAt(p) \in f.version.directives
        /\ \/ f.fmt[p + 3] = "d" /\ DirectiveAt(p) = "lld"
           \/ f.fmt[p + 3] = "x" /\ DirectiveAt(p) = "llx"
    BY <1>1, <1>2, <2>1, <2>2, DirectiveFacts
  <2>4. p + 2 <= L
    <3>1. p + 3 <= L
      BY <2>3
    <3> HIDE DEF L
    <3> QED BY <1>2, <3>1
  <2>5. At(p + 2) = "l" /\ At(p + 3) = f.fmt[p + 3]
    BY <1>4, <2>3, <2>4
  <2> QED BY <2>2, <2>3, <2>5
<1>8. p < L /\ p <= L /\ p + 2 \in Nat /\ p + 3 \in Nat
  <2>1. p + 1 <= L
    BY <1>3
  <2> HIDE DEF L
  <2> QED BY <1>2, <2>1
<1>9. name \in f.version.directives /\ At(p + 2) = "l" =>
        p < L /\ DirectiveAt(p) # "" /\ name \in DirectiveNames
  <2> SUFFICES ASSUME name \in f.version.directives, At(p + 2) = "l"
               PROVE  p < L /\ DirectiveAt(p) # "" /\ name \in DirectiveNames
    OBVIOUS
  <2>1. \/ At(p + 3) = "d" /\ name = "lld"
        \/ At(p + 3) = "x" /\ name = "llx"
    BY <1>5
  <2>2. p + 3 <= L /\ At(p + 3) = f.fmt[p + 3]
    BY <1>4, <2>1
  <2>3. f.fmt[p + 2] = "l"
    BY <1>6
  <2>4. DirectiveAt(p) # ""
    BY <1>1, <1>3, <1>5, <2>1, <2>2, <2>3 DEF DirectiveAt
  <2> HIDE DEF name
  <2>6. name \in DirectiveNames
    BY <1>1, PrintfVersions DEF TypeOK
  <2> QED BY <1>8, <2>4, <2>6
<1>10. CASE At(p + 2) # "l"
  <2>1. Turn(p + 2, <<>>, <<>>) /\ <<>> \in Seq(DirectiveNames)
    BY <1>10 DEF ConvertLong
  <2>2. ~Plain
    BY <1>7, <1>10
  <2> QED BY <1>6, <1>8, <2>1, <2>2, Turned
<1>11. CASE At(p + 2) = "l" /\ name \in f.version.directives
  <2>1. Turn(p + 3, <<name>>, Converted(name, f.value))
    BY <1>11 DEF ConvertLong
  <2>2. p < L /\ DirectiveAt(p) # "" /\ name \in DirectiveNames
    BY <1>9, <1>11
  <2>3. Plain => Width(p) = 3 /\ name = DirectiveAt(p)
    BY <1>7
  <2>4. p + 3 <= L \/ Cut
    BY <1>6, <1>11
  <2> HIDE DEF name
  <2>5. PutAt(p) = Converted(DirectiveAt(p), f.value)
    BY <1>2 DEF PutAt
  <2>6. <<name>> \in Seq(DirectiveNames)
    <3>1. name \in DirectiveNames
      BY <2>2
    <3> QED BY <3>1
  <2>7. Plain => /\ p + 3 = p + Width(p) /\ Converted(name, f.value) = PutAt(p)
                 /\ <<name>> = IF p \in Directives THEN <<DirectiveAt(p)>> ELSE <<>>
    BY <1>2, <2>3, <2>5
  <2> QED BY <1>2, <1>8, <2>1, <2>2, <2>4, <2>6, <2>7, Turned
<1>12. CASE At(p + 2) = "l" /\ name \notin f.version.directives
  <2>1. Turn(p + 3, <<>>, <<>>)
    BY <1>12 DEF ConvertLong
  <2>4. <<>> \in Seq(DirectiveNames)
    OBVIOUS
  <2>2. ~Plain
    BY <1>7, <1>12
  <2>3. p + 3 <= L \/ Cut
    BY <1>6, <1>12
  <2> QED BY <1>8, <2>1, <2>2, <2>3, <2>4, Turned
<1> QED BY <1>10, <1>11, <1>12

\* The walk starts at the first character, with nothing taken or put out.
LEMMA WalkStarts ==
  ASSUME PrintfInit
  PROVE  ScanInv
<1>1. PICK fmt \in Formats, version \in Versions : \E value \in ValuesFor(fmt) :
        f = [version |-> version, fmt |-> fmt, value |-> value, pos |-> 1, taken |-> <<>>,
             out |-> <<>>, done |-> FALSE]
  BY DEF PrintfInit
<1>2. TypeOK /\ f.pos = 1 /\ f.taken = <<>> /\ f.out = <<>> /\ ~f.done
  BY <1>1 DEF TypeOK, Fields
<1>3. /\ Len(f.fmt) \in Nat /\ Directives \subseteq 1 .. Len(f.fmt)
      /\ Turns \subseteq 1 .. Len(f.fmt)
  BY <1>2, FormatFacts
<1>4. Rank(Directives, 1) = 0 /\ Rank(Turns, 1) = 0
  BY <1>3, RankFacts
<1>5. 1 \in Turns \cup {Len(f.fmt) + 1}
  <2> SUFFICES ASSUME 1 \notin Turns PROVE Len(f.fmt) = 0
    BY <1>3
  <2> SUFFICES ASSUME 1 \in 1 .. Len(f.fmt) PROVE FALSE
    BY <1>3
  <2>1. PICK k \in Directives : 1 \in Inside(k)
    BY DEF Turns
  <2>2. k \in Nat \ {0}
    BY <1>2, FormatFacts
  <2>3. k + 1 <= 1
    <3>1. 1 \in k + 1 .. k + Width(k)
      BY <2>1, InsideWidth
    <3> QED BY <2>2, <3>1
  <2> QED BY <2>2, <2>3
<1>6. InStep
  <2>1. /\ [n \in 1 .. 0 |-> DirectiveAt(Nth(Directives, n))] = <<>>
        /\ [n \in 1 .. 0 |-> PutAt(Nth(Turns, n))] = <<>>
    OBVIOUS
  <2> QED BY <1>2, <1>4, <1>5, <2>1 DEF InStep
<1>7. Within
  BY <1>2, <1>3 DEF Within
<1> QED BY <1>2, <1>6, <1>7 DEF ScanInv, TakenForDirective, AtEnd

\* The inductive invariant of the walk.
THEOREM PrintfInvariance == PrintfSpec => []ScanInv
<1>1. PrintfInit => ScanInv
  BY WalkStarts
<1>2. ScanInv /\ [PrintfNext]_f => ScanInv'
  <2> SUFFICES ASSUME ScanInv, [PrintfNext]_f PROVE ScanInv'
    OBVIOUS
  <2>1. CASE Literal
    BY <2>1, LiteralKeeps
  <2>2. CASE Convert
    BY <2>2, ConvertKeeps
  <2>3. CASE ConvertLong
    BY <2>3, ConvertLongKeeps
  <2>4. CASE PrintDirective
    BY <2>4, PrintDirectiveKeeps
  <2>5. CASE EndOfFormat
    BY <2>5, EndOfFormatKeeps
  <2>6. CASE UNCHANGED f
    <3>1. f' = f
      BY <2>6
    <3>2. /\ Directives' = Directives /\ Turns' = Turns /\ (Cut' <=> Cut) /\ (Plain' <=> Plain)
          /\ \A j : DirectiveAt(j)' = DirectiveAt(j) /\ PutAt(j)' = PutAt(j)
      BY <3>1, SameFormat
    <3>3. TypeOK'
      BY <3>1 DEF ScanInv, TypeOK, Fields
    <3>4. InStep'
      BY <3>1, <3>2 DEF ScanInv, InStep
    <3> QED BY <3>1, <3>2, <3>3, <3>4 DEF ScanInv, Within, TakenForDirective, AtEnd
  <2> QED BY <2>1, <2>2, <2>3, <2>4, <2>5, <2>6 DEF PrintfNext
<1> QED BY <1>1, <1>2, PTL DEF PrintfSpec

-----------------------------------------------------------------------------
(* What is printed.                                                        *)

\* In a format that is one directive, what is put out first is its value.
LEMMA OneDirective ==
  ASSUME ScanInv, f.done, f.taken # <<>>, Directives = {1}
  PROVE  /\ 1 < Len(f.fmt) /\ DirectiveAt(1) # ""
         /\ f.out[1] = Converted(DirectiveAt(1), f.value)
<1>1. TypeOK
  BY DEF ScanInv
<1>2. /\ Len(f.fmt) \in Nat /\ Directives \subseteq 1 .. Len(f.fmt)
      /\ Turns \subseteq 1 .. Len(f.fmt)
  BY <1>1, FormatFacts
<1>3. 1 < Len(f.fmt) /\ DirectiveAt(1) # ""
  BY DEF ScanInv, TakenForDirective
<1>4. Plain
  BY <1>3 DEF Plain, Directives
<1>5. 1 \in Turns
  <2>1. 1 \in 1 .. Len(f.fmt)
    BY <1>2, <1>3
  <2>2. ASSUME NEW k \in Directives PROVE 1 \notin Inside(k)
    <3>1. k = 1
      BY <2>2
    <3>2. Inside(1) = 2 .. 1 + Width(1) /\ Width(1) \in Nat
      BY InsideWidth DEF Width
    <3>3. 1 \notin Inside(1)
      BY <3>2
    <3> QED BY <3>1, <3>3
  <2> QED BY <2>1, <2>2 DEF Turns
<1>6. Nth(Turns, 1) = 1 /\ 1 \in 1 .. Cardinality(Turns)
  <2>1. Rank(Turns, 1) = 0
    BY <1>2, RankFacts
  <2>2. Rank(Turns, 1) + 1 \in 1 .. Cardinality(Turns) /\ Nth(Turns, Rank(Turns, 1) + 1) = 1
    BY <1>2, <1>5, NthIs
  <2> QED BY <2>1, <2>2
<1>7. f.out = [n \in 1 .. Cardinality(Turns) |-> PutAt(Nth(Turns, n))]
  <2>1. Rank(Turns, f.pos) = Cardinality(Turns)
    BY <1>2, RankFacts DEF ScanInv, AtEnd
  <2> QED BY <1>4, <2>1 DEF ScanInv, InStep
<1>8. f.out[1] = PutAt(1)
  BY <1>6, <1>7
<1> QED BY <1>3, <1>8 DEF PutAt

\* An int is one of the long longs,
LEMMA IntsAreLongs == Ints \subseteq Longs
<1>1. IntHalf \in Nat \ {0} /\ LongHalf \in Nat \ {0} /\ LongHalf % IntHalf = 0
  BY HalvesAssumption
<1>2. PICK q \in Int, r \in 0 .. IntHalf - 1 : r = LongHalf % IntHalf /\ LongHalf = IntHalf * q + r
  BY <1>1, DivisionIs
<1>3. LongHalf = IntHalf * q
  BY <1>1, <1>2
<1>4. q >= 1
  <2>1. q <= 0 => IntHalf * q <= 0
    BY <1>1
  <2> QED BY <1>1, <1>3, <2>1
<1>5. IntHalf <= LongHalf
  <2>1. IntHalf * q >= IntHalf
    BY <1>1, <1>4
  <2> QED BY <1>3, <2>1
<1> QED BY <1>1, <1>5 DEF Ints, Longs

\* so that the digits of the value are printed.
LEMMA WalkPrintsValue ==
  ASSUME ScanInv
  PROVE  PrintsValue
<1> SUFFICES ASSUME f.done, Len(f.taken) = 1
             PROVE  LET v  == f.value
                        ds == f.out[1]
                    IN  CASE f.fmt \in {<<"%", "d">>, <<"%", "l", "l", "d">>} ->
                               v = -LongHalf \/
                               IF v < 0 THEN Head(ds) = "-" /\ IsNumeral(Tail(ds), 10, -v)
                                        ELSE IsNumeral(ds, 10, v)
                          [] f.fmt = <<"%", "x">> ->
                               \E u \in {v % IntSpan, v % LongSpan} :
                                 /\ IsNumeral(ds, 16, u)
                                 /\ u % IntSpan = v % IntSpan /\ (v >= 0 => u = v)
                          [] f.fmt = <<"%", "l", "l", "x">> -> IsNumeral(ds, 16, v % LongSpan)
                          [] OTHER -> TRUE
  BY DEF PrintsValue
<1> DEFINE v == f.value
           ds == f.out[1]
<1>1. TypeOK /\ f.taken # <<>> /\ f.value \in ValuesFor(f.fmt)
  <2>1. Len(<<>>) # 1
    OBVIOUS
  <2>2. f.taken # <<>>
    BY <2>1
  <2> QED BY <2>2 DEF ScanInv, TypeOK
<1>2. /\ f.version.directives \subseteq {"s", "d", "c", "x", "lld", "llx"}
      /\ f.version.hex \in {IntSpan, LongSpan}
  BY <1>1, PrintfVersions DEF TypeOK, DirectiveNames
<1>3. "l" \notin f.version.directives
  BY <1>2
<1>4. CASE f.fmt = <<"%", "d">>
  <2>1. Len(f.fmt) = 2 /\ f.fmt[1] = "%" /\ f.fmt[2] = "d"
    BY <1>4
  <2>2. Directives = {1}
    BY <2>1 DEF Directives
  <2>3. DirectiveAt(1) # "" /\ ds = Converted(DirectiveAt(1), v)
    BY <1>1, <2>2, OneDirective
  <2>4. DirectiveAt(1) = "d"
    <3>1. 1 \in Directives /\ 1 < Len(f.fmt) /\ f.fmt[1 + 1] = "d"
      BY <2>1, <2>2
    <3>2. Width(1) = 1
      BY <3>1 DEF Width
    <3> QED BY <1>1, <2>3, <3>1, <3>2, DirectiveFacts
  <2>5. ds = print_int(v)
    BY <2>3, <2>4 DEF Converted
  <2>6. v \in Longs
    BY <1>1, <1>4, IntsAreLongs DEF ValuesFor
  <2>7. v = -LongHalf \/ IF v < 0 THEN Head(ds) = "-" /\ IsNumeral(Tail(ds), 10, -v)
                                 ELSE IsNumeral(ds, 10, v)
    BY <2>5, <2>6, PrintsInt
  <2> QED BY <1>4, <2>7
<1>5. CASE f.fmt = <<"%", "l", "l", "d">>
  <2>1. Len(f.fmt) = 4 /\ f.fmt[1] = "%" /\ f.fmt[2] = "l" /\ f.fmt[3] = "l" /\ f.fmt[4] = "d"
    BY <1>5
  <2>2. Directives = {1}
    BY <2>1 DEF Directives
  <2>3. DirectiveAt(1) # "" /\ ds = Converted(DirectiveAt(1), v)
    BY <1>1, <2>2, OneDirective
  <2>4. DirectiveAt(1) = "lld"
    <3>1. 1 \in Directives /\ 1 < Len(f.fmt) /\ f.fmt[1 + 1] = "l" /\ f.fmt[1 + 3] = "d"
      BY <2>1, <2>2
    <3>2. Width(1) = 3
      BY <3>1 DEF Width
    <3> QED BY <1>1, <2>3, <3>1, <3>2, DirectiveFacts
  <2>5. ds = print_int(v)
    BY <2>3, <2>4 DEF Converted
  <2>6. v \in Longs
    BY <1>1, <1>5 DEF ValuesFor
  <2>7. v = -LongHalf \/ IF v < 0 THEN Head(ds) = "-" /\ IsNumeral(Tail(ds), 10, -v)
                                 ELSE IsNumeral(ds, 10, v)
    BY <2>5, <2>6, PrintsInt
  <2> QED BY <1>5, <2>7
<1>6. CASE f.fmt = <<"%", "x">>
  <2>1. Len(f.fmt) = 2 /\ f.fmt[1] = "%" /\ f.fmt[2] = "x"
    BY <1>6
  <2>2. Directives = {1}
    BY <2>1 DEF Directives
  <2>3. DirectiveAt(1) # "" /\ ds = Converted(DirectiveAt(1), v)
    BY <1>1, <2>2, OneDirective
  <2>4. DirectiveAt(1) = "x"
    <3>1. 1 \in Directives /\ 1 < Len(f.fmt) /\ f.fmt[1 + 1] = "x"
      BY <2>1, <2>2
    <3>2. Width(1) = 1
      BY <3>1 DEF Width
    <3> QED BY <1>1, <2>3, <3>1, <3>2, DirectiveFacts
  <2>5. ds = print_hex(v % f.version.hex)
    BY <2>3, <2>4 DEF Converted
  <2>6. v \in Ints
    BY <1>1, <1>6 DEF ValuesFor
  <2>7. v \in Int
    BY <2>6, HalvesAssumption DEF Ints
  <2>8. PICK u \in {v % IntSpan, v % LongSpan} : ds = print_hex(u)
    BY <1>2, <2>5
  <2>9. u \in Nat /\ u % IntSpan = v % IntSpan /\ (v >= 0 => u = v)
    <3>1. /\ v % IntSpan \in Nat /\ v % LongSpan \in Nat
          /\ (v % IntSpan) % IntSpan = v % IntSpan /\ (v % LongSpan) % IntSpan = v % IntSpan
      BY <2>7, Widths
    <3>2. v >= 0 => v % IntSpan = v /\ v % LongSpan = v
      BY <2>6, Widths
    <3> HIDE DEF v
    <3>3. CASE u = v % IntSpan
      BY <3>1, <3>2, <3>3
    <3>4. CASE u = v % LongSpan
      BY <3>1, <3>2, <3>4
    <3> QED BY <2>8, <3>3, <3>4
  <2>10. IsNumeral(ds, 16, u)
    BY <2>8, <2>9, PrintsHex
  <2> QED BY <1>6, <2>9, <2>10
<1>7. CASE f.fmt = <<"%", "l", "l", "x">>
  <2>1. Len(f.fmt) = 4 /\ f.fmt[1] = "%" /\ f.fmt[2] = "l" /\ f.fmt[3] = "l" /\ f.fmt[4] = "x"
    BY <1>7
  <2>2. Directives = {1}
    BY <2>1 DEF Directives
  <2>3. DirectiveAt(1) # "" /\ ds = Converted(DirectiveAt(1), v)
    BY <1>1, <2>2, OneDirective
  <2>4. DirectiveAt(1) = "llx"
    <3>1. 1 \in Directives /\ 1 < Len(f.fmt) /\ f.fmt[1 + 1] = "l" /\ f.fmt[1 + 3] = "x"
      BY <2>1, <2>2
    <3>2. Width(1) = 3
      BY <3>1 DEF Width
    <3> QED BY <1>1, <2>3, <3>1, <3>2, DirectiveFacts
  <2>5. ds = print_hex(v % LongSpan)
    BY <2>3, <2>4 DEF Converted
  <2>6. v \in Int
    BY <1>1, <1>7, HalvesAssumption DEF ValuesFor, Longs
  <2>7. v % LongSpan \in Nat
    BY <2>6, Widths
  <2>8. IsNumeral(ds, 16, v % LongSpan)
    BY <2>5, <2>7, PrintsHex
  <2> QED BY <1>7, <2>8
<1> QED BY <1>4, <1>5, <1>6, <1>7

\* PrintsFormat: for every format, every version and every width of the integers,
\* printf() stops at the end of the format unless that cuts a directive, takes an
\* argument for each directive and puts each out in its turn, and the digits it puts
\* out for an integer are those of its value.
THEOREM PrintfIsRight == PrintfSpec => []PrintsFormat
<1>1. ScanInv => PrintsFormat
  <2> SUFFICES ASSUME ScanInv PROVE PrintsFormat
    OBVIOUS
  <2>1. EndsInFormat
    BY DEF ScanInv, Within, EndsInFormat
  <2>2. ArgumentsInOrder
    <3>1. /\ Len(f.fmt) \in Nat /\ Directives \subseteq 1 .. Len(f.fmt)
          /\ Turns \subseteq 1 .. Len(f.fmt)
      BY FormatFacts DEF ScanInv
    <3>2. /\ Rank(Directives, Len(f.fmt) + 1) = Cardinality(Directives)
          /\ Rank(Turns, Len(f.fmt) + 1) = Cardinality(Turns)
      BY <3>1, RankFacts
    <3> QED BY <3>2 DEF ScanInv, InStep, AtEnd, ArgumentsInOrder
  <2>3. PrintsValue
    BY WalkPrintsValue
  <2> QED BY <2>1, <2>2, <2>3 DEF PrintsFormat
<1> QED BY <1>1, PrintfInvariance, PTL
=============================================================================
