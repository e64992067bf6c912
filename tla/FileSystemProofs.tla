-------------------------- MODULE FileSystemProofs --------------------------
(***************************************************************************)
(* Proofs about FileSystem, for any disk, any names and contents and any   *)
(* depth of the tree: the tree is sound between two calls, every call does *)
(* what DirectoryTree promises, no file changes but the one a call is      *)
(* about, and no block is lost but by fs_rmdir() and a failed creation.    *)
(*                                                                         *)
(* A layout says of every inode where its blocks lie, and Holds(d, G) that *)
(* the disk d holds the layout G.  What the program finds on such a disk   *)
(* by walking along blocks is what the layout says; each call leads from   *)
(* a disk with a layout to a disk with the layout that it should have.     *)
(* The writes reach the disk one by one, so the invariant speaks of the    *)
(* disk that the writes still to be made lead to, and of the disks on the  *)
(* way, where a crash may leave it.                                        *)
(***************************************************************************)
EXTENDS FileSystem, FiniteSetTheorems, SequenceTheorems, NaturalsInduction, WellFoundedInduction, TLAPS

-----------------------------------------------------------------------------
(***************************************************************************)
(* Helpers: least elements, and walks along blocks                         *)
(***************************************************************************)

\* The least element of a set of numbers.
LEMMA LeastIsIn ==
  ASSUME NEW S, S \subseteq Nat, S # {}
  PROVE  Min(S) \in S /\ \A k \in S : Min(S) <= k
<1>1. PICK x \in S : \A e \in S : ~ (<<e, x>> \in OpToRel(<, Nat))
  BY WFMin, NatLessThanWellFounded
<1>2. \A e \in S : ~ (e < x)
  BY <1>1 DEF OpToRel
<1>3. \A e \in S : x <= e
  BY <1>2
<1> QED BY <1>3 DEF Min

\* What holds at zero and goes on from each number to the next holds of all.
LEMMA Climbs ==
  ASSUME NEW N \in Nat, NEW G, 0 \in G, \A k \in 1 .. N : k - 1 \in G => k \in G
  PROVE  \A k \in 0 .. N : k \in G
<1> DEFINE S == {k \in 0 .. N : k \notin G}
           m == Min(S)
<1> SUFFICES ASSUME S # {} PROVE FALSE
  OBVIOUS
<1>1. m \in S /\ \A k \in S : m <= k
  <2>1. S \subseteq Nat
    OBVIOUS
  <2> HIDE DEF S
  <2> QED BY <2>1, LeastIsIn
<1> HIDE DEF m
<1>2. m \in 1 .. N /\ m - 1 \in 0 .. N
  BY <1>1
<1>3. m - 1 \notin S
  <2>1. ~(m <= m - 1)
    BY <1>2
  <2> HIDE DEF S
  <2> QED BY <1>1, <2>1
<1> QED BY <1>1, <1>2, <1>3

\* The walk along blocks that lead on finds all of them.
LEMMA AlongIs ==
  ASSUME NEW d, NEW on, NEW s \in Seq(Nat), Len(s) \in 1 .. MAX_BLOCK + 1, s[Len(s)] \notin on,
         \A k \in 1 .. Len(s) - 1 : s[k] \in on /\ d[s[k]].next = s[k + 1]
  PROVE  Along(d, s[1], on) = s
<1> DEFINE n == Len(s)
           M == MAX_BLOCK
           Onward(w) == IF Last(w) \in on THEN Append(w, d[Last(w)].next) ELSE w
           P(f) == f = [k \in 0 .. M |-> IF k = 0 THEN <<s[1]>> ELSE Onward(f[k - 1])]
           from == CHOOSE f : P(f)
           g == [k \in 0 .. M |-> SubSeq(s, 1, IF k + 1 <= n THEN k + 1 ELSE n)]
<1>0. M \in Nat /\ n \in 1 .. M + 1
  BY MaxBlockAssumption
<1>1. Along(d, s[1], on) = from[M]
  BY DEF Along
<1>2. ASSUME NEW j \in 1 .. n
      PROVE  /\ Last(SubSeq(s, 1, j)) = s[j]
             /\ j < n => Onward(SubSeq(s, 1, j)) = SubSeq(s, 1, j + 1)
             /\ j = n => Onward(SubSeq(s, 1, j)) = SubSeq(s, 1, j)
  <2>1. Last(SubSeq(s, 1, j)) = s[j]
    BY <1>2 DEF Last
  <2>2. j < n => Append(SubSeq(s, 1, j), s[j + 1]) = SubSeq(s, 1, j + 1)
    BY <1>2
  <2>3. j < n => s[j] \in on /\ d[s[j]].next = s[j + 1]
    BY <1>2
  <2> QED BY <2>1, <2>2, <2>3
<1> HIDE DEF Onward
<1>3. /\ \A k \in 0 .. M : k + 1 <= n => g[k] = SubSeq(s, 1, k + 1)
      /\ \A k \in 0 .. M : k + 1 > n => g[k] = SubSeq(s, 1, n)
  BY <1>0
<1> HIDE DEF g
<1>10. g[0] = <<s[1]>>
  <2>1. Len(SubSeq(s, 1, 1)) = 1 /\ SubSeq(s, 1, 1)[1] = s[1] /\ SubSeq(s, 1, 1) \in Seq(Nat)
    BY <1>0
  <2>2. 0 \in 0 .. M /\ 0 + 1 <= n /\ 0 + 1 = 1
    BY <1>0
  <2> DEFINE w == g[0]
             u == <<s[1]>>
  <2>3. Len(w) = 1 /\ w[1] = s[1] /\ w \in Seq(Nat)
    BY <1>3, <2>1, <2>2
  <2>4. Len(u) = 1 /\ u[1] = s[1] /\ u \in Seq(Nat)
    BY <1>0
  <2> HIDE DEF w, u
  <2>5. w = u
    BY <2>3, <2>4, SeqEqual
  <2> QED BY <2>5 DEF w, u
<1>4. ASSUME NEW k \in 1 .. M PROVE g[k] = Onward(g[k - 1])
  <2>0. k \in 0 .. M /\ k - 1 \in 0 .. M /\ (k - 1) + 1 = k /\ k \in Nat
    BY <1>0
  <2>1. CASE k + 1 <= n
    <3>1. g[k] = SubSeq(s, 1, k + 1) /\ g[k - 1] = SubSeq(s, 1, k) /\ k \in 1 .. n /\ k < n
      BY <1>0, <1>3, <2>0, <2>1
    <3> QED BY <1>2, <3>1
  <2>2. CASE k + 1 > n
    <3>1. g[k] = SubSeq(s, 1, n) /\ n \in 1 .. n
      BY <1>0, <1>3, <2>0, <2>2
    <3>2. CASE k = n
      <4>1. g[k - 1] = SubSeq(s, 1, n)
        BY <1>0, <1>3, <2>0, <3>2
      <4> QED BY <1>2, <3>1, <4>1
    <3>3. CASE k > n
      <4>1. g[k - 1] = SubSeq(s, 1, n)
        BY <1>0, <1>3, <2>0, <3>3
      <4> QED BY <1>2, <3>1, <4>1
    <3> QED BY <1>0, <2>0, <2>2, <3>2, <3>3
  <2> QED BY <1>0, <2>0, <2>1, <2>2
<1>5. P(g)
  <2>1. \A k \in 0 .. M : g[k] = IF k = 0 THEN <<s[1]>> ELSE Onward(g[k - 1])
    <3>1. \A k \in 0 .. M : k # 0 => k \in 1 .. M
      BY <1>0
    <3> HIDE DEF M
    <3> QED BY <3>1, <1>10, <1>4
  <2>2. g = [k \in 0 .. M |-> g[k]]
    BY DEF g
  <2> QED BY <2>1, <2>2
<1>6. P(from)
  BY <1>5
<1> HIDE DEF from
<1>7. \A k \in 0 .. M : from[k] = IF k = 0 THEN <<s[1]>> ELSE Onward(from[k - 1])
  BY <1>6
<1>8. \A k \in 0 .. M : from[k] = g[k]
  <2> DEFINE G == {k \in 0 .. M : from[k] = g[k]}
  <2>1. 0 \in G
    <3>1. 0 \in 0 .. M
      BY <1>0
    <3>2. from[0] = <<s[1]>>
      BY <3>1, <1>7
    <3> QED BY <3>1, <3>2, <1>10
  <2>2. ASSUME NEW k \in 1 .. M, k - 1 \in G PROVE k \in G
    BY <1>0, <1>4, <1>7, <2>2
  <2>3. \A k \in 0 .. M : k \in G
    <3> HIDE DEF G
    <3> QED BY <1>0, <2>1, <2>2, Climbs
  <2> QED BY <2>3
<1>9. from[M] = s
  <2>1. g[M] = SubSeq(s, 1, n)
    <3>1. M \in 0 .. M /\ (M + 1 > n \/ M + 1 = n)
      BY <1>0
    <3> QED BY <1>3, <3>1
  <2>2. SubSeq(s, 1, n) = s
    BY <1>0
  <2> QED BY <1>0, <1>8, <2>1, <2>2
<1> QED BY <1>1, <1>9

-----------------------------------------------------------------------------
(***************************************************************************)
(* Layouts: where the tree lies on the disk                                *)
(***************************************************************************)
\* The blocks that dalloc() hands out.
Numbers == 1 .. MAX_BLOCK - 1

\* A layout G says of each inode of the tree what it is and where it lies: blocks are its list blocks or
\* its data blocks, kids the inodes that its list names, data what its data blocks hold.
Placed(T) ==
  [dir : BOOLEAN, name : Names \cup {NoName}, parent : T, level : 0 .. Depth, size : 0 .. MaxSize,
   blocks : Seq(Numbers), kids : Seq(T), data : Seq(Chunks \cup {Blank})]

LayoutType(G) ==
  /\ DOMAIN G \subseteq Numbers /\ Root \in DOMAIN G /\ G = [i \in DOMAIN G |-> G[i]]
  /\ \A i \in DOMAIN G : G[i] \in Placed(DOMAIN G)

\* A list has one block more than entries; a file has been written up to its size.
KindOK(g) ==
  IF g.dir THEN Len(g.blocks) = Len(g.kids) + 1 /\ g.size = 0 /\ g.data = <<>>
  ELSE /\ Len(g.blocks) = Len(g.data) /\ Len(g.data) >= 1 /\ g.kids = <<>>
       /\ g.size <= Len(g.data) /\ \A k \in 1 .. g.size : g.data[k] \in Chunks

KindsOK(G) == \A i \in DOMAIN G : KindOK(G[i])

RootOK(G) == G[Root].dir /\ G[Root].level = 0 /\ G[Root].parent = Root /\ G[Root].name = NoName

\* Every inode but the root is named once, by its parent.
NamesKids(G) ==
  \A i \in DOMAIN G : \A k \in 1 .. Len(G[i].kids) :
    LET j == G[i].kids[k] IN j # Root /\ G[j].parent = i /\ G[j].level = G[i].level + 1
NamesOnce(G) ==
  \A i \in DOMAIN G : \A k, l \in 1 .. Len(G[i].kids) : G[i].kids[k] = G[i].kids[l] => k = l
Named1(G, j) == \E k \in 1 .. Len(G[G[j].parent].kids) : G[G[j].parent].kids[k] = j
NamesAll(G) == \A j \in DOMAIN G \ {Root} : Named1(G, j)

\* No block belongs to two.
BlocksApart(G) == \A i \in DOMAIN G : \A k \in 1 .. Len(G[i].blocks) : G[i].blocks[k] \notin DOMAIN G
BlocksOnce(G) ==
  \A i, j \in DOMAIN G : \A k \in 1 .. Len(G[i].blocks), l \in 1 .. Len(G[j].blocks) :
    G[i].blocks[k] = G[j].blocks[l] => i = j /\ k = l

Layout(G) ==
  /\ LayoutType(G) /\ KindsOK(G) /\ RootOK(G) /\ NamesKids(G) /\ NamesOnce(G) /\ NamesAll(G)
  /\ BlocksApart(G) /\ BlocksOnce(G)

\* The disk d holds the layout G.
Block ==
  [kind : {"zeros"}, flag : 0 .. 1] \cup [kind : {"super"}, flag : {1}, root : Nat]
  \cup [kind : {"inode"}, flag : {1}, isDirectory : BOOLEAN, name : Names \cup {NoName}, parent : Nat,
        start : Nat, size : Nat, addr : Nat]
  \cup [kind : {"list"}, flag : 1 .. 2, addr : Nat, inode : Nat, next : Nat]
  \cup [kind : {"data"}, flag : {1}, data : Chunks \cup {Blank}, addr : Nat, prev : Nat, next : Nat]

Disks == [Blocks -> Block]

InodeOf(g, i) ==
  [kind |-> "inode", flag |-> 1, isDirectory |-> g.dir, name |-> g.name,
   parent |-> g.parent, start |-> g.blocks[1], size |-> g.size, addr |-> i]

HoldsList(d, b, kids) ==
  /\ \A k \in 1 .. Len(kids) : d[b[k]] = List(1, b[k], kids[k], b[k + 1])
  /\ d[b[Len(kids) + 1]] = List(2, b[Len(kids) + 1], 0, 0)

HoldsData(d, b, data) ==
  /\ \A k \in 1 .. Len(data) - 1 : d[b[k]] = Data(data[k], b[k], d[b[k]].prev, b[k + 1])
  /\ d[b[Len(data)]] = Data(data[Len(data)], b[Len(data)], d[b[Len(data)]].prev, 0)

HoldsAt(d, g, i) ==
  /\ d[i] = InodeOf(g, i)
  /\ IF g.dir THEN HoldsList(d, g.blocks, g.kids) ELSE HoldsData(d, g.blocks, g.data)

Holds(d, G) == d \in Disks /\ d[0] = Super(Root) /\ \A i \in DOMAIN G : HoldsAt(d, G[i], i)

\* The objects of a layout, as Objects() finds them.
ObjectOf(g) == [dir |-> g.dir, name |-> g.name, kids |-> g.kids, data |-> SubSeq(g.data, 1, g.size)]
ObjectsOf(G) == [i \in DOMAIN G |-> ObjectOf(G[i])]

\* The blocks of one inode and of all.
BlocksOf(g) == {g.blocks[k] : k \in 1 .. Len(g.blocks)}
UsedBy(g, i) == {i} \cup BlocksOf(g)

-----------------------------------------------------------------------------
\* What a layout says of one inode.
LEMMA PlaceOf ==
  ASSUME NEW G, Layout(G), NEW i \in DOMAIN G
  PROVE  /\ i \in Numbers /\ i \in Nat /\ i # 0 /\ i \in Blocks
         /\ G[i].dir \in BOOLEAN /\ G[i].name \in Names \cup {NoName} /\ G[i].parent \in DOMAIN G
         /\ G[i].level \in 0 .. Depth /\ G[i].size \in 0 .. MaxSize
         /\ G[i].blocks \in Seq(Numbers) /\ G[i].kids \in Seq(DOMAIN G)
         /\ G[i].data \in Seq(Chunks \cup {Blank})
         /\ Len(G[i].blocks) >= 1 /\ Len(G[i].blocks) \in Nat /\ G[i].blocks[1] \in Numbers
         /\ Len(G[i].kids) \in Nat /\ Len(G[i].data) \in Nat
         /\ KindOK(G[i])
<1>1. G[i] \in Placed(DOMAIN G) /\ DOMAIN G \subseteq Numbers /\ KindOK(G[i])
  BY DEF Layout, LayoutType, KindsOK
<1>2. Numbers \subseteq Nat \ {0} /\ Numbers \subseteq Blocks
  BY MaxBlockAssumption DEF Numbers, Blocks
<1>3. /\ i \in Numbers /\ i \in Nat /\ i # 0 /\ i \in Blocks
      /\ G[i].dir \in BOOLEAN /\ G[i].name \in Names \cup {NoName} /\ G[i].parent \in DOMAIN G
      /\ G[i].level \in 0 .. Depth /\ G[i].size \in 0 .. MaxSize
      /\ G[i].blocks \in Seq(Numbers) /\ G[i].kids \in Seq(DOMAIN G)
      /\ G[i].data \in Seq(Chunks \cup {Blank})
  BY <1>1, <1>2 DEF Placed
<1>4. Len(G[i].kids) \in Nat /\ Len(G[i].data) \in Nat /\ Len(G[i].blocks) \in Nat
  BY <1>3
<1>5. Len(G[i].blocks) >= 1
  BY <1>1, <1>4, <1>3 DEF KindOK
<1>6. G[i].blocks[1] \in Numbers
  BY <1>3, <1>4, <1>5
<1> QED BY <1>1, <1>3, <1>4, <1>5, <1>6

\* There are not more blocks in a list or a chain than on the disk.
LEMMA BlocksBound ==
  ASSUME NEW G, Layout(G), NEW i \in DOMAIN G
  PROVE  Len(G[i].blocks) \in 1 .. MAX_BLOCK + 1
<1> DEFINE b == G[i].blocks
           n == Len(b)
           S == 1 .. n
<1>1. b \in Seq(Numbers) /\ n \in Nat /\ n >= 1
  BY PlaceOf
<1>2. \A k, l \in S : b[k] = b[l] => k = l
  BY DEF Layout, BlocksOnce
<1>3. MAX_BLOCK \in Nat /\ MAX_BLOCK > 3
  BY MaxBlockAssumption
<1> SUFFICES ASSUME n > MAX_BLOCK + 1 PROVE FALSE
  BY <1>1, <1>3
<1>4. IsFiniteSet(S) /\ Cardinality(S) = n
  BY <1>1, FS_Interval
<1>5. IsFiniteSet(Numbers) /\ Cardinality(Numbers) = MAX_BLOCK - 1
  <2> DEFINE q == MAX_BLOCK - 1
  <2>1. q \in Nat /\ q >= 1 /\ Numbers = 1 .. q
    BY <1>3 DEF Numbers
  <2> HIDE DEF q
  <2>2. IsFiniteSet(Numbers) /\ Cardinality(Numbers) = q
    BY <2>1, FS_Interval
  <2> QED BY <2>2 DEF q
<1> DEFINE f == [k \in S |-> b[k]]
<1>6. f \in [S -> Numbers]
  BY <1>1
<1>7. Cardinality(Numbers) < Cardinality(S)
  BY <1>3, <1>4, <1>5, <1>1
<1>8. \A k, l \in S : f[k] = f[l] => k = l
  BY <1>2
<1> HIDE DEF f, S
<1> QED BY <1>4, <1>5, <1>6, <1>7, <1>8, FS_PigeonHole

\* A place in a list or in a chain holds a block of the disk.
LEMMA BlockAt ==
  ASSUME NEW G, Layout(G), NEW i \in DOMAIN G, NEW k \in 1 .. Len(G[i].blocks)
  PROVE  /\ G[i].blocks[k] \in Numbers /\ G[i].blocks[k] \in Nat /\ G[i].blocks[k] # 0
         /\ G[i].blocks[k] \in Blocks /\ G[i].blocks[k] \notin DOMAIN G /\ G[i].blocks[k] \in BlocksOf(G[i])
<1>1. G[i].blocks \in Seq(Numbers)
  BY PlaceOf
<1>2. G[i].blocks[k] \in Numbers
  BY <1>1
<1> QED BY <1>2, MaxBlockAssumption DEF Numbers, Blocks, Layout, BlocksApart, BlocksOf

\* A place in a list of names holds an inode of the tree.
LEMMA KidAt ==
  ASSUME NEW G, Layout(G), NEW i \in DOMAIN G, NEW k \in 1 .. Len(G[i].kids)
  PROVE  /\ G[i].dir /\ G[i].kids[k] \in DOMAIN G /\ G[i].kids[k] # Root
         /\ G[G[i].kids[k]].parent = i /\ G[G[i].kids[k]].level = G[i].level + 1
<1>1. G[i].kids \in Seq(DOMAIN G) /\ KindOK(G[i]) /\ G[i].dir \in BOOLEAN
  BY PlaceOf
<1>2. G[i].dir
  BY <1>1 DEF KindOK
<1> QED BY <1>1, <1>2 DEF Layout, NamesKids

\* What one inode leads to depends on its own blocks.
LEMMA Frame ==
  ASSUME NEW d, NEW e, NEW g, NEW i, KindOK(g), g.blocks \in Seq(Numbers), g.kids \in Seq(Nat),
         g.data \in Seq(Chunks \cup {Blank}), g.dir \in BOOLEAN,
         HoldsAt(d, g, i), \A n \in UsedBy(g, i) : e[n] = d[n]
  PROVE  HoldsAt(e, g, i)
<1>1. e[i] = d[i] /\ \A k \in 1 .. Len(g.blocks) : e[g.blocks[k]] = d[g.blocks[k]]
  BY DEF UsedBy, BlocksOf
<1>2. CASE g.dir
  <2>1. Len(g.blocks) = Len(g.kids) + 1 /\ Len(g.kids) \in Nat
    BY <1>2 DEF KindOK
  <2>2. HoldsList(e, g.blocks, g.kids)
    <3>1. HoldsList(d, g.blocks, g.kids)
      BY <1>2 DEF HoldsAt
    <3> QED BY <1>1, <2>1, <3>1 DEF HoldsList
  <2> QED BY <1>1, <1>2, <2>2 DEF HoldsAt
<1>3. CASE ~g.dir
  <2>1. Len(g.blocks) = Len(g.data) /\ Len(g.data) \in Nat /\ Len(g.data) >= 1
    BY <1>3 DEF KindOK
  <2>2. HoldsData(e, g.blocks, g.data)
    <3>1. HoldsData(d, g.blocks, g.data)
      BY <1>3 DEF HoldsAt
    <3>2. \A k \in 1 .. Len(g.data) - 1 : k \in 1 .. Len(g.blocks) /\ k + 1 \in 1 .. Len(g.blocks)
      BY <2>1
    <3>3. Len(g.data) \in 1 .. Len(g.blocks)
      BY <2>1
    <3>4. \A k \in 1 .. Len(g.data) - 1 :
            e[g.blocks[k]] = Data(g.data[k], g.blocks[k], e[g.blocks[k]].prev, g.blocks[k + 1])
      BY <1>1, <3>1, <3>2 DEF HoldsData
    <3>5. e[g.blocks[Len(g.data)]] =
            Data(g.data[Len(g.data)], g.blocks[Len(g.data)], e[g.blocks[Len(g.data)]].prev, 0)
      BY <1>1, <3>1, <3>3 DEF HoldsData
    <3> QED BY <3>4, <3>5 DEF HoldsData
  <2> QED BY <1>1, <1>3, <2>2 DEF HoldsAt
<1> QED BY <1>2, <1>3

-----------------------------------------------------------------------------
(***************************************************************************)
(* What walks, chains and the tree find on a disk that holds a layout      *)
(***************************************************************************)

\* A list that leads as far as its last block, whatever that is.
HoldsKids(d, b, kids) ==
  /\ \A k \in 1 .. Len(kids) : d[b[k]] = List(1, b[k], kids[k], b[k + 1])
  /\ ~(d[b[Len(kids) + 1]].kind = "list" /\ d[b[Len(kids) + 1]].flag = 1)

\* The walk along a list.
LEMMA ListWalkIs ==
  ASSUME NEW d, DOMAIN d = Blocks, NEW G, Layout(G), NEW i \in DOMAIN G, G[i].dir,
         HoldsKids(d, G[i].blocks, G[i].kids)
  PROVE  Walk(d, G[i].blocks[1]) = G[i].blocks
<1> DEFINE b == G[i].blocks
           kids == G[i].kids
           n == Len(kids)
           on == {m \in DOMAIN d : d[m].kind = "list" /\ d[m].flag = 1}
<1>1. b \in Seq(Numbers) /\ n \in Nat /\ Len(b) = n + 1
  BY PlaceOf DEF KindOK
<1>2. \A k \in 1 .. n + 1 : b[k] \in Blocks
  BY <1>1, BlockAt
<1>3. HoldsKids(d, b, kids)
  OBVIOUS
<1>4. \A k \in 1 .. n : d[b[k]] = List(1, b[k], kids[k], b[k + 1])
  BY <1>3 DEF HoldsKids
<1>5. ~(d[b[n + 1]].kind = "list" /\ d[b[n + 1]].flag = 1)
  BY <1>3 DEF HoldsKids
<1>6. ASSUME NEW k \in 1 .. Len(b) - 1 PROVE b[k] \in on /\ d[b[k]].next = b[k + 1]
  <2>1. k \in 1 .. n /\ b[k] \in Blocks
    BY <1>1, <1>2
  <2>2. d[b[k]].kind = "list" /\ d[b[k]].flag = 1 /\ d[b[k]].next = b[k + 1]
    <3>1. d[b[k]] = List(1, b[k], kids[k], b[k + 1])
      BY <1>4, <2>1
    <3> QED BY <3>1 DEF List
  <2> QED BY <2>1, <2>2
<1>7. b[Len(b)] \notin on
  BY <1>1, <1>5
<1>8. b \in Seq(Nat)
  BY <1>1, MaxBlockAssumption DEF Numbers
<1>9. Len(b) \in 1 .. MAX_BLOCK + 1
  BY BlocksBound
<1>10. Along(d, b[1], on) = b
  <2> HIDE DEF b, on, n
  <2>1. \A k \in 1 .. Len(b) - 1 : b[k] \in on /\ d[b[k]].next = b[k + 1]
    BY <1>6
  <2> QED BY <2>1, <1>7, <1>8, <1>9, AlongIs, SMTT(60)
<1> QED BY <1>10 DEF Walk

\* A list that is whole.
LEMMA ListHolds ==
  ASSUME NEW d, NEW G, NEW i, G[i].dir, HoldsAt(d, G[i], i)
  PROVE  HoldsKids(d, G[i].blocks, G[i].kids)
<1> DEFINE b == G[i].blocks
           x == b[Len(G[i].kids) + 1]
<1>1. HoldsList(d, b, G[i].kids)
  BY DEF HoldsAt
<1>2. d[x] = List(2, x, 0, 0)
  BY <1>1 DEF HoldsList
<1> HIDE DEF x
<1>3. d[x].flag = 2
  BY <1>2 DEF List
<1>4. HoldsKids(d, b, G[i].kids)
  BY <1>1, <1>3 DEF HoldsList, HoldsKids, x
<1> QED BY <1>4

LEMMA WalkIs ==
  ASSUME NEW d, DOMAIN d = Blocks, NEW G, Layout(G), NEW i \in DOMAIN G, G[i].dir, HoldsAt(d, G[i], i)
  PROVE  Walk(d, G[i].blocks[1]) = G[i].blocks
BY ListHolds, ListWalkIs

\* The list comes to its end.
LEMMA WalkEnds ==
  ASSUME NEW d, DOMAIN d = Blocks, NEW G, Layout(G), NEW i \in DOMAIN G, G[i].dir, HoldsAt(d, G[i], i)
  PROVE  /\ Ends(d, G[i].blocks)
         /\ d[Last(G[i].blocks)] = List(2, Last(G[i].blocks), 0, 0)
         /\ Len(G[i].blocks) = Len(G[i].kids) + 1
<1> DEFINE b == G[i].blocks
           kids == G[i].kids
           n == Len(kids)
<1>1. b \in Seq(Numbers) /\ n \in Nat /\ Len(b) = n + 1
  BY PlaceOf DEF KindOK
<1>2. b[n + 1] \in Blocks
  BY <1>1, BlockAt
<1>3. d[b[n + 1]] = List(2, b[n + 1], 0, 0)
  BY DEF HoldsAt, HoldsList
<1>4. Last(b) = b[n + 1]
  BY <1>1 DEF Last
<1> QED BY <1>1, <1>2, <1>3, <1>4 DEF Ends, List

\* The walk along a chain of data.
LEMMA DataBlocksIs ==
  ASSUME NEW d, DOMAIN d = Blocks, NEW G, Layout(G), NEW i \in DOMAIN G, ~G[i].dir, HoldsAt(d, G[i], i)
  PROVE  DataBlocks(d, G[i].blocks[1]) = G[i].blocks
<1> DEFINE b == G[i].blocks
           data == G[i].data
           n == Len(data)
           on == {m \in DOMAIN d : AsData(d[m]).next # 0}
<1>1. b \in Seq(Numbers) /\ n \in Nat /\ Len(b) = n /\ n >= 1
  BY PlaceOf DEF KindOK
<1>2. \A k \in 1 .. n : b[k] \in Blocks /\ b[k] # 0
  BY <1>1, BlockAt
<1>3. HoldsData(d, b, data)
  BY DEF HoldsAt
<1>4. \A k \in 1 .. n - 1 : d[b[k]] = Data(data[k], b[k], d[b[k]].prev, b[k + 1])
  BY <1>3 DEF HoldsData
<1>5. d[b[n]] = Data(data[n], b[n], d[b[n]].prev, 0)
  BY <1>3 DEF HoldsData
<1>6. ASSUME NEW k \in 1 .. Len(b) - 1 PROVE b[k] \in on /\ d[b[k]].next = b[k + 1]
  <2>1. k \in 1 .. n /\ k + 1 \in 1 .. n
    BY <1>1
  <2>2. d[b[k]].kind = "data" /\ d[b[k]].next = b[k + 1]
    <3>1. d[b[k]] = Data(data[k], b[k], d[b[k]].prev, b[k + 1])
      BY <1>1, <1>4
    <3> QED BY <3>1 DEF Data
  <2> QED BY <1>2, <2>1, <2>2 DEF AsData
<1>7. b[Len(b)] \notin on
  <2>1. d[b[n]].kind = "data" /\ d[b[n]].next = 0
    BY <1>5 DEF Data
  <2> QED BY <1>1, <2>1 DEF AsData
<1>8. b \in Seq(Nat)
  BY <1>1, MaxBlockAssumption DEF Numbers
<1>9. Len(b) \in 1 .. MAX_BLOCK + 1
  BY BlocksBound
<1>10. Along(d, b[1], on) = b
  <2> HIDE DEF b, on, n
  <2> QED BY <1>6, <1>7, <1>8, <1>9, AlongIs
<1> QED BY <1>10 DEF DataBlocks

\* What the calls find at an inode.
LEMMA InodeIs ==
  ASSUME NEW d, NEW G, Layout(G), NEW i \in DOMAIN G, HoldsAt(d, G[i], i)
  PROVE  /\ AsInode(d[i]) = d[i] /\ d[i] = InodeOf(G[i], i)
         /\ d[i].kind = "inode" /\ d[i].flag = 1 /\ d[i].isDirectory = G[i].dir /\ d[i].name = G[i].name
         /\ d[i].parent = G[i].parent /\ d[i].start = G[i].blocks[1] /\ d[i].size = G[i].size /\ d[i].addr = i
<1>1. d[i] = InodeOf(G[i], i)
  BY DEF HoldsAt
<1> QED BY <1>1 DEF InodeOf, AsInode

\* The blocks an inode leads to.
LEMMA ChainIs ==
  ASSUME NEW d, DOMAIN d = Blocks, NEW G, Layout(G), NEW i \in DOMAIN G, HoldsAt(d, G[i], i)
  PROVE  Chain(d, i) = G[i].blocks
<1>1. G[i].dir \in BOOLEAN
  BY PlaceOf
<1> QED BY <1>1, InodeIs, WalkIs, DataBlocksIs DEF Chain

\* The inodes a directory names.
LEMMA NamedIs ==
  ASSUME NEW d, DOMAIN d = Blocks, NEW G, Layout(G), NEW i \in DOMAIN G, G[i].dir,
         HoldsKids(d, G[i].blocks, G[i].kids)
  PROVE  Named(d, G[i].blocks[1]) = G[i].kids
<1> DEFINE b == G[i].blocks
           kids == G[i].kids
           w == Walk(d, b[1])
           u == [k \in 1 .. Len(w) - 1 |-> d[w[k]].inode]
<1>1. w = b
  BY ListWalkIs
<1>2. Len(b) = Len(kids) + 1 /\ Len(kids) \in Nat /\ kids \in Seq(DOMAIN G)
  BY PlaceOf DEF KindOK
<1>3. ASSUME NEW k \in 1 .. Len(kids) PROVE d[b[k]].inode = kids[k]
  <2>1. d[b[k]] = List(1, b[k], kids[k], b[k + 1])
    BY DEF HoldsKids
  <2> QED BY <2>1 DEF List
<1>4. Named(d, b[1]) = u
  BY DEF Named
<1> HIDE DEF b, w
<1>5. u = kids
  <2>1. u = [k \in 1 .. Len(kids) |-> kids[k]]
    BY <1>1, <1>2, <1>3
  <2>2. kids = [k \in 1 .. Len(kids) |-> kids[k]]
    BY <1>2
  <2> QED BY <2>1, <2>2
<1> QED BY <1>4, <1>5 DEF b

LEMMA KidsIs ==
  ASSUME NEW d, DOMAIN d = Blocks, NEW G, Layout(G), NEW i \in DOMAIN G, HoldsAt(d, G[i], i)
  PROVE  Kids(d, i) = G[i].kids
<1>1. CASE G[i].dir
  <2>1. AsInode(d[i]).isDirectory /\ d[i].start = G[i].blocks[1]
    BY <1>1, InodeIs
  <2>2. HoldsKids(d, G[i].blocks, G[i].kids)
    BY <1>1, ListHolds
  <2>3. Named(d, G[i].blocks[1]) = G[i].kids
    BY <1>1, <2>2, NamedIs
  <2> QED BY <2>1, <2>3 DEF Kids
<1>2. CASE ~G[i].dir
  <2>1. G[i].kids = <<>>
    BY <1>2, PlaceOf DEF KindOK
  <2>2. Kids(d, i) = <<>>
    BY <1>2, InodeIs DEF Kids
  <2> QED BY <2>1, <2>2
<1> QED BY <1>1, <1>2

\* The tree that the directories lead to.
LEMMA TreeFrom ==
  ASSUME NEW d, NEW G, Layout(G), \A i \in DOMAIN G : Kids(d, i) = G[i].kids
  PROVE  Tree(d) = DOMAIN G
<1> DEFINE D == Depth
           WithKids(S) == S \cup UNION {ToSet(Kids(d, i)) : i \in S}
           P(f) == f = [k \in 0 .. D |-> IF k = 0 THEN {Root} ELSE WithKids(f[k - 1])]
           level == CHOOSE f : P(f)
           Upto(k) == {i \in DOMAIN G : G[i].level <= k}
           g == [k \in 0 .. D |-> Upto(k)]
<1>0. D \in Nat
  BY SizesAssumption
<1>1. Tree(d) = level[D]
  BY DEF Tree
<1>3. \A i \in DOMAIN G : Kids(d, i) = G[i].kids
  OBVIOUS
<1>4. Upto(0) = {Root}
  <2>1. Root \in DOMAIN G /\ G[Root].level = 0
    BY DEF Layout, LayoutType, RootOK
  <2>2. ASSUME NEW i \in DOMAIN G, G[i].level <= 0, i # Root PROVE FALSE
    <3>1. G[i].parent \in DOMAIN G /\ G[i].level = 0
      <4>1. G[i].parent \in DOMAIN G /\ G[i].level \in 0 .. Depth
        BY PlaceOf
      <4> QED BY <2>2, <4>1, SizesAssumption
    <3>2. PICK k \in 1 .. Len(G[G[i].parent].kids) : G[G[i].parent].kids[k] = i
      BY <2>2 DEF Layout, NamesAll, Named1
    <3>3. G[i].level = G[G[i].parent].level + 1
      BY <3>1, <3>2, KidAt
    <3>4. G[G[i].parent].level \in 0 .. Depth
      BY <3>1, PlaceOf
    <3> QED BY <3>1, <3>3, <3>4, <1>0
  <2> QED BY <2>1, <2>2
<1>5. ASSUME NEW k \in 1 .. D PROVE Upto(k) = WithKids(Upto(k - 1))
  <2>0. \A i \in DOMAIN G : G[i].level \in Nat
    BY PlaceOf, <1>0
  <2>1. ASSUME NEW i \in Upto(k) PROVE i \in WithKids(Upto(k - 1))
    <3>1. CASE G[i].level <= k - 1
      BY <3>1
    <3>2. CASE G[i].level > k - 1
      <4>1. i # Root
        BY <3>2, <1>5 DEF Layout, RootOK
      <4> DEFINE p == G[i].parent
      <4>2. p \in DOMAIN G
        BY PlaceOf
      <4>3. PICK m \in 1 .. Len(G[p].kids) : G[p].kids[m] = i
        BY <4>1 DEF Layout, NamesAll, Named1
      <4>4. G[i].level = G[p].level + 1
        BY <4>2, <4>3, KidAt
      <4>5. p \in Upto(k - 1)
        BY <4>2, <4>4, <2>0
      <4>6. i \in ToSet(Kids(d, p))
        <5>1. G[p].kids \in Seq(DOMAIN G)
          BY <4>2, PlaceOf
        <5> QED BY <4>2, <4>3, <1>3, <5>1 DEF ToSet
      <4> HIDE DEF p
      <4> QED BY <4>5, <4>6
    <3> QED BY <3>1, <3>2, <2>0
  <2>2. ASSUME NEW i \in WithKids(Upto(k - 1)) PROVE i \in Upto(k)
    <3>1. CASE i \in Upto(k - 1)
      BY <3>1, <2>0
    <3>2. CASE \E p \in Upto(k - 1) : i \in ToSet(Kids(d, p))
      <4>1. PICK p \in Upto(k - 1) : i \in ToSet(Kids(d, p))
        BY <3>2
      <4>2. G[p].kids \in Seq(DOMAIN G)
        BY PlaceOf
      <4>3. PICK m \in 1 .. Len(G[p].kids) : i = G[p].kids[m]
        BY <4>1, <4>2, <1>3 DEF ToSet
      <4>4. i \in DOMAIN G /\ G[i].level = G[p].level + 1
        BY <4>3, KidAt
      <4> QED BY <4>1, <4>4, <2>0
    <3> QED BY <2>2, <3>1, <3>2
  <2> HIDE DEF WithKids, Upto
  <2> QED BY <2>1, <2>2
<1> HIDE DEF WithKids, Upto
<1>6. P(g)
  <2>1. \A k \in 0 .. D : g[k] = IF k = 0 THEN {Root} ELSE WithKids(g[k - 1])
    <3>1. \A k \in 0 .. D : k # 0 => k \in 1 .. D /\ k - 1 \in 0 .. D
      BY <1>0
    <3> HIDE DEF D
    <3> QED BY <3>1, <1>4, <1>5
  <2>2. g = [k \in 0 .. D |-> g[k]]
    OBVIOUS
  <2> HIDE DEF g
  <2> QED BY <2>1, <2>2
<1>7. P(level)
  BY <1>6
<1>10. \A k \in 0 .. D : g[k] = Upto(k)
  OBVIOUS
<1> HIDE DEF level, g
<1>8. \A k \in 0 .. D : level[k] = IF k = 0 THEN {Root} ELSE WithKids(level[k - 1])
  BY <1>7
<1>9. \A k \in 0 .. D : level[k] = Upto(k)
  <2> DEFINE H == {k \in 0 .. D : level[k] = Upto(k)}
  <2>1. 0 \in H
    BY <1>0, <1>4, <1>8
  <2>2. ASSUME NEW k \in 1 .. D, k - 1 \in H PROVE k \in H
    BY <1>0, <1>5, <1>8, <2>2
  <2>3. \A k \in 0 .. D : k \in H
    <3> HIDE DEF H
    <3> QED BY <1>0, <2>1, <2>2, Climbs
  <2> QED BY <2>3
<1>11. Upto(D) = DOMAIN G
  <2>1. \A i \in DOMAIN G : G[i].level <= D
    BY PlaceOf, <1>0
  <2> QED BY <2>1 DEF Upto
<1> QED BY <1>0, <1>1, <1>9, <1>11

LEMMA TreeIs ==
  ASSUME NEW d, NEW G, Layout(G), Holds(d, G)
  PROVE  Tree(d) = DOMAIN G
<1>1. DOMAIN d = Blocks /\ \A i \in DOMAIN G : HoldsAt(d, G[i], i)
  BY DEF Holds, Disks
<1>2. \A i \in DOMAIN G : Kids(d, i) = G[i].kids
  BY <1>1, KidsIs
<1> QED BY <1>2, TreeFrom

\* What fs_read() copies out of a chain of data.
LEMMA ReadAllIs ==
  ASSUME NEW d, DOMAIN d = Blocks, NEW G, Layout(G), NEW i \in DOMAIN G, ~G[i].dir, HoldsAt(d, G[i], i)
  PROVE  ReadAll(d, d[i]) = SubSeq(G[i].data, 1, G[i].size)
<1> DEFINE b == G[i].blocks
           data == G[i].data
           n == Len(data)
           N == G[i].size
           first == [out |-> <<>>, block |-> AsData(d[b[1]]), done |-> FALSE]
           Turn(k) == [out |-> SubSeq(data, 1, k), block |-> d[b[k + 1]], done |-> FALSE]
           P(f) == f = [k \in 0 .. N |-> IF k = 0 THEN first ELSE ReadChunk(d, f[k - 1])]
           acc == CHOOSE f : P(f)
           g == [k \in 0 .. N |-> IF k < n THEN Turn(k) ELSE ReadChunk(d, Turn(n - 1))]
<1>0. N \in Nat /\ n \in Nat /\ n >= 1 /\ N <= n /\ Len(b) = n /\ data \in Seq(Chunks \cup {Blank})
  <2>1. KindOK(G[i]) /\ G[i].size \in 0 .. MaxSize /\ data \in Seq(Chunks \cup {Blank}) /\ n \in Nat
    BY PlaceOf
  <2>2. N \in Nat
    BY <2>1, SizesAssumption
  <2>3. Len(b) = n /\ n >= 1 /\ N <= n
    BY <2>1 DEF KindOK
  <2> QED BY <2>1, <2>2, <2>3
<1>1. ReadAll(d, d[i]) = acc[N].out
  <2>1. d[i].start = b[1] /\ d[i].size = N
    BY InodeIs
  <2> QED BY <2>1 DEF ReadAll
<1>2. ASSUME NEW k \in 1 .. n PROVE b[k] \in Blocks /\ b[k] # 0
  BY <1>0, BlockAt
<1>3. HoldsData(d, b, data)
  BY DEF HoldsAt
<1>4. ASSUME NEW k \in 1 .. n - 1
      PROVE d[b[k]].kind = "data" /\ d[b[k]].next = b[k + 1] /\ d[b[k]].data = data[k]
  <2>1. d[b[k]] = Data(data[k], b[k], d[b[k]].prev, b[k + 1])
    BY <1>3 DEF HoldsData
  <2> QED BY <2>1 DEF Data
<1>5. d[b[n]].kind = "data" /\ d[b[n]].next = 0 /\ d[b[n]].data = data[n]
  <2>1. d[b[n]] = Data(data[n], b[n], d[b[n]].prev, 0)
    BY <1>3 DEF HoldsData
  <2> QED BY <2>1 DEF Data
<1>6. ASSUME NEW k \in 1 .. n PROVE AsData(d[b[k]]) = d[b[k]] /\ d[b[k]].data = data[k]
  <2>1. k = n \/ k \in 1 .. n - 1
    BY <1>0
  <2>2. d[b[k]].kind = "data" /\ d[b[k]].data = data[k]
    BY <2>1, <1>4, <1>5
  <2> QED BY <2>2 DEF AsData
<1>7. Turn(0) = first
  <2>1. SubSeq(data, 1, 0) = <<>>
    BY <1>0
  <2>2. AsData(d[b[1]]) = d[b[1]]
    BY <1>0, <1>6
  <2>3. Turn(0) = [out |-> SubSeq(data, 1, 0), block |-> d[b[1]], done |-> FALSE]
    <3>1. 0 + 1 = 1
      OBVIOUS
    <3> QED BY <3>1
  <2> HIDE DEF data, b
  <2> QED BY <2>1, <2>2, <2>3
<1>8. ASSUME NEW k \in 1 .. n - 1 PROVE Turn(k) = ReadChunk(d, Turn(k - 1))
  <2>1. (k - 1) + 1 = k /\ k + 1 \in 1 .. n /\ k \in 1 .. n
    BY <1>0
  <2>2. d[b[k]].next = b[k + 1] /\ b[k + 1] \in DOMAIN d /\ b[k + 1] # 0 /\ d[b[k]].data = data[k]
    BY <1>2, <1>4, <2>1
  <2>3. Append(SubSeq(data, 1, k - 1), data[k]) = SubSeq(data, 1, k)
    BY <1>0
  <2>4. ReadNext([disk |-> d], b[k + 1], d[b[k]]) = d[b[k + 1]]
    BY <1>6, <2>1, <2>2 DEF ReadNext
  <2>5. Turn(k - 1) = [out |-> SubSeq(data, 1, k - 1), block |-> d[b[k]], done |-> FALSE]
    BY <2>1
  <2>6. ReadChunk(d, Turn(k - 1)) =
          [out |-> Append(SubSeq(data, 1, k - 1), d[b[k]].data),
           block |-> ReadNext([disk |-> d], d[b[k]].next, d[b[k]]), done |-> d[b[k]].next = 0]
    BY <2>5 DEF ReadChunk
  <2> HIDE DEF b, data
  <2> QED BY <2>2, <2>3, <2>4, <2>6
<1>9. ReadChunk(d, Turn(n - 1)).out = data
  <2>1. (n - 1) + 1 = n
    BY <1>0
  <2>2. Append(SubSeq(data, 1, n - 1), data[n]) = data
    BY <1>0
  <2>5. Turn(n - 1) = [out |-> SubSeq(data, 1, n - 1), block |-> d[b[n]], done |-> FALSE]
    BY <2>1
  <2>6. ReadChunk(d, Turn(n - 1)).out = Append(SubSeq(data, 1, n - 1), d[b[n]].data)
    BY <2>5 DEF ReadChunk
  <2> HIDE DEF b, data, n
  <2> QED BY <1>5, <2>2, <2>6
<1>10. /\ \A k \in 0 .. N : k < n => g[k] = Turn(k)
       /\ \A k \in 0 .. N : k = n => g[k] = ReadChunk(d, Turn(n - 1))
  <2> HIDE DEF Turn, n, N
  <2>1. \A k \in 0 .. N : k = n => ~(k < n)
    BY <1>0
  <2> QED BY <2>1
<1>11. P(g)
  <2>1. ASSUME NEW k \in 0 .. N PROVE g[k] = IF k = 0 THEN first ELSE ReadChunk(d, g[k - 1])
    <3> HIDE DEF Turn, first, g, n, N
    <3>1. CASE k = 0
      BY <1>0, <1>7, <1>10, <3>1
    <3>2. CASE k # 0 /\ k < n
      <4>1. k \in 1 .. n - 1 /\ k - 1 \in 0 .. N /\ k - 1 < n
        BY <1>0, <3>2
      <4> QED BY <1>8, <1>10, <3>2, <4>1
    <3>3. CASE k = n
      <4>1. k - 1 \in 0 .. N /\ k - 1 < n /\ k # 0
        BY <1>0, <3>3
      <4> QED BY <1>10, <3>3, <4>1
    <3> QED BY <1>0, <3>1, <3>2, <3>3
  <2>2. g = [k \in 0 .. N |-> g[k]]
    OBVIOUS
  <2> HIDE DEF g, first, N
  <2> QED BY <2>1, <2>2
<1>12. P(acc)
  BY <1>11
<1> HIDE DEF acc, g, Turn, first, n, N, data
<1>13. \A k \in 0 .. N : acc[k] = IF k = 0 THEN first ELSE ReadChunk(d, acc[k - 1])
  BY <1>12
<1>14. \A k \in 0 .. N : g[k] = IF k = 0 THEN first ELSE ReadChunk(d, g[k - 1])
  BY <1>11
<1>15. \A k \in 0 .. N : acc[k] = g[k]
  <2> DEFINE H == {k \in 0 .. N : acc[k] = g[k]}
  <2>1. 0 \in H
    BY <1>0, <1>13, <1>14
  <2>2. ASSUME NEW k \in 1 .. N, k - 1 \in H PROVE k \in H
    <3>1. k \in 0 .. N /\ k # 0 /\ k - 1 \in 0 .. N
      BY <1>0
    <3> QED BY <3>1, <1>13, <1>14, <2>2
  <2>3. \A k \in 0 .. N : k \in H
    <3> HIDE DEF H
    <3> QED BY <1>0, <2>1, <2>2, Climbs
  <2> QED BY <2>3
<1>16. CASE N < n
  <2>1. acc[N] = Turn(N)
    BY <1>0, <1>10, <1>15, <1>16
  <2>2. Turn(N).out = SubSeq(data, 1, N)
    BY DEF Turn
  <2>3. ReadAll(d, d[i]) = SubSeq(data, 1, N)
    BY <1>1, <2>1, <2>2
  <2> QED BY <2>3 DEF data, N
<1>17. CASE N = n
  <2>1. acc[N].out = data
    BY <1>0, <1>9, <1>10, <1>15, <1>17
  <2>2. SubSeq(data, 1, n) = data
    BY <1>0 DEF n
  <2> QED BY <1>1, <1>17, <2>1, <2>2 DEF data, N
<1> QED BY <1>0, <1>16, <1>17

\* The objects that the disk shows are those of its layout.
LEMMA ObjectsIs ==
  ASSUME NEW d, NEW G, Layout(G), Holds(d, G)
  PROVE  Objects(d) = ObjectsOf(G)
<1>1. DOMAIN d = Blocks /\ Tree(d) = DOMAIN G /\ \A i \in DOMAIN G : HoldsAt(d, G[i], i)
  BY TreeIs DEF Holds, Disks
<1>2. ASSUME NEW i \in DOMAIN G
      PROVE  ObjectOf(G[i]) = [dir  |-> AsInode(d[i]).isDirectory, name |-> AsInode(d[i]).name,
                               kids |-> Kids(d, i),
                               data |-> IF AsInode(d[i]).isDirectory THEN <<>> ELSE ReadAll(d, AsInode(d[i]))]
  <2>1. HoldsAt(d, G[i], i) /\ G[i].dir \in BOOLEAN
    BY <1>1, PlaceOf
  <2>2. AsInode(d[i]) = d[i] /\ d[i].isDirectory = G[i].dir /\ d[i].name = G[i].name
    BY <2>1, InodeIs
  <2>3. Kids(d, i) = G[i].kids
    BY <1>1, <2>1, KidsIs
  <2>4. CASE G[i].dir
    <3>1. SubSeq(G[i].data, 1, G[i].size) = <<>>
      <4>1. G[i].data = <<>> /\ G[i].size = 0
        BY <2>4, PlaceOf DEF KindOK
      <4> QED BY <4>1
    <3> QED BY <2>2, <2>3, <2>4, <3>1 DEF ObjectOf
  <2>5. CASE ~G[i].dir
    <3>1. ReadAll(d, d[i]) = SubSeq(G[i].data, 1, G[i].size)
      BY <1>1, <2>1, <2>5, ReadAllIs
    <3> QED BY <2>2, <2>3, <2>5, <3>1 DEF ObjectOf
  <2> QED BY <2>1, <2>4, <2>5
<1> QED BY <1>1, <1>2 DEF Objects, ObjectsOf

-----------------------------------------------------------------------------
(***************************************************************************)
(* A disk that holds a layout is sound                                     *)
(***************************************************************************)

\* A sequence in which nothing comes twice has as many elements as places.
LEMMA CardOfOnce ==
  ASSUME NEW A, NEW s \in Seq(A), \A k, l \in 1 .. Len(s) : s[k] = s[l] => k = l
  PROVE  Cardinality(ToSet(s)) = Len(s)
<1> DEFINE n == Len(s)
           f == [k \in 1 .. n |-> s[k]]
           T == ToSet(s)
<1>1. n \in Nat
  OBVIOUS
<1>2. T = {s[k] : k \in 1 .. n}
  BY DEF ToSet
<1>3. f \in [1 .. n -> T]
  BY <1>2
<1>4. IsInjective(f)
  BY DEF IsInjective
<1>5. \A t \in T : \E k \in 1 .. n : f[k] = t
  BY <1>2
<1>6. f \in Bijection(1 .. n, T)
  <2> HIDE DEF f, T, n
  <2> QED BY <1>3, <1>4, <1>5 DEF Bijection, Injection, Surjection
<1>7. ExistsBijection(1 .. n, T)
  <2> HIDE DEF f, T, n
  <2> QED BY <1>6 DEF ExistsBijection
<1> HIDE DEF T, n
<1>8. Cardinality(T) = n
  BY <1>1, <1>7, FS_CountingElements
<1> QED BY <1>8 DEF T, n

\* What TreeSound says of one inode and of two.
SoundAt(d, i) ==
  LET c == Chain(d, i) IN
  /\ d[i].kind = "inode" /\ d[i].addr = i
  /\ \A k \in 1 .. Len(c) : d[c[k]].addr = c[k]
  /\ Last(c) \in Blocks
  /\ IF d[i].isDirectory THEN Ends(d, c)
     ELSE d[Last(c)].kind = "data" /\ d[Last(c)].next = 0 /\ d[i].size <= Len(c)
  /\ Cardinality(ToSet(c)) = Len(c)
  /\ \A k \in ToSet(Kids(d, i)) : d[k].parent = i

Apart(d, i, j) == ToSet(Chain(d, i)) \cap ({j} \cup ToSet(Chain(d, j))) = {}

\* On a disk that holds a layout every inode and what it leads to are sound,
LEMMA SoundOne ==
  ASSUME NEW d, NEW G, Layout(G), Holds(d, G), NEW i \in DOMAIN G
  PROVE  SoundAt(d, i)
<1> DEFINE c == G[i].blocks
<1>1. DOMAIN d = Blocks /\ \A j \in DOMAIN G : HoldsAt(d, G[j], j)
  BY DEF Holds, Disks
<1>2. Chain(d, i) = c /\ Kids(d, i) = G[i].kids
  BY <1>1, ChainIs, KidsIs
<1>3. d[i].kind = "inode" /\ d[i].addr = i /\ d[i].isDirectory = G[i].dir /\ d[i].size = G[i].size
  BY <1>1, InodeIs
<1>4. c \in Seq(Numbers) /\ Len(c) \in Nat /\ Len(c) >= 1 /\ G[i].kids \in Seq(DOMAIN G) /\ G[i].dir \in BOOLEAN
  BY PlaceOf
<1>5. Last(c) \in Blocks
  <2>1. Len(c) \in 1 .. Len(c)
    BY <1>4
  <2>2. c[Len(c)] \in Blocks
    BY <2>1, BlockAt
  <2> QED BY <2>2 DEF Last
<1>6. Cardinality(ToSet(c)) = Len(c)
  <2>1. \A k, l \in 1 .. Len(c) : c[k] = c[l] => k = l
    BY DEF Layout, BlocksOnce
  <2> HIDE DEF c
  <2> QED BY <1>4, <2>1, CardOfOnce
<1>7. ASSUME NEW k \in ToSet(Kids(d, i)) PROVE d[k].parent = i
  <2>1. PICK m \in 1 .. Len(G[i].kids) : k = G[i].kids[m]
    BY <1>2, <1>4 DEF ToSet
  <2>2. k \in DOMAIN G /\ G[k].parent = i
    BY <2>1, KidAt
  <2> QED BY <1>1, <2>2, InodeIs
<1>8. CASE G[i].dir
  <2>1. Ends(d, c) /\ Len(c) = Len(G[i].kids) + 1 /\ d[Last(c)] = List(2, Last(c), 0, 0)
    BY <1>1, <1>8, WalkEnds
  <2>2. ASSUME NEW k \in 1 .. Len(c) PROVE d[c[k]].addr = c[k]
    <3>1. CASE k = Len(c)
      BY <2>1, <3>1 DEF Last, List
    <3>2. CASE k # Len(c)
      <4>1. k \in 1 .. Len(G[i].kids)
        BY <1>4, <2>1, <3>2
      <4>2. d[c[k]] = List(1, c[k], G[i].kids[k], c[k + 1])
        BY <1>1, <1>8, <4>1 DEF HoldsAt, HoldsList
      <4> QED BY <4>2 DEF List
    <3> QED BY <3>1, <3>2
  <2> HIDE DEF c
  <2> QED BY <1>2, <1>3, <1>5, <1>6, <1>7, <1>8, <2>1, <2>2 DEF SoundAt
<1>9. CASE ~G[i].dir
  <2>0. Len(c) = Len(G[i].data) /\ G[i].size <= Len(c)
    BY <1>9, PlaceOf DEF KindOK
  <2>1. HoldsData(d, c, G[i].data)
    BY <1>1, <1>9 DEF HoldsAt
  <2>2. d[Last(c)].kind = "data" /\ d[Last(c)].next = 0 /\ d[Last(c)].addr = Last(c)
    <3>1. d[c[Len(c)]] = Data(G[i].data[Len(c)], c[Len(c)], d[c[Len(c)]].prev, 0)
      BY <2>0, <2>1 DEF HoldsData
    <3> QED BY <3>1 DEF Data, Last
  <2>3. ASSUME NEW k \in 1 .. Len(c) PROVE d[c[k]].addr = c[k]
    <3>1. CASE k = Len(c)
      BY <2>2, <3>1 DEF Last
    <3>2. CASE k # Len(c)
      <4>1. k \in 1 .. Len(G[i].data) - 1
        BY <1>4, <2>0, <3>2
      <4>2. d[c[k]] = Data(G[i].data[k], c[k], d[c[k]].prev, c[k + 1])
        BY <2>1, <4>1 DEF HoldsData
      <4> QED BY <4>2 DEF Data
    <3> QED BY <3>1, <3>2
  <2> HIDE DEF c
  <2> QED BY <1>2, <1>3, <1>5, <1>6, <1>7, <1>9, <2>0, <2>2, <2>3 DEF SoundAt
<1> QED BY <1>4, <1>8, <1>9

\* and no two of them share a block.
LEMMA SoundTwo ==
  ASSUME NEW d, NEW G, Layout(G), Holds(d, G), NEW i \in DOMAIN G, NEW j \in DOMAIN G, i # j
  PROVE  Apart(d, i, j)
<1>1. DOMAIN d = Blocks /\ HoldsAt(d, G[i], i) /\ HoldsAt(d, G[j], j)
  BY DEF Holds, Disks
<1>2. Chain(d, i) = G[i].blocks /\ Chain(d, j) = G[j].blocks
  BY <1>1, ChainIs
<1>3. G[i].blocks \in Seq(Numbers) /\ G[j].blocks \in Seq(Numbers)
  BY PlaceOf
<1> SUFFICES ASSUME NEW n \in ToSet(G[i].blocks), n \in {j} \cup ToSet(G[j].blocks) PROVE FALSE
  BY <1>2 DEF Apart
<1>4. PICK k \in 1 .. Len(G[i].blocks) : n = G[i].blocks[k]
  BY <1>3 DEF ToSet
<1>5. CASE n = j
  BY <1>4, <1>5, BlockAt
<1>6. CASE n \in ToSet(G[j].blocks)
  <2>1. PICK l \in 1 .. Len(G[j].blocks) : n = G[j].blocks[l]
    BY <1>3, <1>6 DEF ToSet
  <2>2. BlocksOnce(G)
    BY DEF Layout
  <2>3. G[i].blocks[k] = G[j].blocks[l]
    BY <1>4, <2>1
  <2> QED BY <2>2, <2>3 DEF BlocksOnce
<1> QED BY <1>5, <1>6

\* A disk that holds a layout is sound.
LEMMA SoundDisk ==
  ASSUME stop = "no", NEW G, Layout(G), Holds(disk, G)
  PROVE  TreeSound
<1>1. Tree(disk) = DOMAIN G
  BY TreeIs
<1>2. \A i \in DOMAIN G : SoundAt(disk, i)
  BY SoundOne
<1>3. \A i, j \in DOMAIN G : i # j => Apart(disk, i, j)
  BY SoundTwo
<1> QED BY <1>1, <1>2, <1>3 DEF TreeSound, SoundAt, Apart

-----------------------------------------------------------------------------
(***************************************************************************)
(* Blocks, writes, dalloc() and dfree()                                    *)
(***************************************************************************)
\* A block and what is written there.
WriteSet == [no : Blocks, block : Block]

\* The writes of log lead from the disk d to the disk f, through disks of S.
Leads(d, log, f, S) ==
  \E ds \in [0 .. Len(log) -> S] :
    /\ ds[0] = d /\ ds[Len(log)] = f
    /\ \A k \in 1 .. Len(log) : ds[k] = Written(ds[k - 1], log[k].no, log[k].block)

Reaches(d, log, f) == Leads(d, log, f, Disks)

\* The run r of a call that found the disk d.
RunOK(d, r) == r.log \in Seq(WriteSet) /\ r.disk \in Disks /\ Reaches(d, r.log, r.disk)

\* Every disk on the way is in S.
RunIn(d, r, S) == r.log \in Seq(WriteSet) /\ S \subseteq Disks /\ Leads(d, r.log, r.disk, S)

\* One block of a disk written.
LEMMA OneWritten ==
  ASSUME NEW d \in Disks, NEW n \in Blocks, NEW b \in Block
  PROVE  /\ Written(d, n, b) \in Disks
         /\ Written(d, n, b)[n] = b
         /\ \A m \in Blocks : m # n => Written(d, n, b)[m] = d[m]
<1>1. d \in [Blocks -> Block]
  BY DEF Disks
<1> QED BY <1>1 DEF Disks, Written

\* The writes of nothing.
LEMMA NoneLead ==
  ASSUME NEW S, disk \in S
  PROVE  Leads(disk, <<>>, disk, S)
<1> DEFINE ds == [k \in 0 .. 0 |-> disk]
<1>1. ds \in [0 .. 0 -> S] /\ ds[0] = disk
  OBVIOUS
<1>2. Len(<<>>) = 0 /\ \A k \in 1 .. 0 : FALSE
  OBVIOUS
<1> HIDE DEF ds
<1> QED BY <1>1, <1>2 DEF Leads

\* A call that has made no write.
LEMMA BeginIn ==
  ASSUME NEW S, S \subseteq Disks, disk \in S
  PROVE  RunIn(disk, Begin, S)
BY NoneLead DEF RunIn, Begin

LEMMA BeginOK ==
  ASSUME disk \in Disks
  PROVE  RunOK(disk, Begin) /\ Begin.disk = disk /\ Begin.log = <<>>
BY NoneLead DEF RunOK, Reaches, Begin

\* No write leads nowhere else.
LEMMA EmptyReaches ==
  ASSUME NEW d, NEW f, Reaches(d, <<>>, f)
  PROVE  f = d
BY DEF Reaches, Leads

\* bwrite() of a block that the disk has, with a result in S.
PutGoes(d, r, n, b, S) == RunIn(d, Put(r, n, b), S) /\ Put(r, n, b).disk = Written(r.disk, n, b)

LEMMA PutIn ==
  ASSUME host = FALSE, NEW S, NEW d, NEW r, RunIn(d, r, S), NEW n \in Blocks, NEW b \in Block,
         Written(r.disk, n, b) \in S
  PROVE  PutGoes(d, r, n, b, S)
<1> DEFINE L == Len(r.log)
           w == [no |-> n, block |-> b]
           log == Append(r.log, w)
           e == Written(r.disk, n, b)
<1>1. r.log \in Seq(WriteSet) /\ S \subseteq Disks /\ Leads(d, r.log, r.disk, S)
  BY DEF RunIn
<1>2. Put(r, n, b) = [disk |-> e, log |-> log]
  <2>2. Put(r, n, b) = [disk |-> Written(r.disk, n, b), log |-> log]
    BY DEF Put, PutHost
  <2> QED BY <2>2
<1>3. e \in S
  OBVIOUS
<1>4. w \in WriteSet
  BY DEF WriteSet
<1>5. log \in Seq(WriteSet) /\ Len(log) = L + 1 /\ L \in Nat /\ log[L + 1] = w
      /\ \A k \in 1 .. L : log[k] = r.log[k]
  BY <1>1, <1>4
<1>6. PICK ds \in [0 .. L -> S] :
        /\ ds[0] = d /\ ds[L] = r.disk
        /\ \A k \in 1 .. L : ds[k] = Written(ds[k - 1], r.log[k].no, r.log[k].block)
  BY <1>1 DEF Leads
<1> DEFINE es == [k \in 0 .. L + 1 |-> IF k = L + 1 THEN e ELSE ds[k]]
<1>7. es \in [0 .. L + 1 -> S] /\ es[L + 1] = e /\ \A k \in 0 .. L : es[k] = ds[k]
  <2> HIDE DEF e, L
  <2>1. \A k \in 0 .. L + 1 : k # L + 1 => k \in 0 .. L
    BY <1>5
  <2>2. \A k \in 0 .. L : k \in 0 .. L + 1 /\ k # L + 1
    BY <1>5
  <2>3. L + 1 \in 0 .. L + 1
    BY <1>5
  <2> QED BY <1>3, <2>1, <2>2, <2>3
<1> HIDE DEF es, L, log
<1>8. ASSUME NEW k \in 1 .. L + 1 PROVE es[k] = Written(es[k - 1], log[k].no, log[k].block)
  <2>1. CASE k = L + 1
    <3>1. es[k] = e /\ k - 1 = L /\ L \in 0 .. L
      BY <1>5, <1>7, <2>1
    <3>2. es[k - 1] = r.disk
      BY <1>6, <1>7, <3>1
    <3> QED BY <1>5, <2>1, <3>1, <3>2
  <2>2. CASE k # L + 1
    <3>1. k \in 1 .. L /\ k \in 0 .. L /\ k - 1 \in 0 .. L
      BY <1>5, <2>2
    <3>2. es[k] = ds[k] /\ es[k - 1] = ds[k - 1] /\ log[k] = r.log[k]
      BY <1>5, <1>7, <3>1
    <3> QED BY <1>6, <3>1, <3>2
  <2> QED BY <2>1, <2>2
<1>9. es[0] = d
  <2>1. 0 \in 0 .. L
    BY <1>5
  <2> QED BY <1>6, <1>7, <2>1
<1>10. Leads(d, log, e, S)
  <2>1. es \in [0 .. Len(log) -> S] /\ es[Len(log)] = e
        /\ \A k \in 1 .. Len(log) : es[k] = Written(es[k - 1], log[k].no, log[k].block)
    BY <1>5, <1>7, <1>8
  <2> HIDE DEF e
  <2> QED BY <1>9, <2>1 DEF Leads
<1>11. Put(r, n, b).disk = e /\ Put(r, n, b).log = log
  <2> HIDE DEF e
  <2> QED BY <1>2
<1>12. RunIn(d, Put(r, n, b), S)
  <2> HIDE DEF e
  <2> QED BY <1>1, <1>5, <1>10, <1>11 DEF RunIn
<1> QED BY <1>11, <1>12 DEF PutGoes

LEMMA PutIs ==
  ASSUME host = FALSE, NEW d, NEW r, RunOK(d, r), NEW n \in Blocks, NEW b \in Block
  PROVE  RunOK(d, Put(r, n, b)) /\ Put(r, n, b).disk = Written(r.disk, n, b)
<1> DEFINE S == Disks
           e == Written(r.disk, n, b)
           q == Put(r, n, b)
<1>1. RunIn(d, r, S) /\ r.disk \in S
  BY DEF RunOK, RunIn, Reaches
<1>2. e \in S
  BY <1>1, OneWritten
<1> HIDE DEF S
<1>3. PutGoes(d, r, n, b, S)
  BY <1>1, <1>2, PutIn
<1> HIDE DEF e, q
<1>4. RunOK(d, q) /\ q.disk = e
  BY <1>2, <1>3 DEF RunOK, RunIn, Reaches, PutGoes, S, e, q
<1> QED BY <1>4 DEF e, q

\* bwrite() of a block that the disk does not have.
LEMMA PutNot ==
  ASSUME host = FALSE, NEW r, NEW n, n \notin Blocks, NEW b
  PROVE  Put(r, n, b) = r
BY DEF Put

\* The first write of several.
LEMMA FirstLeads ==
  ASSUME NEW S, NEW d, NEW f, NEW log \in Seq(WriteSet), log # <<>>, Leads(d, log, f, S)
  PROVE  /\ d \in S /\ Head(log) \in WriteSet /\ Tail(log) \in Seq(WriteSet)
         /\ Written(d, Head(log).no, Head(log).block) \in S
         /\ Leads(Written(d, Head(log).no, Head(log).block), Tail(log), f, S)
<1> DEFINE L == Len(log)
           e == Written(d, Head(log).no, Head(log).block)
           tail == Tail(log)
<1>1. L \in Nat /\ L >= 1 /\ Head(log) = log[1] /\ log[1] \in WriteSet /\ tail \in Seq(WriteSet)
      /\ Len(tail) = L - 1 /\ \A k \in 1 .. L - 1 : tail[k] = log[k + 1]
  OBVIOUS
<1>2. PICK ds \in [0 .. L -> S] :
        /\ ds[0] = d /\ ds[L] = f
        /\ \A k \in 1 .. L : ds[k] = Written(ds[k - 1], log[k].no, log[k].block)
  BY DEF Leads
<1>3. d \in S
  BY <1>1, <1>2
<1>6. ds[1] = e
  <2>1. 1 \in 1 .. L /\ 1 - 1 = 0
    BY <1>1
  <2> QED BY <1>1, <1>2, <2>1
<1> DEFINE es == [k \in 0 .. L - 1 |-> ds[k + 1]]
<1>5. e \in S
  <2>1. 1 \in 0 .. L
    BY <1>1
  <2> HIDE DEF e
  <2> QED BY <1>2, <1>6, <2>1
<1>7. es \in [0 .. L - 1 -> S] /\ \A k \in 0 .. L - 1 : es[k] = ds[k + 1]
  BY <1>1, <1>2
<1> HIDE DEF es, L, tail
<1>8. es[0] = e /\ es[L - 1] = f
  <2>1. 0 \in 0 .. L - 1 /\ 0 + 1 = 1 /\ L - 1 \in 0 .. L - 1 /\ (L - 1) + 1 = L
    BY <1>1
  <2> HIDE DEF e
  <2> QED BY <2>1, <1>2, <1>6, <1>7
<1>9. ASSUME NEW k \in 1 .. L - 1 PROVE es[k] = Written(es[k - 1], tail[k].no, tail[k].block)
  <2>1. k \in 0 .. L - 1 /\ k - 1 \in 0 .. L - 1 /\ (k - 1) + 1 = k /\ k + 1 \in 1 .. L /\ (k + 1) - 1 = k
    BY <1>1
  <2>2. es[k] = ds[k + 1] /\ es[k - 1] = ds[k] /\ tail[k] = log[k + 1]
    BY <1>1, <1>7, <2>1
  <2> QED BY <1>2, <2>1, <2>2
<1>10. Leads(e, tail, f, S)
  <2> HIDE DEF e
  <2> QED BY <1>1, <1>7, <1>8, <1>9 DEF Leads
<1> QED BY <1>1, <1>3, <1>5, <1>10 DEF tail

LEMMA FirstWritten ==
  ASSUME NEW d, NEW f, NEW log \in Seq(WriteSet), log # <<>>, Reaches(d, log, f)
  PROVE  /\ d \in Disks /\ Head(log) \in WriteSet /\ Tail(log) \in Seq(WriteSet)
         /\ Written(d, Head(log).no, Head(log).block) \in Disks
         /\ Reaches(Written(d, Head(log).no, Head(log).block), Tail(log), f)
BY FirstLeads DEF Reaches

\* More disks to go through.
LEMMA LeadsMore ==
  ASSUME NEW S, NEW T, S \subseteq T, NEW d, NEW f, NEW log, Leads(d, log, f, S)
  PROVE  Leads(d, log, f, T)
<1>1. PICK ds \in [0 .. Len(log) -> S] :
        /\ ds[0] = d /\ ds[Len(log)] = f
        /\ \A k \in 1 .. Len(log) : ds[k] = Written(ds[k - 1], log[k].no, log[k].block)
  BY DEF Leads
<1>2. ds \in [0 .. Len(log) -> T]
  OBVIOUS
<1> QED BY <1>1, <1>2 DEF Leads

LEMMA RunMore ==
  ASSUME NEW S, NEW T, S \subseteq T, T \subseteq Disks, NEW d, NEW r, RunIn(d, r, S)
  PROVE  RunIn(d, r, T)
<1>1. r.log \in Seq(WriteSet) /\ Leads(d, r.log, r.disk, S)
  BY DEF RunIn
<1>2. Leads(d, r.log, r.disk, T)
  BY <1>1, LeadsMore
<1> QED BY <1>1, <1>2 DEF RunIn

\* The disk that a run leads to is one of those it goes through.
LEMMA RunHere ==
  ASSUME NEW S, NEW d, NEW r, RunIn(d, r, S)
  PROVE  r.disk \in S /\ r.disk \in Disks /\ RunOK(d, r)
<1>1. r.log \in Seq(WriteSet) /\ S \subseteq Disks /\ Leads(d, r.log, r.disk, S)
  BY DEF RunIn
<1>2. PICK ds \in [0 .. Len(r.log) -> S] :
        /\ ds[0] = d /\ ds[Len(r.log)] = r.disk
        /\ \A k \in 1 .. Len(r.log) : ds[k] = Written(ds[k - 1], r.log[k].no, r.log[k].block)
  BY <1>1 DEF Leads
<1>3. Len(r.log) \in 0 .. Len(r.log)
  BY <1>1
<1>4. r.disk \in S
  BY <1>2, <1>3
<1>5. Leads(d, r.log, r.disk, Disks)
  BY <1>1, LeadsMore
<1> QED BY <1>1, <1>4, <1>5 DEF RunOK, Reaches

\* What dalloc() finds and does.
LEMMA DallocIs ==
  ASSUME host = FALSE, NEW d, NEW r, RunOK(d, r)
  PROVE  /\ FirstFree(r) = MAX_BLOCK \/ FirstFree(r) \in Numbers
         /\ FirstFree(r) = MAX_BLOCK =>
              Dalloc(r) = r /\ FirstFree(r) \notin Blocks /\ \A n \in Numbers : r.disk[n].flag # 0
         /\ FirstFree(r) \in Numbers =>
              /\ FirstFree(r) # MAX_BLOCK /\ FirstFree(r) \in Blocks /\ r.disk[FirstFree(r)].flag = 0
              /\ Dalloc(r) = Put(r, FirstFree(r), Taken)
              /\ RunOK(d, Dalloc(r)) /\ Dalloc(r).disk = Written(r.disk, FirstFree(r), Taken)
<1> DEFINE F == FreeIn(r)
<1>1. F = {n \in Numbers : r.disk[n].flag = 0}
  BY DEF FreeIn, FreeBlocks, Numbers
<1>2. MAX_BLOCK \notin Numbers /\ Numbers \subseteq Nat /\ Numbers \subseteq Blocks /\ MAX_BLOCK \notin Blocks
  BY MaxBlockAssumption DEF Numbers, Blocks
<1>3. Taken \in Block
  BY DEF Taken, Block
<1> HIDE DEF F
<1>4. CASE F = {}
  <2>1. FirstFree(r) = MAX_BLOCK /\ Dalloc(r) = r
    BY <1>4 DEF FirstFree, Dalloc, F
  <2> QED BY <1>1, <1>2, <1>4, <2>1
<1>5. CASE F # {}
  <2>1. FirstFree(r) = Min(F) /\ Dalloc(r) = Put(r, FirstFree(r), Taken)
    BY <1>5 DEF FirstFree, Dalloc, F
  <2>2. Min(F) \in F
    <3>1. F \subseteq Nat
      BY <1>1, <1>2
    <3> QED BY <1>5, <3>1, LeastIsIn
  <2>3. FirstFree(r) \in Numbers /\ r.disk[FirstFree(r)].flag = 0 /\ FirstFree(r) \in Blocks
    BY <1>1, <1>2, <2>1, <2>2
  <2>4. RunOK(d, Dalloc(r)) /\ Dalloc(r).disk = Written(r.disk, FirstFree(r), Taken)
    <3> DEFINE n == FirstFree(r)
    <3>1. Dalloc(r) = Put(r, n, Taken) /\ n \in Blocks
      BY <2>1, <2>3
    <3>3. host = FALSE /\ RunOK(d, r) /\ n \in Blocks /\ Taken \in Block
      BY <1>3, <3>1
    <3> HIDE DEF n, F
    <3>2. RunOK(d, Put(r, n, Taken)) /\ Put(r, n, Taken).disk = Written(r.disk, n, Taken)
      BY <3>3, PutIs
    <3> QED BY <3>1, <3>2 DEF n
  <2> QED BY <1>2, <2>1, <2>3, <2>4
<1> QED BY <1>4, <1>5

\* The blocks that the calls write.
LEMMA FlagIsBlock == Taken \in Block /\ Zero \in Block
BY DEF Taken, Zero, Block

\* A block of each kind is a block: block 0,
LEMMA SuperIsBlock ==
  ASSUME NEW root \in Nat
  PROVE  Super(root) \in Block
BY DEF Super, Block

\* an inode,
LEMMA InodeIsBlock ==
  ASSUME NEW dir \in BOOLEAN, NEW name \in Names \cup {NoName}, NEW parent \in Nat, NEW start \in Nat, NEW addr \in Nat
  PROVE  Inode(dir, name, parent, start, addr) \in Block
BY DEF Inode, Block

\* a list block,
LEMMA ListIsBlock ==
  ASSUME NEW flag \in 1 .. 2, NEW addr \in Nat, NEW inode \in Nat, NEW next \in Nat
  PROVE  List(flag, addr, inode, next) \in Block
BY DEF List, Block

\* a data block.
LEMMA DataIsBlock ==
  ASSUME NEW x \in Chunks \cup {Blank}, NEW addr \in Nat, NEW prev \in Nat, NEW next \in Nat
  PROVE  Data(x, addr, prev, next) \in Block
BY DEF Data, Block

-----------------------------------------------------------------------------
(***************************************************************************)
(* Search and paths                                                        *)
(***************************************************************************)

\* The entries of a directory that have a name and are of a kind.
Entries(G, i, name, kinds) ==
  {k \in 1 .. Len(G[i].kids) : G[G[i].kids[k]].name = name /\ G[G[i].kids[k]].dir \in kinds}

\* The search of a directory finds the places that have the name.
LEMMA HitsIs ==
  ASSUME NEW d, NEW G, Layout(G), Holds(d, G), NEW i \in DOMAIN G, G[i].dir, NEW name, NEW kinds
  PROVE  /\ Hits(d, G[i].blocks, name, kinds) = Entries(G, i, name, kinds)
         /\ \A k \in 1 .. Len(G[i].kids) :
              AsInode(d[d[G[i].blocks[k]].inode]) = d[G[i].kids[k]]
<1> DEFINE b == G[i].blocks
           kids == G[i].kids
<1>1. \A j \in DOMAIN G : HoldsAt(d, G[j], j)
  BY DEF Holds
<1>2. Len(b) = Len(kids) + 1 /\ Len(kids) \in Nat
  BY PlaceOf DEF KindOK
<1>3. ASSUME NEW k \in 1 .. Len(kids)
      PROVE  /\ AsInode(d[d[b[k]].inode]) = d[kids[k]] /\ d[kids[k]].flag = 1
             /\ d[kids[k]].name = G[kids[k]].name /\ d[kids[k]].isDirectory = G[kids[k]].dir
  <2>1. d[b[k]] = List(1, b[k], kids[k], b[k + 1])
    BY <1>1 DEF HoldsAt, HoldsList
  <2>2. d[b[k]].inode = kids[k]
    BY <2>1 DEF List
  <2>3. kids[k] \in DOMAIN G
    BY KidAt
  <2> QED BY <1>1, <2>2, <2>3, InodeIs
<1>4. Hits(d, b, name, kinds) = Entries(G, i, name, kinds)
  <2>1. Len(b) - 1 = Len(kids)
    BY <1>2
  <2> DEFINE Is(k) == LET inode == AsInode(d[d[b[k]].inode])
                      IN  inode.flag # 0 /\ inode.name = name /\ inode.isDirectory \in kinds
  <2>2. \A k \in 1 .. Len(kids) : Is(k) <=> G[kids[k]].name = name /\ G[kids[k]].dir \in kinds
    BY <1>3
  <2>3. Hits(d, b, name, kinds) = {k \in 1 .. Len(b) - 1 : Is(k)}
    BY DEF Hits
  <2>4. Entries(G, i, name, kinds) = {k \in 1 .. Len(kids) : G[kids[k]].name = name /\ G[kids[k]].dir \in kinds}
    BY DEF Entries
  <2> HIDE DEF Is, b, kids
  <2> QED BY <2>1, <2>2, <2>3, <2>4
<1> QED BY <1>3, <1>4

\* What a path has led to so far: an inode of the tree at this level, or nothing.
Led(G, d, at, S, k) ==
  \/ \E i \in DOMAIN G : at = Found(d[i]) /\ S = {i} /\ G[i].level = k
  \/ at = NotFound /\ S = {}

\* One component of a path.
LEMMA OneStep ==
  ASSUME NEW d, NEW G, Layout(G), Holds(d, G), goal.objects = ObjectsOf(G), NEW name, NEW i \in DOMAIN G, G[i].dir
  PROVE  Led(G, d, LookUp(d, d[i], name), Promise!Child(i, name), G[i].level + 1)
<1> DEFINE w == G[i].blocks
           kids == G[i].kids
           hits == {k \in 1 .. Len(kids) : G[kids[k]].name = name}
           obj == goal.objects
<1>1. DOMAIN d = Blocks /\ HoldsAt(d, G[i], i)
  BY DEF Holds, Disks
<1>2. d[i].start = w[1]
  BY <1>1, InodeIs
<1>3. Walk(d, d[i].start) = w /\ Ends(d, w)
  BY <1>1, <1>2, WalkIs, WalkEnds
<1>4. kids \in Seq(DOMAIN G) /\ Len(kids) \in Nat
  BY PlaceOf
<1>5. ASSUME NEW k \in 1 .. Len(kids) PROVE kids[k] \in DOMAIN G /\ G[kids[k]].dir \in BOOLEAN
  <2>1. kids[k] \in DOMAIN G
    BY KidAt
  <2> QED BY <2>1, PlaceOf
<1>6. Hits(d, w, name, BOOLEAN) = hits
  <2>1. Hits(d, w, name, BOOLEAN) = Entries(G, i, name, BOOLEAN)
    BY HitsIs
  <2>2. Entries(G, i, name, BOOLEAN) = hits
    BY <1>5 DEF Entries
  <2> QED BY <2>1, <2>2
<1>7. LookUp(d, d[i], name) = IF hits # {} THEN Found(AsInode(d[d[w[Min(hits)]].inode])) ELSE NotFound
  <2> HIDE DEF hits, w
  <2> QED BY <1>3, <1>6 DEF LookUp
<1>8. Promise!Child(i, name) = IF hits = {} THEN {} ELSE {kids[Min(hits)]}
  <2>1. obj[i].kids = kids /\ \A j \in DOMAIN G : obj[j].name = G[j].name
    BY DEF ObjectsOf, ObjectOf
  <2>2. {k \in DOMAIN obj[i].kids : obj[obj[i].kids[k]].name = name} = hits
    BY <1>4, <1>5, <2>1
  <2> HIDE DEF hits
  <2> HIDE DEF obj
  <2>3. Promise!Child(i, name) = IF hits = {} THEN {} ELSE {obj[i].kids[Min(hits)]}
    BY <2>2 DEF Promise!Child, Promise!Min, Min, obj
  <2> QED BY <2>1, <2>3
<1>9. CASE hits = {}
  BY <1>7, <1>8, <1>9 DEF Led
<1>10. CASE hits # {}
  <2> DEFINE m == Min(hits)
  <2>1. m \in hits
    <3>1. hits \subseteq Nat
      BY <1>4
    <3> HIDE DEF hits
    <3> QED BY <1>10, <3>1, LeastIsIn
  <2>2. m \in 1 .. Len(kids)
    BY <2>1
  <2> HIDE DEF m
  <2>3. AsInode(d[d[w[m]].inode]) = d[kids[m]]
    BY <2>2, HitsIs
  <2>4. kids[m] \in DOMAIN G /\ G[kids[m]].level = G[i].level + 1
    BY <2>2, KidAt
  <2>5. LookUp(d, d[i], name) = Found(d[kids[m]]) /\ Promise!Child(i, name) = {kids[m]}
    BY <1>7, <1>8, <1>10, <2>3 DEF m
  <2> HIDE DEF kids
  <2> QED BY <2>4, <2>5 DEF Led
<1> QED BY <1>9, <1>10

\* A path leads to the object that the promise says, at the level of its length.
LEMMA PathIs ==
  ASSUME NEW G, Layout(G), Holds(disk, G), goal.objects = ObjectsOf(G),
         NEW path \in Seq(Names), Straight(path)
  PROVE  Led(G, disk, FindInode(disk, path), Promise!Resolve(path), Len(path))
<1> DEFINE d == disk
           n == Len(path)
           Start == IF d[0].kind = "super" THEN Found(AsInode(d[d[0].root])) ELSE Astray
           Component(at, name) == IF at.st = "found" THEN LookUp(d, at.inode, name) ELSE at
           P(m, f) == f = [k \in 0 .. m |-> IF k = 0 THEN Start ELSE Component(f[k - 1], path[k])]
           at == CHOOSE f : P(n, f)
           Onto(S, name) == UNION {Promise!Child(i, name) : i \in S}
           Q(m, f) == f = [k \in 0 .. m |-> IF k = 0 THEN {Root} ELSE Onto(f[k - 1], path[k])]
           rs == CHOOSE f : Q(n, f)
<1>0. n \in Nat
  OBVIOUS
<1>1. FindInode(d, path) = at[n] /\ Steps(d, path) = at
  BY DEF FindInode, Steps
<1>2. Promise!Resolve(path) = rs[n]
  BY DEF Promise!Resolve
<1>3. Start = Found(d[Root])
  <2>1. Root \in DOMAIN G /\ d[0] = Super(Root)
    BY DEF Layout, LayoutType, Holds
  <2>2. HoldsAt(d, G[Root], Root)
    BY <2>1 DEF Holds
  <2>3. AsInode(d[Root]) = d[Root]
    BY <2>1, <2>2, InodeIs
  <2>4. d[0].kind = "super" /\ d[0].root = Root
    BY <2>1 DEF Super
  <2> QED BY <2>3, <2>4
<1>4. \E f : P(n, f)
  <2> HIDE DEF Start, Component
  <2> DEFINE H == {m \in 0 .. n : \E f : P(m, f)}
  <2>1. 0 \in H
    <3>1. P(0, [k \in 0 .. 0 |-> Start]) /\ 0 \in 0 .. n
      BY <1>0
    <3> HIDE DEF P, n
    <3> QED BY <3>1
  <2>2. ASSUME NEW m \in 1 .. n, m - 1 \in H PROVE m \in H
    <3>1. PICK f : P(m - 1, f)
      BY <2>2
    <3> DEFINE g == [k \in 0 .. m |-> IF k = m THEN Component(f[m - 1], path[m]) ELSE f[k]]
    <3>2. m \in 0 .. n /\ m # 0 /\ m \in 0 .. m /\ \A k \in 0 .. m : k # m => k \in 0 .. m - 1
      BY <1>0
    <3>3. g[m] = Component(f[m - 1], path[m]) /\ \A k \in 0 .. m - 1 : g[k] = f[k]
      BY <1>0
    <3>4. \A k \in 0 .. m - 1 : f[k] = IF k = 0 THEN Start ELSE Component(f[k - 1], path[k])
      <4> HIDE DEF n
      <4> QED BY <3>1
    <3>5. \A k \in 0 .. m : g[k] = IF k = 0 THEN Start ELSE Component(g[k - 1], path[k])
      <4>1. \A k \in 0 .. m : k # 0 => k - 1 \in 0 .. m - 1
        BY <1>0
      <4> HIDE DEF g
      <4> QED BY <3>2, <3>3, <3>4, <4>1
    <3>6. g = [k \in 0 .. m |-> g[k]]
      OBVIOUS
    <3> HIDE DEF g
    <3>7. P(m, g)
      BY <3>5, <3>6
    <3> HIDE DEF P, n
    <3> QED BY <3>2, <3>7
  <2>3. \A m \in 0 .. n : m \in H
    <3> HIDE DEF H, n
    <3> QED BY <1>0, <2>1, <2>2, Climbs
  <2>4. n \in H
    <3> HIDE DEF H
    <3> QED BY <2>3, <1>0
  <2> HIDE DEF P
  <2> QED BY <2>4
<1>5. \E f : Q(n, f)
  <2> HIDE DEF Onto
  <2> DEFINE H == {m \in 0 .. n : \E f : Q(m, f)}
  <2>1. 0 \in H
    <3>1. Q(0, [k \in 0 .. 0 |-> {Root}]) /\ 0 \in 0 .. n
      BY <1>0
    <3> HIDE DEF Q, n
    <3> QED BY <3>1
  <2>2. ASSUME NEW m \in 1 .. n, m - 1 \in H PROVE m \in H
    <3>1. PICK f : Q(m - 1, f)
      BY <2>2
    <3> DEFINE g == [k \in 0 .. m |-> IF k = m THEN Onto(f[m - 1], path[m]) ELSE f[k]]
    <3>2. m \in 0 .. n /\ m # 0 /\ m \in 0 .. m /\ \A k \in 0 .. m : k # m => k \in 0 .. m - 1
      BY <1>0
    <3>3. g[m] = Onto(f[m - 1], path[m]) /\ \A k \in 0 .. m - 1 : g[k] = f[k]
      BY <1>0
    <3>4. \A k \in 0 .. m - 1 : f[k] = IF k = 0 THEN {Root} ELSE Onto(f[k - 1], path[k])
      <4> HIDE DEF n
      <4> QED BY <3>1
    <3>5. \A k \in 0 .. m : g[k] = IF k = 0 THEN {Root} ELSE Onto(g[k - 1], path[k])
      <4>1. \A k \in 0 .. m : k # 0 => k - 1 \in 0 .. m - 1
        BY <1>0
      <4> HIDE DEF g
      <4> QED BY <3>2, <3>3, <3>4, <4>1
    <3>6. g = [k \in 0 .. m |-> g[k]]
      OBVIOUS
    <3> HIDE DEF g
    <3>7. Q(m, g)
      BY <3>5, <3>6
    <3> HIDE DEF Q, n
    <3> QED BY <3>2, <3>7
  <2>3. \A m \in 0 .. n : m \in H
    <3> HIDE DEF H, n
    <3> QED BY <1>0, <2>1, <2>2, Climbs
  <2>4. n \in H
    <3> HIDE DEF H
    <3> QED BY <2>3, <1>0
  <2> HIDE DEF Q
  <2> QED BY <2>4
<1>6. P(n, at) /\ Q(n, rs)
  BY <1>4, <1>5
<1> HIDE DEF at, rs, n
<1>7. \A k \in 0 .. n : at[k] = IF k = 0 THEN Start ELSE Component(at[k - 1], path[k])
  <2> HIDE DEF Start, Component
  <2> QED BY <1>6
<1>8. \A k \in 0 .. n : rs[k] = IF k = 0 THEN {Root} ELSE Onto(rs[k - 1], path[k])
  <2> HIDE DEF Onto
  <2> QED BY <1>6
<1>9. \A k \in 0 .. n : Led(G, d, at[k], rs[k], k)
  <2> DEFINE H == {k \in 0 .. n : Led(G, d, at[k], rs[k], k)}
  <2>1. 0 \in H
    <3>1. Root \in DOMAIN G /\ G[Root].level = 0
      BY DEF Layout, LayoutType, RootOK
    <3>2. 0 \in 0 .. n
      BY <1>0
    <3>3. at[0] = Found(d[Root]) /\ rs[0] = {Root}
      <4> HIDE DEF Start, Component, Onto
      <4> QED BY <3>2, <1>3, <1>7, <1>8
    <3> QED BY <3>1, <3>2, <3>3 DEF Led
  <2>2. ASSUME NEW k \in 1 .. n, k - 1 \in H PROVE k \in H
    <3>1. k \in 0 .. n /\ k - 1 \in 0 .. n /\ k # 0 /\ k - 1 \in 0 .. n - 1 /\ (k - 1) + 1 = k
      BY <1>0
    <3>2. at[k] = Component(at[k - 1], path[k]) /\ rs[k] = Onto(rs[k - 1], path[k])
      <4> HIDE DEF Component, Onto
      <4> QED BY <3>1, <1>7, <1>8
    <3>3. CASE at[k - 1] = NotFound /\ rs[k - 1] = {}
      <4>1. at[k] = NotFound /\ rs[k] = {}
        BY <3>2, <3>3 DEF NotFound
      <4> QED BY <3>1, <4>1 DEF Led
    <3>4. CASE \E i \in DOMAIN G : at[k - 1] = Found(d[i]) /\ rs[k - 1] = {i} /\ G[i].level = k - 1
      <4>1. PICK i \in DOMAIN G : at[k - 1] = Found(d[i]) /\ rs[k - 1] = {i} /\ G[i].level = k - 1
        BY <3>4
      <4>2. at[k - 1].st = "found" /\ at[k - 1].inode = d[i]
        BY <4>1 DEF Found
      <4>3. IsDirectory(at[k - 1])
        BY <1>1, <3>1, <4>2 DEF Straight, n
      <4>4. G[i].dir
        <5>1. d[i].isDirectory = G[i].dir
          BY InodeIs DEF Holds
        <5> QED BY <4>2, <4>3, <5>1 DEF IsDirectory
      <4>5. at[k] = LookUp(d, d[i], path[k])
        BY <3>2, <4>2
      <4>6. rs[k] = Promise!Child(i, path[k])
        BY <3>2, <4>1
      <4>7. Led(G, d, at[k], rs[k], G[i].level + 1)
        BY <4>4, <4>5, <4>6, OneStep
      <4> QED BY <3>1, <4>1, <4>7
    <3> QED BY <2>2, <3>3, <3>4 DEF Led
  <2>3. \A k \in 0 .. n : k \in H
    <3> HIDE DEF H
    <3> QED BY <1>0, <2>1, <2>2, Climbs
  <2> QED BY <2>3
<1>10. n \in 0 .. n
  BY <1>0
<1> QED BY <1>1, <1>2, <1>9, <1>10 DEF n

-----------------------------------------------------------------------------
(***************************************************************************)
(* A new entry in a directory                                              *)
(***************************************************************************)
\* A block that is free is no part of the tree.
LEMMA FreeIsFresh ==
  ASSUME NEW d, NEW G, Layout(G), Holds(d, G), NEW n, d[n].flag = 0
  PROVE  n # 0 /\ n \notin DOMAIN G /\ \A i \in DOMAIN G : n \notin UsedBy(G[i], i)
<1>1. n # 0
  <2>1. d[0].flag = 1
    BY DEF Holds, Super
  <2> QED BY <2>1
<1>2. ASSUME NEW i \in DOMAIN G PROVE n # i
  BY <1>2, InodeIs DEF Holds
<1>3. ASSUME NEW i \in DOMAIN G, NEW k \in 1 .. Len(G[i].blocks) PROVE n # G[i].blocks[k]
  <2> DEFINE b == G[i].blocks
  <2>1. HoldsAt(d, G[i], i) /\ G[i].dir \in BOOLEAN /\ Len(b) \in Nat /\ KindOK(G[i])
    BY PlaceOf DEF Holds
  <2>2. CASE G[i].dir
    <3>1. HoldsList(d, b, G[i].kids) /\ Len(b) = Len(G[i].kids) + 1
      BY <2>1, <2>2 DEF HoldsAt, KindOK
    <3>2. CASE k = Len(b)
      <4>1. k = Len(G[i].kids) + 1
        BY <3>1, <3>2
      <4>2. d[b[k]] = List(2, b[k], 0, 0)
        BY <3>1, <4>1 DEF HoldsList
      <4>3. d[b[k]].flag = 2
        BY <4>2 DEF List
      <4> QED BY <4>3
    <3>3. CASE k # Len(b)
      <4>1. k \in 1 .. Len(G[i].kids)
        BY <2>1, <3>1, <3>3
      <4>2. d[b[k]] = List(1, b[k], G[i].kids[k], b[k + 1])
        BY <3>1, <4>1 DEF HoldsList
      <4>3. d[b[k]].flag = 1
        BY <4>2 DEF List
      <4> QED BY <4>3
    <3> QED BY <3>2, <3>3
  <2>3. CASE ~G[i].dir
    <3>1. HoldsData(d, b, G[i].data) /\ Len(b) = Len(G[i].data)
      BY <2>1, <2>3 DEF HoldsAt, KindOK
    <3>2. CASE k = Len(b)
      <4>2. d[b[k]] = Data(G[i].data[k], b[k], d[b[k]].prev, 0)
        BY <3>1, <3>2 DEF HoldsData
      <4>3. d[b[k]].flag = 1
        BY <4>2 DEF Data
      <4> QED BY <4>3
    <3>3. CASE k # Len(b)
      <4>1. k \in 1 .. Len(G[i].data) - 1
        BY <2>1, <3>1, <3>3
      <4>2. d[b[k]] = Data(G[i].data[k], b[k], d[b[k]].prev, b[k + 1])
        BY <3>1, <4>1 DEF HoldsData
      <4>3. d[b[k]].flag = 1
        BY <4>2 DEF Data
      <4> QED BY <4>3
    <3> QED BY <3>2, <3>3
  <2> QED BY <2>1, <2>2, <2>3
<1>4. \A i \in DOMAIN G : n \notin UsedBy(G[i], i)
  BY <1>2, <1>3 DEF UsedBy, BlocksOf
<1> QED BY <1>1, <1>2, <1>4

\* One inode of the tree on a disk that is the same where it lies.
LEMMA HoldsAtFrame ==
  ASSUME NEW d, NEW e, NEW G, Layout(G), NEW i \in DOMAIN G, HoldsAt(d, G[i], i),
         \A n \in UsedBy(G[i], i) : e[n] = d[n]
  PROVE  HoldsAt(e, G[i], i)
<1>1. /\ KindOK(G[i]) /\ G[i].blocks \in Seq(Numbers) /\ G[i].kids \in Seq(DOMAIN G)
      /\ G[i].data \in Seq(Chunks \cup {Blank}) /\ G[i].dir \in BOOLEAN
  BY PlaceOf
<1>2. DOMAIN G \subseteq Nat
  BY MaxBlockAssumption DEF Layout, LayoutType, Numbers
<1>3. G[i].kids \in Seq(Nat)
  BY <1>1, <1>2
<1> QED BY <1>1, <1>3, Frame

\* A free block can be written without harm.
LEMMA HoldsFree ==
  ASSUME NEW d, NEW G, Layout(G), Holds(d, G), NEW n \in Blocks, d[n].flag = 0, NEW b \in Block
  PROVE  Holds(Written(d, n, b), G)
<1> DEFINE e == Written(d, n, b)
<1>1. d \in Disks
  BY DEF Holds
<1>2. e \in Disks /\ \A m \in Blocks : m # n => e[m] = d[m]
  BY <1>1, OneWritten
<1>3. n # 0 /\ \A i \in DOMAIN G : n \notin UsedBy(G[i], i)
  BY FreeIsFresh
<1>4. 0 \in Blocks
  BY MaxBlockAssumption DEF Blocks
<1>5. \A i \in DOMAIN G : UsedBy(G[i], i) \subseteq Blocks
  <2> SUFFICES ASSUME NEW i \in DOMAIN G, NEW m \in UsedBy(G[i], i) PROVE m \in Blocks
    OBVIOUS
  <2>1. m = i \/ \E k \in 1 .. Len(G[i].blocks) : m = G[i].blocks[k]
    BY DEF UsedBy, BlocksOf
  <2>2. i \in Blocks
    BY PlaceOf
  <2>3. \A k \in 1 .. Len(G[i].blocks) : G[i].blocks[k] \in Blocks
    BY BlockAt
  <2> QED BY <2>1, <2>2, <2>3
<1> HIDE DEF e
<1>6. ASSUME NEW i \in DOMAIN G PROVE HoldsAt(e, G[i], i)
  <2>1. \A m \in UsedBy(G[i], i) : e[m] = d[m]
    BY <1>2, <1>3, <1>5
  <2> QED BY <2>1, HoldsAtFrame DEF Holds
<1>7. e[0] = d[0]
  BY <1>2, <1>3, <1>4
<1>8. Holds(e, G)
  BY <1>2, <1>6, <1>7 DEF Holds
<1> QED BY <1>8 DEF e

\* The block of an inode and the blocks it leads to.
LEMMA UsedIs ==
  ASSUME NEW G, Layout(G), NEW i \in DOMAIN G
  PROVE  i \in UsedBy(G[i], i) /\ \A k \in 1 .. Len(G[i].blocks) : G[i].blocks[k] \in UsedBy(G[i], i)
BY DEF UsedBy, BlocksOf

-----------------------------------------------------------------------------
\* The layout G with an inode a of this name, and its one block s, in the directory p, whose list grows by
\* the block e.
Longer(g, a, e) ==
  [dir |-> g.dir, name |-> g.name, parent |-> g.parent, level |-> g.level, size |-> g.size,
   blocks |-> Append(g.blocks, e), kids |-> Append(g.kids, a), data |-> g.data]
Newcomer(isDir, name, p, level, s) ==
  [dir |-> isDir, name |-> name, parent |-> p, level |-> level, size |-> 0, blocks |-> <<s>>,
   kids |-> <<>>, data |-> IF isDir THEN <<>> ELSE <<Blank>>]
WithEntry(G, p, a, s, e, isDir, name) ==
  [j \in DOMAIN G \cup {a} |->
     IF j = a THEN Newcomer(isDir, name, p, G[p].level + 1, s)
     ELSE IF j = p THEN Longer(G[p], a, e) ELSE G[j]]

\* The blocks that a new entry needs.
Spare(G, p, a, s, e) ==
  /\ p \in DOMAIN G /\ G[p].dir /\ G[p].level + 1 \in 0 .. Depth
  /\ a \in Numbers /\ s \in Numbers /\ e \in Numbers /\ a # s /\ a # e /\ s # e
  /\ a \notin DOMAIN G /\ s \notin DOMAIN G /\ e \notin DOMAIN G
  /\ \A i \in DOMAIN G : \A k \in 1 .. Len(G[i].blocks) : G[i].blocks[k] \notin {a, s, e}

\* H is such a layout.
IsEntry(H, G, p, a, s, e, isDir, name) ==
  /\ DOMAIN H = DOMAIN G \cup {a} /\ H = [j \in DOMAIN H |-> H[j]]
  /\ H[a] = Newcomer(isDir, name, p, G[p].level + 1, s)
  /\ H[p] = Longer(G[p], a, e)
  /\ \A j \in DOMAIN G : j # p => H[j] = G[j]
  /\ \A j \in DOMAIN G : /\ H[j].dir = G[j].dir /\ H[j].name = G[j].name /\ H[j].parent = G[j].parent
                         /\ H[j].level = G[j].level /\ H[j].size = G[j].size
  /\ \A i \in DOMAIN H : \A k \in 1 .. Len(H[i].kids) :
       \/ i \in DOMAIN G /\ k \in 1 .. Len(G[i].kids) /\ H[i].kids[k] = G[i].kids[k]
       \/ i = p /\ k = Len(G[i].kids) + 1 /\ H[i].kids[k] = a
  /\ \A i \in DOMAIN H : \A k \in 1 .. Len(H[i].blocks) :
       \/ i \in DOMAIN G /\ k \in 1 .. Len(G[i].blocks) /\ H[i].blocks[k] = G[i].blocks[k]
       \/ i = p /\ k = Len(G[i].blocks) + 1 /\ H[i].blocks[k] = e
       \/ i = a /\ k = 1 /\ H[i].blocks[k] = s

\* The layout with the entry is what IsEntry says.
LEMMA EntryFacts ==
  ASSUME NEW G, Layout(G), NEW p, NEW a, NEW s, NEW e, Spare(G, p, a, s, e),
         NEW isDir \in BOOLEAN, NEW name \in Names
  PROVE  IsEntry(WithEntry(G, p, a, s, e, isDir, name), G, p, a, s, e, isDir, name)
<1> DEFINE H == WithEntry(G, p, a, s, e, isDir, name)
<1>1. p \in DOMAIN G /\ a \notin DOMAIN G
  BY DEF Spare
<1>2. /\ DOMAIN H = DOMAIN G \cup {a} /\ H = [j \in DOMAIN H |-> H[j]]
      /\ H[a] = Newcomer(isDir, name, p, G[p].level + 1, s)
      /\ H[p] = Longer(G[p], a, e)
      /\ \A j \in DOMAIN G : j # p => H[j] = G[j]
  BY <1>1 DEF WithEntry
<1> HIDE DEF H
<1>3. ASSUME NEW j \in DOMAIN G
      PROVE  /\ H[j].dir = G[j].dir /\ H[j].name = G[j].name /\ H[j].parent = G[j].parent
             /\ H[j].level = G[j].level /\ H[j].size = G[j].size
  <2>1. CASE j = p
    BY <1>2, <2>1 DEF Longer
  <2>2. CASE j # p
    BY <1>2, <2>2
  <2> QED BY <2>1, <2>2
<1>4. H[p].kids = Append(G[p].kids, a) /\ H[p].blocks = Append(G[p].blocks, e)
  BY <1>2 DEF Longer
<1>5. H[a].kids = <<>> /\ H[a].blocks = <<s>>
  BY <1>2 DEF Newcomer
<1>6. G[p].kids \in Seq(DOMAIN G) /\ G[p].blocks \in Seq(Numbers) /\ Len(G[p].kids) \in Nat /\ Len(G[p].blocks) \in Nat
  BY <1>1, PlaceOf
<1>7. ASSUME NEW i \in DOMAIN H, NEW k \in 1 .. Len(H[i].kids)
      PROVE  \/ i \in DOMAIN G /\ k \in 1 .. Len(G[i].kids) /\ H[i].kids[k] = G[i].kids[k]
             \/ i = p /\ k = Len(G[i].kids) + 1 /\ H[i].kids[k] = a
  <2>1. CASE i = a
    BY <1>5, <2>1
  <2>2. CASE i = p
    <3>1. Len(H[p].kids) = Len(G[p].kids) + 1 /\ H[p].kids[Len(G[p].kids) + 1] = a
          /\ \A m \in 1 .. Len(G[p].kids) : H[p].kids[m] = G[p].kids[m]
      BY <1>4, <1>6
    <3> QED BY <1>1, <1>6, <2>2, <3>1
  <2>3. CASE i # a /\ i # p
    BY <1>2, <2>3
  <2> QED BY <2>1, <2>2, <2>3
<1>8. ASSUME NEW i \in DOMAIN H, NEW k \in 1 .. Len(H[i].blocks)
      PROVE  \/ i \in DOMAIN G /\ k \in 1 .. Len(G[i].blocks) /\ H[i].blocks[k] = G[i].blocks[k]
             \/ i = p /\ k = Len(G[i].blocks) + 1 /\ H[i].blocks[k] = e
             \/ i = a /\ k = 1 /\ H[i].blocks[k] = s
  <2>1. CASE i = a
    <3>1. Len(<<s>>) = 1 /\ <<s>>[1] = s
      OBVIOUS
    <3> QED BY <1>5, <2>1, <3>1
  <2>2. CASE i = p
    <3>1. Len(H[p].blocks) = Len(G[p].blocks) + 1 /\ H[p].blocks[Len(G[p].blocks) + 1] = e
          /\ \A m \in 1 .. Len(G[p].blocks) : H[p].blocks[m] = G[p].blocks[m]
      BY <1>4, <1>6
    <3> QED BY <1>1, <1>6, <2>2, <3>1
  <2>3. CASE i # a /\ i # p
    BY <1>2, <2>3
  <2> QED BY <2>1, <2>2, <2>3
<1>9. IsEntry(H, G, p, a, s, e, isDir, name)
  BY <1>2, <1>3, <1>7, <1>8 DEF IsEntry
<1> QED BY <1>9 DEF H

\* It is a layout.
LEMMA EntryLayout ==
  ASSUME NEW G, Layout(G), NEW p, NEW a, NEW s, NEW e, Spare(G, p, a, s, e),
         NEW isDir \in BOOLEAN, NEW name \in Names, NEW H, IsEntry(H, G, p, a, s, e, isDir, name)
  PROVE  Layout(H)
<1>0. /\ p \in DOMAIN G /\ G[p].dir /\ G[p].level + 1 \in 0 .. Depth
      /\ a \in Numbers /\ s \in Numbers /\ e \in Numbers /\ a # s /\ a # e /\ s # e
      /\ a \notin DOMAIN G /\ s \notin DOMAIN G /\ e \notin DOMAIN G
      /\ \A i \in DOMAIN G : \A k \in 1 .. Len(G[i].blocks) : G[i].blocks[k] \notin {a, s, e}
  BY DEF Spare
<1>1. /\ DOMAIN H = DOMAIN G \cup {a} /\ H = [j \in DOMAIN H |-> H[j]]
      /\ H[a] = Newcomer(isDir, name, p, G[p].level + 1, s)
      /\ H[p] = Longer(G[p], a, e)
      /\ \A j \in DOMAIN G : j # p => H[j] = G[j]
  BY DEF IsEntry
<1>2. \A j \in DOMAIN G : /\ H[j].dir = G[j].dir /\ H[j].name = G[j].name /\ H[j].parent = G[j].parent
                          /\ H[j].level = G[j].level /\ H[j].size = G[j].size
  BY DEF IsEntry
<1>3. \A i \in DOMAIN H : \A k \in 1 .. Len(H[i].kids) :
        \/ i \in DOMAIN G /\ k \in 1 .. Len(G[i].kids) /\ H[i].kids[k] = G[i].kids[k]
        \/ i = p /\ k = Len(G[i].kids) + 1 /\ H[i].kids[k] = a
  BY DEF IsEntry
<1>4. \A i \in DOMAIN H : \A k \in 1 .. Len(H[i].blocks) :
        \/ i \in DOMAIN G /\ k \in 1 .. Len(G[i].blocks) /\ H[i].blocks[k] = G[i].blocks[k]
        \/ i = p /\ k = Len(G[i].blocks) + 1 /\ H[i].blocks[k] = e
        \/ i = a /\ k = 1 /\ H[i].blocks[k] = s
  BY DEF IsEntry
<1>5. /\ H[a].dir = isDir /\ H[a].name = name /\ H[a].parent = p /\ H[a].level = G[p].level + 1
      /\ H[a].size = 0 /\ H[a].blocks = <<s>> /\ H[a].kids = <<>>
      /\ H[a].data = IF isDir THEN <<>> ELSE <<Blank>>
  BY <1>1 DEF Newcomer
<1>6. Root \in DOMAIN G /\ DOMAIN G \subseteq Numbers
  BY DEF Layout, LayoutType
<1>7. ASSUME NEW j \in DOMAIN H PROVE H[j] \in Placed(DOMAIN H) /\ KindOK(H[j])
  <2>1. CASE j = a
    <3>1. <<s>> \in Seq(Numbers) /\ <<>> \in Seq(DOMAIN H) /\ <<>> \in Seq(Chunks \cup {Blank})
          /\ <<Blank>> \in Seq(Chunks \cup {Blank}) /\ 0 \in 0 .. MaxSize
      BY <1>0, SizesAssumption
    <3>2. H[a].data \in Seq(Chunks \cup {Blank})
      BY <1>5, <3>1
    <3>3. H[a] \in Placed(DOMAIN H)
      <4>1. H[a] = [dir |-> isDir, name |-> name, parent |-> p, level |-> G[p].level + 1, size |-> 0,
                    blocks |-> <<s>>, kids |-> <<>>, data |-> H[a].data]
        BY <1>1, <1>5 DEF Newcomer
      <4> DEFINE x == H[a].data
                 y == <<s>>
      <4>2. p \in DOMAIN H /\ x \in Seq(Chunks \cup {Blank}) /\ y \in Seq(Numbers) /\ <<>> \in Seq(DOMAIN H)
        BY <1>0, <1>1, <3>1, <3>2
      <4>3. H[a] = [dir |-> isDir, name |-> name, parent |-> p, level |-> G[p].level + 1, size |-> 0,
                    blocks |-> y, kids |-> <<>>, data |-> x]
        BY <4>1
      <4> HIDE DEF x, y
      <4> QED BY <1>0, <3>1, <4>2, <4>3 DEF Placed
    <3>4. KindOK(H[a])
      <4>1. Len(<<s>>) = 1 /\ Len(<<Blank>>) = 1 /\ Len(<<>>) = 0
        OBVIOUS
      <4> QED BY <1>5, <4>1 DEF KindOK
    <3> QED BY <2>1, <3>3, <3>4
  <2>2. CASE j = p
    <3>1. /\ G[p].dir \in BOOLEAN /\ G[p].name \in Names \cup {NoName} /\ G[p].parent \in DOMAIN G
          /\ G[p].level \in 0 .. Depth /\ G[p].size \in 0 .. MaxSize
          /\ G[p].blocks \in Seq(Numbers) /\ G[p].kids \in Seq(DOMAIN G)
          /\ G[p].data \in Seq(Chunks \cup {Blank}) /\ KindOK(G[p])
      BY <1>0, PlaceOf
    <3>2. Append(G[p].blocks, e) \in Seq(Numbers) /\ Append(G[p].kids, a) \in Seq(DOMAIN H)
      BY <1>0, <1>1, <3>1
    <3>3. H[p] \in Placed(DOMAIN H)
      BY <1>1, <3>1, <3>2 DEF Placed, Longer
    <3>4. Len(Append(G[p].blocks, e)) = Len(Append(G[p].kids, a)) + 1 /\ G[p].size = 0 /\ G[p].data = <<>>
      <4>1. Len(G[p].blocks) = Len(G[p].kids) + 1 /\ G[p].size = 0 /\ G[p].data = <<>>
        BY <1>0, <3>1 DEF KindOK
      <4>2. Len(Append(G[p].blocks, e)) = Len(G[p].blocks) + 1 /\ Len(Append(G[p].kids, a)) = Len(G[p].kids) + 1
        BY <3>1
      <4> QED BY <4>1, <4>2
    <3>5. KindOK(H[p])
      <4>1. /\ H[p].dir /\ H[p].blocks = Append(G[p].blocks, e) /\ H[p].kids = Append(G[p].kids, a)
            /\ H[p].size = G[p].size /\ H[p].data = G[p].data
        BY <1>0, <1>1 DEF Longer
      <4> QED BY <3>4, <4>1 DEF KindOK
    <3> QED BY <2>2, <3>3, <3>5
  <2>3. CASE j # a /\ j # p
    <3>1. j \in DOMAIN G /\ H[j] = G[j]
      BY <1>1, <2>3
    <3>2. G[j] \in Placed(DOMAIN G) /\ KindOK(G[j])
      BY <3>1 DEF Layout, LayoutType, KindsOK
    <3>3. Placed(DOMAIN G) \subseteq Placed(DOMAIN H)
      <4>1. DOMAIN G \subseteq DOMAIN H
        BY <1>1
      <4>2. Seq(DOMAIN G) \subseteq Seq(DOMAIN H)
        BY <4>1
      <4> QED BY <4>1, <4>2 DEF Placed
    <3> QED BY <3>1, <3>2, <3>3
  <2> QED BY <2>1, <2>2, <2>3
<1>8. LayoutType(H) /\ KindsOK(H)
  BY <1>0, <1>1, <1>6, <1>7 DEF LayoutType, KindsOK
<1>9. RootOK(H)
  BY <1>2, <1>6 DEF RootOK, Layout
<1>10. \A i \in DOMAIN G : G[i].level \in Nat /\ Len(G[i].kids) \in Nat /\ Len(G[i].blocks) \in Nat
  BY PlaceOf, SizesAssumption
<1>11. NamesKids(H)
  <2> SUFFICES ASSUME NEW i \in DOMAIN H, NEW k \in 1 .. Len(H[i].kids)
               PROVE  H[i].kids[k] # Root /\ H[H[i].kids[k]].parent = i /\ H[H[i].kids[k]].level = H[i].level + 1
    BY DEF NamesKids
  <2>1. CASE i \in DOMAIN G /\ k \in 1 .. Len(G[i].kids) /\ H[i].kids[k] = G[i].kids[k]
    <3>1. G[i].kids[k] \in DOMAIN G /\ G[i].kids[k] # Root /\ G[G[i].kids[k]].parent = i
          /\ G[G[i].kids[k]].level = G[i].level + 1
      BY <2>1, KidAt
    <3> QED BY <1>2, <2>1, <3>1
  <2>2. CASE i = p /\ H[i].kids[k] = a
    BY <1>0, <1>2, <1>5, <1>6, <2>2
  <2> QED BY <1>3, <2>1, <2>2
<1>12. NamesOnce(H)
  <2> SUFFICES ASSUME NEW i \in DOMAIN H, NEW k \in 1 .. Len(H[i].kids), NEW l \in 1 .. Len(H[i].kids),
                      H[i].kids[k] = H[i].kids[l]
               PROVE  k = l
    BY DEF NamesOnce
  <2>1. \A m \in 1 .. Len(G[i].kids) : i \in DOMAIN G => G[i].kids[m] # a
    BY <1>0, KidAt
  <2>2. NamesOnce(G)
    BY DEF Layout
  <2> QED BY <1>3, <2>1, <2>2 DEF NamesOnce
<1>13. NamesAll(H)
  <2> SUFFICES ASSUME NEW j \in DOMAIN H \ {Root} PROVE \E k \in 1 .. Len(H[H[j].parent].kids) : H[H[j].parent].kids[k] = j
    BY DEF NamesAll, Named1
  <2>0. H[p].kids = Append(G[p].kids, a) /\ G[p].kids \in Seq(DOMAIN G)
    <3>1. Longer(G[p], a, e).kids = Append(G[p].kids, a)
      BY DEF Longer
    <3> QED BY <1>0, <1>1, <3>1, PlaceOf
  <2>1. CASE j = a
    <3>1. Len(G[p].kids) + 1 \in 1 .. Len(H[p].kids) /\ H[p].kids[Len(G[p].kids) + 1] = a
      BY <2>0
    <3> QED BY <1>5, <2>1, <3>1
  <2>2. CASE j # a
    <3> DEFINE q == G[j].parent
    <3>1. j \in DOMAIN G /\ q \in DOMAIN G /\ H[j].parent = q
      BY <1>1, <1>2, <2>2, PlaceOf
    <3>2. PICK k \in 1 .. Len(G[q].kids) : G[q].kids[k] = j
      BY <3>1 DEF Layout, NamesAll, Named1
    <3>3. k \in 1 .. Len(H[q].kids) /\ H[q].kids[k] = j
      <4>1. CASE q = p
        BY <2>0, <3>2, <4>1
      <4>2. CASE q # p
        BY <1>1, <3>1, <3>2, <4>2
      <4> QED BY <4>1, <4>2
    <3> QED BY <3>1, <3>3
  <2> QED BY <2>1, <2>2
<1>14. BlocksApart(H)
  <2> SUFFICES ASSUME NEW i \in DOMAIN H, NEW k \in 1 .. Len(H[i].blocks) PROVE H[i].blocks[k] \notin DOMAIN H
    BY DEF BlocksApart
  <2>1. \A m \in 1 .. Len(G[i].blocks) : i \in DOMAIN G => G[i].blocks[m] \notin DOMAIN G
    BY DEF Layout, BlocksApart
  <2> QED BY <1>0, <1>1, <1>4, <2>1
<1>15. BlocksOnce(H)
  <2> SUFFICES ASSUME NEW i \in DOMAIN H, NEW j \in DOMAIN H, NEW k \in 1 .. Len(H[i].blocks),
                      NEW l \in 1 .. Len(H[j].blocks), H[i].blocks[k] = H[j].blocks[l]
               PROVE  i = j /\ k = l
    BY DEF BlocksOnce
  <2>1. \A x, y \in DOMAIN G : \A m \in 1 .. Len(G[x].blocks), n \in 1 .. Len(G[y].blocks) :
          G[x].blocks[m] = G[y].blocks[n] => x = y /\ m = n
    BY DEF Layout, BlocksOnce
  <2>2. \/ i \in DOMAIN G /\ k \in 1 .. Len(G[i].blocks) /\ H[i].blocks[k] = G[i].blocks[k]
        \/ i = p /\ k = Len(G[i].blocks) + 1 /\ H[i].blocks[k] = e
        \/ i = a /\ k = 1 /\ H[i].blocks[k] = s
    BY <1>4
  <2>3. \/ j \in DOMAIN G /\ l \in 1 .. Len(G[j].blocks) /\ H[j].blocks[l] = G[j].blocks[l]
        \/ j = p /\ l = Len(G[j].blocks) + 1 /\ H[j].blocks[l] = e
        \/ j = a /\ l = 1 /\ H[j].blocks[l] = s
    BY <1>4
  <2>4. CASE i \in DOMAIN G /\ k \in 1 .. Len(G[i].blocks) /\ H[i].blocks[k] = G[i].blocks[k]
    <3>1. H[i].blocks[k] \notin {e, s}
      BY <1>0, <2>4
    <3> QED BY <2>1, <2>3, <2>4, <3>1
  <2>5. CASE i = p /\ k = Len(G[i].blocks) + 1 /\ H[i].blocks[k] = e
    <3>1. \A m \in 1 .. Len(G[j].blocks) : j \in DOMAIN G => e # G[j].blocks[m]
      BY <1>0
    <3> QED BY <1>0, <2>3, <2>5, <3>1
  <2>6. CASE i = a /\ k = 1 /\ H[i].blocks[k] = s
    <3>1. \A m \in 1 .. Len(G[j].blocks) : j \in DOMAIN G => s # G[j].blocks[m]
      BY <1>0
    <3> QED BY <1>0, <2>3, <2>6, <3>1
  <2> QED BY <2>2, <2>4, <2>5, <2>6
<1> QED BY <1>8, <1>9, <1>11, <1>12, <1>13, <1>14, <1>15 DEF Layout

\* The disk f is the disk d with the new entry in it.
EntryWritten(f, d, G, p, a, s, e, isDir, name) ==
  LET last == Last(G[p].blocks) IN
  /\ f \in Disks
  /\ f[a] = Inode(isDir, name, p, s, a)
  /\ f[s] = IF isDir THEN List(2, s, 0, 0) ELSE Data(Blank, s, 0, 0)
  /\ f[last] = List(1, last, a, e)
  /\ f[e] = List(2, e, 0, 0)
  /\ \A m \in Blocks : m \notin {a, s, e, last} => f[m] = d[m]

\* The disk with the entry holds it.
LEMMA EntryHolds ==
  ASSUME NEW G, Layout(G), NEW p, NEW a, NEW s, NEW e, Spare(G, p, a, s, e),
         NEW isDir \in BOOLEAN, NEW name \in Names, NEW H, IsEntry(H, G, p, a, s, e, isDir, name),
         NEW d, Holds(d, G), NEW f, EntryWritten(f, d, G, p, a, s, e, isDir, name)
  PROVE  Holds(f, H)
<1> DEFINE b == G[p].blocks
           kids == G[p].kids
           n == Len(kids)
           last == b[n + 1]
<1>0. /\ p \in DOMAIN G /\ G[p].dir /\ a \in Numbers /\ s \in Numbers /\ e \in Numbers
      /\ a # s /\ a # e /\ s # e /\ a \notin DOMAIN G /\ s \notin DOMAIN G /\ e \notin DOMAIN G
      /\ \A i \in DOMAIN G : \A k \in 1 .. Len(G[i].blocks) : G[i].blocks[k] \notin {a, s, e}
  BY DEF Spare
<1>1. /\ DOMAIN H = DOMAIN G \cup {a}
      /\ H[a] = Newcomer(isDir, name, p, G[p].level + 1, s)
      /\ H[p] = Longer(G[p], a, e)
      /\ \A j \in DOMAIN G : j # p => H[j] = G[j]
  BY DEF IsEntry
<1>2. b \in Seq(Numbers) /\ kids \in Seq(DOMAIN G) /\ n \in Nat /\ Len(b) = n + 1
  BY <1>0, PlaceOf DEF KindOK
<1>3. Last(b) = last /\ n + 1 \in 1 .. Len(b)
  BY <1>2 DEF Last
<1>4. /\ f \in Disks
      /\ f[a] = Inode(isDir, name, p, s, a)
      /\ f[s] = IF isDir THEN List(2, s, 0, 0) ELSE Data(Blank, s, 0, 0)
      /\ f[last] = List(1, last, a, e)
      /\ f[e] = List(2, e, 0, 0)
      /\ \A m \in Blocks : m \notin {a, s, e, last} => f[m] = d[m]
  BY <1>3 DEF EntryWritten
<1>5. \A j \in DOMAIN G : HoldsAt(d, G[j], j)
  BY DEF Holds
<1>6. last # 0 /\ last \notin DOMAIN G /\ last \in Blocks
  BY <1>0, <1>3, BlockAt
<1>7. f[0] = Super(Root)
  <2>1. 0 \in Blocks /\ 0 \notin Numbers
    BY MaxBlockAssumption DEF Blocks, Numbers
  <2> QED BY <1>0, <1>4, <1>6, <2>1 DEF Holds
<1>8. HoldsAt(f, H[a], a)
  <2>1. <<s>>[1] = s /\ Len(<<>>) = 0 /\ Len(<<Blank>>) = 1 /\ <<Blank>>[1] = Blank /\ 0 + 1 = 1
    OBVIOUS
  <2>2. InodeOf(H[a], a) = Inode(isDir, name, p, s, a)
    BY <1>1, <2>1 DEF InodeOf, Inode, Newcomer
  <2>3. H[a].dir = isDir /\ H[a].blocks = <<s>> /\ H[a].kids = <<>> /\ H[a].data = IF isDir THEN <<>> ELSE <<Blank>>
    BY <1>1 DEF Newcomer
  <2>4. CASE isDir
    <3>1. HoldsList(f, <<s>>, <<>>)
      BY <1>4, <2>1, <2>4 DEF HoldsList
    <3> QED BY <1>4, <2>2, <2>3, <2>4, <3>1 DEF HoldsAt
  <2>5. CASE ~isDir
    <3>1. f[s] = Data(Blank, s, f[s].prev, 0)
      <4>1. f[s] = Data(Blank, s, 0, 0)
        BY <1>4, <2>5
      <4> QED BY <4>1 DEF Data
    <3>2. HoldsData(f, <<s>>, <<Blank>>)
      BY <2>1, <3>1 DEF HoldsData
    <3> QED BY <1>4, <2>2, <2>3, <2>5, <3>2 DEF HoldsAt
  <2> QED BY <2>4, <2>5
<1>9. HoldsAt(f, H[p], p)
  <2>1. /\ H[p].dir = G[p].dir /\ H[p].blocks = Append(b, e) /\ H[p].kids = Append(kids, a)
        /\ H[p].name = G[p].name /\ H[p].parent = G[p].parent /\ H[p].size = G[p].size
    <3>1. H[p] = Longer(G[p], a, e)
      BY <1>1
    <3> QED BY <3>1 DEF Longer
  <2> DEFINE c == Append(b, e)
             ks == Append(kids, a)
  <2>2. /\ Len(ks) = n + 1 /\ ks[n + 1] = a /\ \A k \in 1 .. n : ks[k] = kids[k]
        /\ c[n + 2] = e /\ \A k \in 1 .. n + 1 : c[k] = b[k]
    <3>1. Len(ks) = n + 1 /\ ks[n + 1] = a /\ \A k \in 1 .. n : ks[k] = kids[k]
      BY <1>2
    <3>2. c[Len(b) + 1] = e /\ \A k \in 1 .. Len(b) : c[k] = b[k]
      <4> HIDE DEF n, kids
      <4> QED BY <1>2
    <3>3. Len(b) + 1 = n + 2
      BY <1>2
    <3> HIDE DEF c, ks, n
    <3> QED BY <1>2, <3>1, <3>2, <3>3
  <2>3. f[p] = InodeOf(H[p], p)
    <3>1. p \in Blocks /\ p \notin {a, s, e, last}
      BY <1>0, <1>6, PlaceOf
    <3>2. f[p] = InodeOf(G[p], p)
      BY <1>0, <1>4, <1>5, <3>1 DEF HoldsAt
    <3>3. c[1] = b[1]
      BY <1>2, <2>2
    <3> QED BY <2>1, <3>2, <3>3 DEF InodeOf
  <2>4. HoldsList(d, b, kids)
    BY <1>0, <1>5 DEF HoldsAt
  <2> HIDE DEF c, ks
  <2>5. ASSUME NEW k \in 1 .. n + 1 PROVE f[c[k]] = List(1, c[k], ks[k], c[k + 1])
    <3>1. CASE k = n + 1
      <4>1. c[k] = last /\ ks[k] = a /\ c[k + 1] = e
        BY <1>2, <2>2, <3>1
      <4> QED BY <1>4, <4>1
    <3>2. CASE k # n + 1
      <4>1. k \in 1 .. n /\ k + 1 \in 1 .. n + 1 /\ k \in 1 .. Len(b) /\ k # n + 1
        BY <1>2, <3>2
      <4>2. c[k] = b[k] /\ ks[k] = kids[k] /\ c[k + 1] = b[k + 1]
        BY <2>2, <4>1
      <4>3. b[k] # last
        BY <1>0, <1>3, <4>1 DEF Layout, BlocksOnce
      <4>4. b[k] \in Blocks /\ b[k] \notin {a, s, e, last}
        BY <1>0, <4>1, <4>3, BlockAt
      <4>5. d[b[k]] = List(1, b[k], kids[k], b[k + 1])
        BY <2>4, <4>1 DEF HoldsList
      <4> QED BY <1>4, <4>2, <4>4, <4>5
    <3> QED BY <3>1, <3>2
  <2>6. f[c[n + 2]] = List(2, c[n + 2], 0, 0)
    BY <1>4, <2>2
  <2>7. HoldsList(f, c, ks)
    <3>1. Len(ks) + 1 = n + 2
      BY <1>2, <2>2
    <3> QED BY <2>2, <2>5, <2>6, <3>1 DEF HoldsList
  <2> QED BY <1>0, <2>1, <2>3, <2>7 DEF HoldsAt, c, ks
<1>10. ASSUME NEW j \in DOMAIN G, j # p PROVE HoldsAt(f, H[j], j)
  <2>1. ASSUME NEW m \in UsedBy(G[j], j) PROVE f[m] = d[m]
    <3>1. CASE m = j
      BY <1>0, <1>4, <1>6, <3>1, PlaceOf
    <3>2. CASE \E k \in 1 .. Len(G[j].blocks) : m = G[j].blocks[k]
      <4>1. PICK k \in 1 .. Len(G[j].blocks) : m = G[j].blocks[k]
        BY <3>2
      <4>2. m # last
        BY <1>0, <1>3, <1>10, <4>1 DEF Layout, BlocksOnce
      <4>3. m \in Blocks /\ m \notin {a, s, e, last}
        BY <1>0, <4>1, <4>2, BlockAt
      <4> QED BY <1>4, <4>3
    <3> QED BY <3>1, <3>2 DEF UsedBy, BlocksOf
  <2>2. HoldsAt(f, G[j], j)
    BY <1>5, <2>1, HoldsAtFrame
  <2> QED BY <1>1, <1>10, <2>2
<1> QED BY <1>1, <1>4, <1>7, <1>8, <1>9, <1>10 DEF Holds

\* The objects with a new one, id, in the directory p.
WithObject(obj, p, id, isDir, name) ==
  [i \in DOMAIN obj \cup {id} |->
     IF i = id THEN Promise!Object(isDir, name)
     ELSE IF i = p THEN [obj[p] EXCEPT !.kids = Append(@, id)]
     ELSE obj[i]]

\* The objects of the layout are those that the promise has after the call.
LEMMA EntryObjects ==
  ASSUME NEW G, Layout(G), NEW p, NEW a, NEW s, NEW e, Spare(G, p, a, s, e),
         NEW isDir \in BOOLEAN, NEW name \in Names, NEW H, IsEntry(H, G, p, a, s, e, isDir, name)
  PROVE  ObjectsOf(H) = WithObject(ObjectsOf(G), p, a, isDir, name)
<1> DEFINE obj == ObjectsOf(G)
<1>0. p \in DOMAIN G /\ G[p].dir /\ a \notin DOMAIN G
  BY DEF Spare
<1>1. /\ DOMAIN H = DOMAIN G \cup {a}
      /\ H[a] = Newcomer(isDir, name, p, G[p].level + 1, s)
      /\ H[p] = Longer(G[p], a, e)
      /\ \A j \in DOMAIN G : j # p => H[j] = G[j]
  BY DEF IsEntry
<1>2. DOMAIN obj = DOMAIN G /\ \A j \in DOMAIN G : obj[j] = ObjectOf(G[j])
  BY DEF ObjectsOf
<1>3. ObjectOf(H[a]) = Promise!Object(isDir, name)
  <2>1. H[a].dir = isDir /\ H[a].name = name /\ H[a].kids = <<>> /\ H[a].size = 0
        /\ H[a].data = IF isDir THEN <<>> ELSE <<Blank>>
    BY <1>1 DEF Newcomer
  <2>2. SubSeq(<<>>, 1, 0) = <<>> /\ SubSeq(<<Blank>>, 1, 0) = <<>>
    OBVIOUS
  <2>3. SubSeq(H[a].data, 1, 0) = <<>>
    BY <2>1, <2>2
  <2> QED BY <2>1, <2>3 DEF ObjectOf, Promise!Object
<1>4. ObjectOf(H[p]) = [obj[p] EXCEPT !.kids = Append(@, a)]
  <2>1. obj[p] = [dir |-> G[p].dir, name |-> G[p].name, kids |-> G[p].kids, data |-> SubSeq(G[p].data, 1, G[p].size)]
    BY <1>0, <1>2 DEF ObjectOf
  <2>2. H[p].dir = G[p].dir /\ H[p].name = G[p].name /\ H[p].kids = Append(G[p].kids, a)
        /\ H[p].data = G[p].data /\ H[p].size = G[p].size
    BY <1>1 DEF Longer
  <2> DEFINE dat == SubSeq(G[p].data, 1, G[p].size)
             ks == Append(G[p].kids, a)
  <2>3. ObjectOf(H[p]) = [dir |-> G[p].dir, name |-> G[p].name, kids |-> ks, data |-> dat]
    BY <2>2 DEF ObjectOf
  <2> HIDE DEF dat
  <2>4. [obj[p] EXCEPT !.kids = Append(@, a)] = [dir |-> G[p].dir, name |-> G[p].name, kids |-> ks, data |-> dat]
    <3>1. obj[p] = [dir |-> G[p].dir, name |-> G[p].name, kids |-> G[p].kids, data |-> dat]
      BY <2>1 DEF dat
    <3>2. Append(obj[p].kids, a) = ks
      BY <3>1
    <3>3. [obj[p] EXCEPT !.kids = Append(@, a)] = [obj[p] EXCEPT !.kids = ks]
      <4> HIDE DEF ks
      <4> QED BY <3>2
    <3> HIDE DEF ks
    <3>4. [obj[p] EXCEPT !.kids = ks] = [dir |-> G[p].dir, name |-> G[p].name, kids |-> ks, data |-> dat]
      BY <3>1
    <3> QED BY <3>3, <3>4 DEF ks
  <2> QED BY <2>3, <2>4
<1>5. \A j \in DOMAIN G : j # p => ObjectOf(H[j]) = obj[j]
  BY <1>1, <1>2
<1> DEFINE x == [obj[p] EXCEPT !.kids = Append(@, a)]
           y == Promise!Object(isDir, name)
<1> HIDE DEF x, y
<1>6. ObjectsOf(H) = [i \in DOMAIN obj \cup {a} |-> IF i = a THEN y ELSE IF i = p THEN x ELSE obj[i]]
  BY <1>0, <1>1, <1>2, <1>3, <1>4, <1>5 DEF ObjectsOf, x, y
<1> QED BY <1>6 DEF WithObject, x, y

-----------------------------------------------------------------------------
(***************************************************************************)
(* fs_create() and fs_mkdir()                                              *)
(***************************************************************************)

\* A disk that differs only in blocks that are no part of the tree.
LEMMA HoldsBut ==
  ASSUME NEW d, NEW G, Layout(G), Holds(d, G), NEW f \in Disks, NEW X, 0 \notin X,
         \A i \in DOMAIN G : i \notin X /\ \A k \in 1 .. Len(G[i].blocks) : G[i].blocks[k] \notin X,
         \A m \in Blocks : m \notin X => f[m] = d[m]
  PROVE  Holds(f, G)
<1>1. 0 \in Blocks
  BY MaxBlockAssumption DEF Blocks
<1>2. ASSUME NEW i \in DOMAIN G PROVE HoldsAt(f, G[i], i)
  <2>1. ASSUME NEW m \in UsedBy(G[i], i) PROVE f[m] = d[m]
    <3>1. m = i \/ \E k \in 1 .. Len(G[i].blocks) : m = G[i].blocks[k]
      BY DEF UsedBy, BlocksOf
    <3>2. m \in Blocks /\ m \notin X
      <4>1. CASE m = i
        BY <4>1, PlaceOf
      <4>2. CASE \E k \in 1 .. Len(G[i].blocks) : m = G[i].blocks[k]
        BY <4>2, BlockAt
      <4> QED BY <3>1, <4>1, <4>2
    <3> QED BY <3>2
  <2> QED BY <2>1, HoldsAtFrame DEF Holds
<1>3. f[0] = d[0]
  BY <1>1
<1> QED BY <1>2, <1>3 DEF Holds

-----------------------------------------------------------------------------
(***************************************************************************)
(* What a crash leaves                                                     *)
(***************************************************************************)
\* The disks that hold the layout G but for the file x, whose data may be anything, and for the ends of lists;
\* Nobody is no file.
Nobody == 0

ShowsAt(d, g, i) ==
  /\ d[i] = InodeOf(g, i)
  /\ IF g.dir THEN HoldsKids(d, g.blocks, g.kids) ELSE HoldsData(d, g.blocks, g.data)

Around(G, x) ==
  {d \in Disks : \A j \in DOMAIN G :
     IF j = x THEN d[j].kind = "inode" /\ ~d[j].isDirectory ELSE ShowsAt(d, G[j], j)}

Held(G) == {d \in Disks : Holds(d, G)}

\* On the disk d the files among the objects are what they are, but for one that the call c is about.
Spared(d, objects, c) ==
  LET now     == Objects(d)
      Same(i) == i \in DOMAIN now /\ now[i].name = objects[i].name /\ now[i].data = objects[i].data
      changed == {i \in DOMAIN objects : ~objects[i].dir /\ ~Same(i)}
  IN  changed # {} => Cardinality(changed) = 1 /\ c \in {"create", "write"}
Sparing(objects, c) == {d \in Disks : Spared(d, objects, c)}

\* A layout is shown where it is held.
LEMMA HoldsShows ==
  ASSUME NEW d, NEW G, NEW i, HoldsAt(d, G[i], i), G[i].dir \in BOOLEAN
  PROVE  ShowsAt(d, G[i], i)
<1>1. d[i] = InodeOf(G[i], i)
  BY DEF HoldsAt
<1>2. CASE G[i].dir
  <2>1. HoldsKids(d, G[i].blocks, G[i].kids)
    BY <1>2, ListHolds
  <2> QED BY <1>1, <1>2, <2>1 DEF ShowsAt
<1>3. CASE ~G[i].dir
  <2>1. HoldsData(d, G[i].blocks, G[i].data)
    BY <1>3 DEF HoldsAt
  <2> QED BY <1>1, <1>3, <2>1 DEF ShowsAt
<1> QED BY <1>2, <1>3

LEMMA HeldAround ==
  ASSUME NEW G, Layout(G)
  PROVE  Held(G) \subseteq Around(G, Nobody)
<1> SUFFICES ASSUME NEW d \in Held(G) PROVE d \in Around(G, Nobody)
  OBVIOUS
<1>1. d \in Disks /\ Holds(d, G)
  BY DEF Held
<1>2. ASSUME NEW j \in DOMAIN G PROVE j # Nobody /\ ShowsAt(d, G[j], j)
  <2>1. j # 0 /\ G[j].dir \in BOOLEAN
    BY PlaceOf
  <2>2. HoldsAt(d, G[j], j)
    BY <1>1 DEF Holds
  <2> QED BY <2>1, <2>2, HoldsShows DEF Nobody
<1> QED BY <1>1, <1>2 DEF Around

\* The inodes that such an inode names.
LEMMA ShowsKids ==
  ASSUME NEW d, DOMAIN d = Blocks, NEW G, Layout(G), NEW i \in DOMAIN G, ShowsAt(d, G[i], i)
  PROVE  /\ Kids(d, i) = G[i].kids
         /\ AsInode(d[i]) = d[i] /\ d[i].isDirectory = G[i].dir /\ d[i].name = G[i].name
<1>1. d[i] = InodeOf(G[i], i) /\ G[i].dir \in BOOLEAN
  BY PlaceOf DEF ShowsAt
<1>2. AsInode(d[i]) = d[i] /\ d[i].isDirectory = G[i].dir /\ d[i].name = G[i].name /\ d[i].start = G[i].blocks[1]
  BY <1>1 DEF InodeOf, AsInode
<1>3. CASE G[i].dir
  <2>1. HoldsKids(d, G[i].blocks, G[i].kids)
    BY <1>3 DEF ShowsAt
  <2>2. Named(d, G[i].blocks[1]) = G[i].kids
    BY <1>3, <2>1, NamedIs
  <2> QED BY <1>2, <1>3, <2>2 DEF Kids
<1>4. CASE ~G[i].dir
  <2>1. G[i].kids = <<>>
    BY <1>4, PlaceOf DEF KindOK
  <2> QED BY <1>2, <1>4, <2>1 DEF Kids
<1> QED BY <1>1, <1>3, <1>4

\* On such a disk the tree is that of the layout, and the files but x are read as they are.
LEMMA AroundTree ==
  ASSUME NEW G, Layout(G), NEW x, x \in DOMAIN G => ~G[x].dir, NEW d \in Around(G, x)
  PROVE  Tree(d) = DOMAIN G
<1>1. DOMAIN d = Blocks
  BY DEF Around, Disks
<1>2. ASSUME NEW j \in DOMAIN G PROVE Kids(d, j) = G[j].kids
  <2>1. CASE j = x
    <3>1. d[j].kind = "inode" /\ ~d[j].isDirectory
      BY <2>1 DEF Around
    <3>2. Kids(d, j) = <<>>
      BY <3>1 DEF Kids, AsInode
    <3>3. G[j].kids = <<>>
      BY <2>1, PlaceOf DEF KindOK
    <3> QED BY <3>2, <3>3
  <2>2. CASE j # x
    <3>1. ShowsAt(d, G[j], j)
      BY <2>2 DEF Around
    <3> QED BY <1>1, <3>1, ShowsKids
  <2> QED BY <2>1, <2>2
<1> QED BY <1>2, TreeFrom

LEMMA AroundReads ==
  ASSUME NEW G, Layout(G), NEW x, x \in DOMAIN G => ~G[x].dir, NEW d \in Around(G, x),
         NEW j \in DOMAIN G, j # x, ~G[j].dir
  PROVE  /\ j \in DOMAIN Objects(d) /\ Objects(d)[j].name = G[j].name
         /\ Objects(d)[j].data = SubSeq(G[j].data, 1, G[j].size)
<1>1. DOMAIN d = Blocks /\ ShowsAt(d, G[j], j)
  BY DEF Around, Disks
<1>2. Tree(d) = DOMAIN G
  BY AroundTree
<1>3. AsInode(d[j]) = d[j] /\ d[j].isDirectory = G[j].dir /\ d[j].name = G[j].name
  BY <1>1, ShowsKids
<1>4. HoldsAt(d, G[j], j)
  BY <1>1 DEF ShowsAt, HoldsAt
<1>5. ReadAll(d, d[j]) = SubSeq(G[j].data, 1, G[j].size)
  BY <1>1, <1>4, ReadAllIs
<1> DEFINE o == [dir  |-> AsInode(d[j]).isDirectory, name |-> AsInode(d[j]).name, kids |-> Kids(d, j),
                 data |-> IF AsInode(d[j]).isDirectory THEN <<>> ELSE ReadAll(d, AsInode(d[j]))]
<1>6. j \in DOMAIN Objects(d) /\ Objects(d)[j] = o
  BY <1>2 DEF Objects
<1>7. o.name = G[j].name /\ o.data = SubSeq(G[j].data, 1, G[j].size)
  BY <1>3, <1>5
<1> HIDE DEF o
<1> QED BY <1>6, <1>7

\* The files among the objects are files of the layout G, and none is x; but for y, which the call c is about.
Spares(objects, G, x, y, c) ==
  /\ x \in DOMAIN G => ~G[x].dir
  /\ y \in DOMAIN objects /\ ~objects[y].dir => c \in {"create", "write"}
  /\ \A j \in DOMAIN objects : j # y /\ ~objects[j].dir =>
       /\ j \in DOMAIN G /\ j # x /\ ~G[j].dir
       /\ objects[j].name = G[j].name /\ objects[j].data = SubSeq(G[j].data, 1, G[j].size)

LEMMA AroundSpares ==
  ASSUME NEW G, Layout(G), NEW objects, NEW x, NEW y, NEW c, Spares(objects, G, x, y, c)
  PROVE  Around(G, x) \subseteq Sparing(objects, c)
<1> SUFFICES ASSUME NEW d \in Around(G, x) PROVE d \in Sparing(objects, c)
  OBVIOUS
<1> DEFINE now == Objects(d)
           Same(i) == i \in DOMAIN now /\ now[i].name = objects[i].name /\ now[i].data = objects[i].data
           changed == {i \in DOMAIN objects : ~objects[i].dir /\ ~Same(i)}
<1>1. ASSUME NEW j \in DOMAIN objects, j # y, ~objects[j].dir PROVE Same(j)
  <2>1. /\ j \in DOMAIN G /\ j # x /\ ~G[j].dir /\ (x \in DOMAIN G => ~G[x].dir)
        /\ objects[j].name = G[j].name /\ objects[j].data = SubSeq(G[j].data, 1, G[j].size)
    BY <1>1 DEF Spares
  <2>2. /\ j \in DOMAIN Objects(d) /\ Objects(d)[j].name = G[j].name
        /\ Objects(d)[j].data = SubSeq(G[j].data, 1, G[j].size)
    BY <2>1, AroundReads
  <2> QED BY <2>1, <2>2
<1>2. changed # {} => Cardinality(changed) = 1 /\ c \in {"create", "write"}
  <2> SUFFICES ASSUME changed # {} PROVE Cardinality(changed) = 1 /\ c \in {"create", "write"}
    OBVIOUS
  <2>1. changed = {y} /\ y \in DOMAIN objects /\ ~objects[y].dir
    BY <1>1
  <2>2. Cardinality({y}) = 1
    BY FS_Singleton
  <2> HIDE DEF changed
  <2> QED BY <2>1, <2>2 DEF Spares
<1>3. Spared(d, objects, c)
  BY <1>2 DEF Spared
<1> QED BY <1>3 DEF Sparing, Around

\* What the layout holds itself is spared whatever the call is about.
LEMMA OwnSpares ==
  ASSUME NEW G, Layout(G), NEW c
  PROVE  Around(G, Nobody) \subseteq Sparing(ObjectsOf(G), c) /\ Held(G) \subseteq Sparing(ObjectsOf(G), c)
<1> DEFINE obj == ObjectsOf(G)
<1>1. DOMAIN obj = DOMAIN G /\ \A j \in DOMAIN G : obj[j] = ObjectOf(G[j])
  BY DEF ObjectsOf
<1>2. Nobody \notin DOMAIN G
  BY PlaceOf DEF Nobody
<1> HIDE DEF obj
<1>3. Spares(obj, G, Nobody, Nobody, c)
  BY <1>1, <1>2 DEF Spares, ObjectOf
<1>4. Around(G, Nobody) \subseteq Sparing(obj, c)
  BY <1>3, AroundSpares
<1> QED BY <1>4, HeldAround DEF obj

\* A disk that holds a layout but for the end of one list.
NoEnd(g, f, e) == g \in Disks /\ g[e] = Taken /\ \A m \in Blocks : m # e => g[m] = f[m]

LEMMA TwoWritten ==
  ASSUME NEW d \in Disks, NEW n \in Blocks, NEW e \in Blocks, n # e, NEW b \in Block, NEW c \in Block, d[e] = Taken
  PROVE  NoEnd(Written(d, n, b), Written(Written(d, n, b), e, c), e)
<1> DEFINE g == Written(d, n, b)
<1>1. g \in Disks /\ \A m \in Blocks : m # n => g[m] = d[m]
  BY OneWritten
<1> HIDE DEF g
<1>2. \A m \in Blocks : m # e => Written(g, e, c)[m] = g[m]
  BY <1>1, OneWritten
<1>3. NoEnd(g, Written(g, e, c), e)
  BY <1>1, <1>2 DEF NoEnd
<1> QED BY <1>3 DEF g

LEMMA BeforeEnd ==
  ASSUME NEW G, Layout(G), NEW p \in DOMAIN G, G[p].dir, NEW f, Holds(f, G),
         NEW g, NoEnd(g, f, Last(G[p].blocks))
  PROVE  g \in Around(G, Nobody)
<1> DEFINE b == G[p].blocks
           n == Len(G[p].kids)
           e == Last(b)
<1>0. g \in Disks /\ g[e] = Taken /\ \A m \in Blocks : m # e => g[m] = f[m]
  BY DEF NoEnd
<1> HIDE DEF e
<1>1. b \in Seq(Numbers) /\ n \in Nat /\ Len(b) = n + 1 /\ G[p].kids \in Seq(DOMAIN G)
  BY PlaceOf DEF KindOK
<1>2. e = b[n + 1] /\ n + 1 \in 1 .. Len(b) /\ e \in Blocks
  <2>1. e = b[n + 1] /\ n + 1 \in 1 .. Len(b)
    BY <1>1 DEF Last, e
  <2> QED BY <2>1, BlockAt
<1>3. ASSUME NEW j \in DOMAIN G PROVE j # Nobody /\ ShowsAt(g, G[j], j)
  <2>1. j # 0 /\ j \in Blocks /\ j # e /\ G[j].dir \in BOOLEAN
    <3>1. e \notin DOMAIN G
      BY <1>2, BlockAt
    <3> QED BY <3>1, PlaceOf
  <2>2. HoldsAt(f, G[j], j)
    BY DEF Holds
  <2>3. CASE j # p
    <3>1. ASSUME NEW m \in UsedBy(G[j], j) PROVE g[m] = f[m]
      <4>1. m = j \/ \E k \in 1 .. Len(G[j].blocks) : m = G[j].blocks[k]
        BY DEF UsedBy, BlocksOf
      <4>2. CASE m = j
        BY <1>0, <2>1, <4>2
      <4>3. CASE \E k \in 1 .. Len(G[j].blocks) : m = G[j].blocks[k]
        <5>1. PICK k \in 1 .. Len(G[j].blocks) : m = G[j].blocks[k]
          BY <4>3
        <5>2. m \in Blocks
          BY <5>1, BlockAt
        <5>3. m # e
          BY <1>2, <2>3, <5>1 DEF Layout, BlocksOnce
        <5> QED BY <1>0, <5>2, <5>3
      <4> QED BY <4>1, <4>2, <4>3
    <3>2. HoldsAt(g, G[j], j)
      BY <2>2, <3>1, HoldsAtFrame
    <3> QED BY <2>1, <3>2, HoldsShows DEF Nobody
  <2>4. CASE j = p
    <3>1. g[p] = InodeOf(G[p], p)
      BY <1>0, <2>1, <2>2, <2>4 DEF HoldsAt
    <3>2. ASSUME NEW k \in 1 .. n PROVE g[b[k]] = List(1, b[k], G[p].kids[k], b[k + 1])
      <4>1. k \in 1 .. Len(b) /\ k # n + 1
        BY <1>1
      <4>2. b[k] \in Blocks /\ b[k] # e
        <5>1. b[k] \in Blocks
          BY <4>1, BlockAt
        <5>2. b[k] # b[n + 1]
          BY <1>2, <4>1 DEF Layout, BlocksOnce
        <5> QED BY <1>2, <5>1, <5>2
      <4>3. f[b[k]] = List(1, b[k], G[p].kids[k], b[k + 1])
        BY <2>2, <2>4 DEF HoldsAt, HoldsList
      <4> QED BY <1>0, <4>2, <4>3
    <3>3. ~(g[b[n + 1]].kind = "list" /\ g[b[n + 1]].flag = 1)
      BY <1>0, <1>2 DEF Taken
    <3>4. HoldsKids(g, b, G[p].kids)
      BY <3>2, <3>3 DEF HoldsKids
    <3> QED BY <2>1, <2>4, <3>1, <3>4 DEF ShowsAt, Nobody
  <2> QED BY <2>3, <2>4
<1> QED BY <1>0, <1>3 DEF Around

-----------------------------------------------------------------------------
\* The writes of log lead from d to a disk that holds this tree.
Aim(d, log, tree) ==
  /\ log \in Seq(WriteSet)
  /\ \E f, H : /\ Reaches(d, log, f) /\ Layout(H) /\ Holds(f, H)
              /\ tree.objects = ObjectsOf(H) /\ tree.lost = LostBlocks(f)

\* What a call that returns leaves behind: the writes it still has to make lead to these objects.
After(objects) ==
  /\ goal'.objects = objects /\ Aim(disk, todo', goal')
  /\ UNCHANGED <<disk, host, stop>>

\* A call that returns makes writes that lead to the tree of the disk it has in mind.
LEMMA ReturnLeads ==
  ASSUME NEW c, NEW ret, NEW out, NEW r, Return(c, ret, out, r), RunOK(disk, r),
         goal.objects = Objects(disk), goal.lost = LostBlocks(disk), NEW H, Layout(H), Holds(r.disk, H)
  PROVE  After(ObjectsOf(H)) /\ call' = Result(c, ret, out) /\ goal'.lost = LostBlocks(r.disk)
<1>1. /\ call' = Result(c, ret, out) /\ todo' = r.log /\ UNCHANGED <<disk, host, stop>>
      /\ goal' = IF r.log = <<>> THEN goal ELSE Goal(r.disk)
  BY DEF Return
<1>2. Objects(r.disk) = ObjectsOf(H)
  BY ObjectsIs
<1>3. goal'.objects = ObjectsOf(H) /\ goal'.lost = LostBlocks(r.disk)
  <2>1. CASE r.log = <<>>
    <3>1. r.disk = disk
      BY <2>1, EmptyReaches DEF RunOK
    <3> QED BY <1>1, <1>2, <2>1, <3>1
  <2>2. CASE r.log # <<>>
    BY <1>1, <1>2, <2>2 DEF Goal
  <2> QED BY <2>1, <2>2
<1>4. Aim(disk, todo', goal')
  BY <1>1, <1>3 DEF Aim, RunOK
<1> QED BY <1>1, <1>3, <1>4 DEF After

\* A call that finds the disk d with the layout G and nothing in progress.
Ready(G) ==
  /\ host = FALSE /\ Layout(G) /\ Holds(disk, G)
  /\ goal.objects = ObjectsOf(G) /\ goal.lost = LostBlocks(disk)

\* No block but these is lost that was not lost before.
Loses(X) == goal'.lost \subseteq goal.lost \cup X

\* Wherever a crash interrupts the writes of the call c, the files that it is not about are spared.
Careful(c) == todo' # <<>> => \E f : Leads(disk, todo', f, Sparing(goal'.objects, c))

LEMMA ReturnSpares ==
  ASSUME NEW c, NEW ret, NEW out, NEW r, Return(c, ret, out, r), RunIn(disk, r, Sparing(goal'.objects, c))
  PROVE  Careful(c)
<1>1. todo' = r.log
  BY DEF Return
<1>2. Leads(disk, r.log, r.disk, Sparing(goal'.objects, c))
  BY DEF RunIn
<1> QED BY <1>1, <1>2 DEF Careful

\* A call that changes nothing.
LEMMA ReturnAtOnce ==
  ASSUME NEW G, Ready(G), NEW c, NEW ret, NEW out, Return(c, ret, out, Begin)
  PROVE  After(goal.objects) /\ call' = Result(c, ret, out) /\ Loses({}) /\ Careful(c)
<1>1. disk \in Disks /\ Layout(G) /\ Holds(disk, G) /\ goal.objects = ObjectsOf(G) /\ goal.lost = LostBlocks(disk)
  BY DEF Ready, Holds
<1>2. RunOK(disk, Begin) /\ Begin.disk = disk
  BY <1>1, BeginOK
<1>3. goal.objects = Objects(disk) /\ Holds(Begin.disk, G)
  BY <1>1, <1>2, ObjectsIs
<1>4. After(ObjectsOf(G)) /\ call' = Result(c, ret, out) /\ goal'.lost = LostBlocks(Begin.disk)
  BY <1>1, <1>2, <1>3, ReturnLeads
<1>5. Careful(c)
  BY DEF Return, Begin, Careful
<1> QED BY <1>1, <1>2, <1>4, <1>5 DEF Loses

\* The blocks that are taken, and those that the layout G accounts for.
Flagged(d) == {n \in DOMAIN d : d[n].flag # 0}
Owned(G) == UNION {{0, i} \cup BlocksOf(G[i]) : i \in DOMAIN G}

\* What is lost on a disk with a layout.
LEMMA LostIs ==
  ASSUME NEW d, NEW G, Layout(G), Holds(d, G)
  PROVE  LostBlocks(d) = Flagged(d) \ Owned(G)
<1>1. DOMAIN d = Blocks /\ Tree(d) = DOMAIN G
  BY TreeIs DEF Holds, Disks
<1>2. ASSUME NEW i \in DOMAIN G PROVE ToSet(Chain(d, i)) = BlocksOf(G[i])
  <2>1. Chain(d, i) = G[i].blocks
    BY <1>1, ChainIs DEF Holds
  <2>2. G[i].blocks \in Seq(Numbers)
    BY PlaceOf
  <2> QED BY <2>1, <2>2 DEF ToSet, BlocksOf
<1>3. UNION {{0, i} \cup ToSet(Chain(d, i)) : i \in Tree(d)} = Owned(G)
  BY <1>1, <1>2 DEF Owned
<1> QED BY <1>3 DEF LostBlocks, Flagged

\* A disk f with the layout H: only blocks of X are taken that the layout does not account for and that were
\* free before, or part of the tree.
Spills(f, G, H, X) ==
  \A n \in Flagged(f) : n \in X \/ n \in Owned(H) \/ (n \in Flagged(disk) /\ n \notin Owned(G))

\* Those are the only ones that are lost.
LEMMA SpillsLose ==
  ASSUME NEW G, Ready(G), NEW H, Layout(H), NEW f, Holds(f, H), goal'.lost = LostBlocks(f),
         NEW X, Spills(f, G, H, X)
  PROVE  Loses(X)
<1>1. goal'.lost = Flagged(f) \ Owned(H)
  BY LostIs
<1>2. goal.lost = Flagged(disk) \ Owned(G)
  BY LostIs DEF Ready
<1> QED BY <1>1, <1>2 DEF Loses, Spills

\* A second block for a call, after the first: they are different, and the tree is as it was.
LEMMA TakeOne ==
  ASSUME host = FALSE, NEW d, NEW r, RunOK(d, r), NEW G, Layout(G), Holds(r.disk, G)
  PROVE  /\ RunOK(d, Dalloc(r)) /\ Holds(Dalloc(r).disk, G)
         /\ FirstFree(r) = MAX_BLOCK \/ FirstFree(r) \in Numbers
         /\ FirstFree(r) # MAX_BLOCK =>
              /\ r.disk[FirstFree(r)].flag = 0 /\ FirstFree(r) \in Numbers
              /\ FirstFree(r) \in Blocks /\ FirstFree(r) \in Nat
              /\ Dalloc(r).disk[FirstFree(r)] = Taken
              /\ \A m \in Blocks : m # FirstFree(r) => Dalloc(r).disk[m] = r.disk[m]
<1>1. CASE FirstFree(r) = MAX_BLOCK
  <2>1. Dalloc(r) = r
    BY <1>1, DallocIs
  <2> QED BY <1>1, <2>1
<1>2. CASE FirstFree(r) \in Numbers
  <2> DEFINE n == FirstFree(r)
  <2>1. n # MAX_BLOCK /\ n \in Blocks /\ r.disk[n].flag = 0 /\ n \in Numbers
        /\ RunOK(d, Dalloc(r)) /\ Dalloc(r).disk = Written(r.disk, n, Taken)
    BY <1>2, DallocIs
  <2>2. n \in Nat
    BY <1>2 DEF Numbers
  <2> HIDE DEF n
  <2>3. r.disk \in Disks /\ Taken \in Block
    BY FlagIsBlock DEF RunOK
  <2>4. Holds(Written(r.disk, n, Taken), G)
    BY <2>1, <2>3, HoldsFree
  <2>5. Written(r.disk, n, Taken)[n] = Taken /\ \A m \in Blocks : m # n => Written(r.disk, n, Taken)[m] = r.disk[m]
    BY <2>1, <2>3, OneWritten
  <2> QED BY <2>1, <2>2, <2>4, <2>5 DEF n
<1> QED BY <1>1, <1>2, DallocIs

\* On the way the tree is held.
LEMMA TakeHeld ==
  ASSUME host = FALSE, NEW G, Layout(G), NEW d, NEW r, RunIn(d, r, Held(G))
  PROVE  RunIn(d, Dalloc(r), Held(G))
<1>1. Holds(r.disk, G) /\ r.disk \in Disks /\ RunOK(d, r)
  BY RunHere DEF Held
<1>2. CASE FirstFree(r) = MAX_BLOCK
  BY <1>1, <1>2, DallocIs
<1>3. CASE FirstFree(r) \in Numbers
  <2> DEFINE n == FirstFree(r)
             u == Taken
  <2>1. n \in Blocks /\ r.disk[n].flag = 0 /\ Dalloc(r) = Put(r, n, u)
    BY <1>1, <1>3, DallocIs
  <2>2. u \in Block
    BY FlagIsBlock
  <2> HIDE DEF n, u
  <2>3. Holds(Written(r.disk, n, u), G) /\ Written(r.disk, n, u) \in Disks
    BY <1>1, <2>1, <2>2, HoldsFree, OneWritten
  <2>4. RunIn(d, Put(r, n, u), Held(G))
    <3>1. Written(r.disk, n, u) \in Held(G)
      BY <2>3 DEF Held
    <3>2. PutGoes(d, r, n, u, Held(G))
      BY <2>1, <2>2, <3>1, PutIn
    <3> QED BY <3>2 DEF PutGoes
  <2> QED BY <2>1, <2>4
<1> QED BY <1>1, <1>2, <1>3, DallocIs

\* Before the entry is linked to, a crash leaves the tree without it: every file but the new one is there.
LEMMA EntrySpares ==
  ASSUME NEW G, Layout(G), NEW p, NEW a, NEW s, NEW e, NEW isDir, NEW name, NEW H,
         IsEntry(H, G, p, a, s, e, isDir, name), p \in DOMAIN G, G[p].dir, NEW c, ~isDir => c = "create"
  PROVE  Held(G) \subseteq Sparing(ObjectsOf(H), c)
<1> DEFINE obj == ObjectsOf(H)
<1>1. DOMAIN obj = DOMAIN H /\ \A j \in DOMAIN H : obj[j] = ObjectOf(H[j])
  BY DEF ObjectsOf
<1>2. /\ DOMAIN H = DOMAIN G \cup {a} /\ H[a].dir = isDir
      /\ \A j \in DOMAIN G : j # p => H[j] = G[j]
      /\ H[p].dir
  BY DEF IsEntry, Newcomer, Longer
<1>3. Nobody \notin DOMAIN G
  BY PlaceOf DEF Nobody
<1> HIDE DEF obj
<1>4. ASSUME NEW j \in DOMAIN obj, j # a, ~obj[j].dir
      PROVE  /\ j \in DOMAIN G /\ j # Nobody /\ ~G[j].dir
             /\ obj[j].name = G[j].name /\ obj[j].data = SubSeq(G[j].data, 1, G[j].size)
  <2>1. j \in DOMAIN G /\ obj[j] = ObjectOf(H[j])
    BY <1>1, <1>2, <1>4
  <2>2. obj[j].dir = H[j].dir /\ obj[j].name = H[j].name /\ obj[j].data = SubSeq(H[j].data, 1, H[j].size)
    <3> DEFINE x == SubSeq(H[j].data, 1, H[j].size)
    <3>1. obj[j] = [dir |-> H[j].dir, name |-> H[j].name, kids |-> H[j].kids, data |-> x]
      BY <2>1 DEF ObjectOf
    <3> HIDE DEF x
    <3>2. obj[j].dir = H[j].dir /\ obj[j].name = H[j].name /\ obj[j].data = x
      BY <3>1
    <3> QED BY <3>2 DEF x
  <2>3. j # p /\ H[j] = G[j]
    BY <1>2, <1>4, <2>1, <2>2
  <2> QED BY <1>3, <1>4, <2>1, <2>2, <2>3
<1>5. a \in DOMAIN obj /\ ~obj[a].dir => c \in {"create", "write"}
  <2>1. a \in DOMAIN H /\ obj[a].dir = isDir
    <3> DEFINE x == SubSeq(H[a].data, 1, H[a].size)
    <3>1. a \in DOMAIN H /\ obj[a] = [dir |-> H[a].dir, name |-> H[a].name, kids |-> H[a].kids, data |-> x]
      BY <1>1, <1>2 DEF ObjectOf
    <3> HIDE DEF x
    <3> QED BY <1>2, <3>1
  <2> QED BY <2>1
<1>6. Spares(obj, G, Nobody, a, c)
  BY <1>3, <1>4, <1>5 DEF Spares
<1>7. Around(G, Nobody) \subseteq Sparing(obj, c)
  BY <1>6, AroundSpares
<1> QED BY <1>7, HeldAround DEF obj

\* A new entry costs no block but its own.
LEMMA EntrySpills ==
  ASSUME NEW G, NEW p, NEW a, NEW s, NEW e, NEW isDir, NEW name, NEW H, Layout(G), Layout(H),
         Spare(G, p, a, s, e), IsEntry(H, G, p, a, s, e, isDir, name),
         NEW f, EntryWritten(f, disk, G, p, a, s, e, isDir, name), DOMAIN disk = Blocks
  PROVE  Spills(f, G, H, {})
<1> DEFINE last == Last(G[p].blocks)
<1>1. /\ p \in DOMAIN G /\ a \in DOMAIN H /\ p \in DOMAIN H /\ DOMAIN G \subseteq DOMAIN H
      /\ H[a].blocks = <<s>> /\ H[p].blocks = Append(G[p].blocks, e)
      /\ \A j \in DOMAIN G : j # p => H[j] = G[j]
  BY DEF Spare, IsEntry, Newcomer, Longer
<1>2. G[p].blocks \in Seq(Numbers) /\ Len(G[p].blocks) \in Nat /\ Len(G[p].blocks) >= 1
  BY <1>1, PlaceOf
<1>3. s \in BlocksOf(H[a])
  BY <1>1 DEF BlocksOf
<1>4. e \in BlocksOf(H[p]) /\ BlocksOf(G[p]) \subseteq BlocksOf(H[p]) /\ last \in BlocksOf(G[p])
  <2> DEFINE b == G[p].blocks
             n == Len(b)
             b2 == H[p].blocks
  <2>1. e \in Numbers
    BY DEF Spare
  <2>2. Len(b2) = n + 1 /\ b2[n + 1] = e /\ \A k \in 1 .. n : b2[k] = b[k]
    BY <1>1, <1>2, <2>1
  <2>3. n + 1 \in 1 .. n + 1 /\ n \in 1 .. n /\ \A k \in 1 .. n : k \in 1 .. n + 1
    BY <1>2
  <2> HIDE DEF b, n, b2
  <2>4. e \in BlocksOf(H[p])
    BY <2>2, <2>3 DEF BlocksOf, b2
  <2>5. BlocksOf(G[p]) \subseteq BlocksOf(H[p])
    <3>1. \A k \in 1 .. n : b[k] \in {b2[l] : l \in 1 .. n + 1}
      BY <2>2, <2>3
    <3> QED BY <2>2, <3>1 DEF BlocksOf, b, n, b2
  <2>6. last \in BlocksOf(G[p])
    BY <2>3 DEF Last, BlocksOf, b, n
  <2> QED BY <2>4, <2>5, <2>6
<1>5. Owned(G) \subseteq Owned(H)
  <2> SUFFICES ASSUME NEW i \in DOMAIN G, NEW n \in {0, i} \cup BlocksOf(G[i]) PROVE n \in Owned(H)
    BY DEF Owned
  <2>1. i \in DOMAIN H /\ BlocksOf(G[i]) \subseteq BlocksOf(H[i])
    BY <1>1, <1>4
  <2> QED BY <2>1 DEF Owned
<1>6. {a, s, e, last} \subseteq Owned(H)
  BY <1>1, <1>3, <1>4 DEF Owned
<1>7. DOMAIN f = Blocks /\ \A m \in Blocks : m \notin {a, s, e, last} => f[m] = disk[m]
  BY DEF EntryWritten, Disks
<1> QED BY <1>5, <1>6, <1>7 DEF Spills, Flagged

\* A new entry: -3 and nothing has changed, but one block may be lost, or 0 and the new object is there.
LEMMA NewEntryDoes ==
  ASSUME "full" \notin Stress, NEW G, Ready(G), NEW p \in DOMAIN G, G[p].dir, G[p].level + 1 \in 0 .. Depth,
         NEW isDir \in BOOLEAN, NEW name \in Names, NEW c, ~isDir => c = "create",
         NEW broken, NewEntry(c, disk[p], name, isDir, broken)
  PROVE  \/ call' = Result(c, -3, <<>>) /\ After(goal.objects) /\ (\E x : Loses({x})) /\ Careful(c)
         \/ /\ call' = Result(c, 0, <<>>) /\ Loses({}) /\ Careful(c)
            /\ \E id \in Blocks : id \notin DOMAIN goal.objects
                                  /\ After(WithObject(goal.objects, p, id, isDir, name))
<1> DEFINE dir == disk[p]
           r1 == Dalloc(Begin)
           a == FirstFree(Begin)
           s == FirstFree(r1)
           r2 == Dalloc(r1)
           bs == IF isDir THEN List(2, s, 0, 0) ELSE Data(Blank, s, 0, 0)
           ba == Inode(isDir, name, dir.addr, s, a)
           r3 == Put(r2, a, ba)
           r4 == Put(r3, s, bs)
           last == r4.disk[Last(Walk(r4.disk, dir.start))]
           e == FirstFree(r4)
           r4a == Dalloc(r4)
           r5 == Put(r4a, last.addr, List(1, last.addr, a, e))
           r6 == Put(r5, e, List(2, e, 0, 0))
           b == G[p].blocks
           L == Last(b)
<1>0. host = FALSE /\ Layout(G) /\ Holds(disk, G) /\ goal.objects = ObjectsOf(G) /\ disk \in Disks
      /\ goal.objects = Objects(disk)
  BY ObjectsIs DEF Ready, Holds
<1>8. goal.lost = LostBlocks(disk) /\ DOMAIN disk = Blocks
  BY DEF Ready, Holds, Disks
<1>2. dir.addr = p /\ dir.start = b[1] /\ p \in Blocks /\ p \in Nat
  BY <1>0, InodeIs, PlaceOf DEF Holds
<1>1. \/ s = MAX_BLOCK /\ Return(c, -3, <<>>, r2)
      \/ /\ s # MAX_BLOCK
         /\ last.addr # MAX_BLOCK => e # MAX_BLOCK /\ Return(c, 0, <<>>, r6)
  <2>1. ~Bare(dir)
    <3>1. b[1] \in Numbers
      BY <1>0, PlaceOf
    <3>2. b[1] \in Blocks
      BY <3>1, MaxBlockAssumption DEF Numbers, Blocks
    <3> QED BY <1>2, <1>8, <3>2 DEF Bare
  <2>2. Tails(r4.disk, dir) = {last.addr}
    BY <2>1 DEF Tails
  <2> HIDE DEF last
  <2> QED BY <1>0, <2>1, <2>2 DEF NewEntry
<1>3. RunOK(disk, Begin) /\ Begin.disk = disk
  BY <1>0, BeginOK
<1>4. /\ RunOK(disk, r1) /\ Holds(r1.disk, G)
      /\ a # MAX_BLOCK => /\ disk[a].flag = 0 /\ a \in Numbers /\ a \in Blocks /\ a \in Nat
                          /\ r1.disk[a] = Taken /\ \A m \in Blocks : m # a => r1.disk[m] = disk[m]
  BY <1>0, <1>3, TakeOne
<1>5. /\ RunOK(disk, r2) /\ Holds(r2.disk, G)
      /\ s # MAX_BLOCK => /\ r1.disk[s].flag = 0 /\ s \in Numbers /\ s \in Blocks /\ s \in Nat
                          /\ r2.disk[s] = Taken /\ \A m \in Blocks : m # s => r2.disk[m] = r1.disk[m]
  BY <1>0, <1>4, TakeOne
<1>9. RunIn(disk, r1, Held(G)) /\ RunIn(disk, r2, Held(G))
  <2>1. RunIn(disk, Begin, Held(G))
    BY <1>0, BeginIn DEF Held
  <2>2. RunIn(disk, r1, Held(G))
    BY <1>0, <2>1, TakeHeld
  <2> HIDE DEF r1
  <2>3. RunIn(disk, r2, Held(G))
    BY <1>0, <2>2, TakeHeld
  <2> QED BY <2>2, <2>3
<1>6. CASE s = MAX_BLOCK /\ Return(c, -3, <<>>, r2)
  <2>2. r2 = r1
    BY <1>0, <1>4, <1>6, DallocIs
  <2>3. \A m \in Blocks : m # a => r1.disk[m] = disk[m]
    <3>1. a = MAX_BLOCK => r1 = Begin
      BY <1>0, <1>3, DallocIs
    <3> QED BY <1>3, <1>4, <3>1
  <2> HIDE DEF r1, r2, a
  <2>1. After(ObjectsOf(G)) /\ call' = Result(c, -3, <<>>) /\ goal'.lost = LostBlocks(r2.disk)
    BY <1>0, <1>5, <1>6, <1>8, ReturnLeads
  <2>4. DOMAIN r2.disk = Blocks
    BY <1>5 DEF RunOK, Disks
  <2>5. Spills(r2.disk, G, G, {a})
    BY <1>8, <2>2, <2>3, <2>4 DEF Spills, Flagged
  <2>6. Loses({a})
    BY <1>0, <1>5, <2>1, <2>5, SpillsLose
  <2>7. Careful(c)
    <3>1. goal'.objects = ObjectsOf(G)
      BY <2>1 DEF After
    <3>2. Held(G) \subseteq Sparing(goal'.objects, c) /\ Sparing(goal'.objects, c) \subseteq Disks
      BY <1>0, <3>1, OwnSpares DEF Sparing
    <3>3. RunIn(disk, r2, Sparing(goal'.objects, c))
      BY <1>9, <3>2, RunMore
    <3> QED BY <1>6, <3>3, ReturnSpares
  <2> QED BY <1>0, <2>1, <2>6, <2>7
<1>7. CASE /\ s # MAX_BLOCK
           /\ last.addr # MAX_BLOCK => e # MAX_BLOCK /\ Return(c, 0, <<>>, r6)
  <2>1. a # MAX_BLOCK
    <3> SUFFICES ASSUME a = MAX_BLOCK PROVE FALSE
      OBVIOUS
    <3>1. r1 = Begin
      BY <1>0, <1>3, DallocIs
    <3> QED BY <1>7, <3>1
  <2>2. a # s /\ disk[s].flag = 0
    BY <1>4, <1>5, <1>7, <2>1 DEF Taken
  <2>3. ba \in Block /\ bs \in Block
    <3>1. ba \in Block
      BY <1>2, <1>4, <1>5, <1>7, <2>1, InodeIsBlock
    <3>2. List(2, s, 0, 0) \in Block /\ Data(Blank, s, 0, 0) \in Block
      <4>1. s \in Nat /\ 0 \in Nat /\ 2 \in 1 .. 2 /\ Blank \in Chunks \cup {Blank}
        BY <1>5, <1>7
      <4> HIDE DEF s
      <4> QED BY <4>1, ListIsBlock, DataIsBlock
    <3> QED BY <3>1, <3>2
  <2>4. ba = Inode(isDir, name, p, s, a)
    BY <1>2
  <2> HIDE DEF r1, r2, a, s, ba, bs, r3, r4, r4a, r5, r6, e, last
  <2>5. RunOK(disk, r3) /\ r3.disk = Written(r2.disk, a, ba)
    BY <1>0, <1>4, <1>5, <2>1, <2>3, PutIs DEF r3
  <2>6. RunOK(disk, r4) /\ r4.disk = Written(r3.disk, s, bs)
    <3>1. s \in Blocks /\ bs \in Block /\ r4 = Put(r3, s, bs)
      BY <1>5, <1>7, <2>3 DEF r4
    <3> QED BY <1>0, <2>5, <3>1, PutIs
  <2>7. r2.disk \in Disks /\ r3.disk \in Disks /\ r4.disk \in Disks
    BY <1>5, <2>5, <2>6 DEF RunOK
  <2>8. r4.disk[a] = ba /\ r4.disk[s] = bs /\ \A m \in Blocks : m # a /\ m # s => r4.disk[m] = disk[m]
    <3>1. r3.disk[a] = ba /\ \A m \in Blocks : m # a => r3.disk[m] = r2.disk[m]
      <4>1. a \in Blocks /\ ba \in Block /\ r2.disk \in Disks /\ r3.disk = Written(r2.disk, a, ba)
        BY <1>4, <2>1, <2>3, <2>5, <2>7
      <4> QED BY <4>1, OneWritten
    <3>2. r4.disk[s] = bs /\ \A m \in Blocks : m # s => r4.disk[m] = r3.disk[m]
      <4>1. s \in Blocks /\ bs \in Block /\ r3.disk \in Disks /\ r4.disk = Written(r3.disk, s, bs)
        BY <1>5, <1>7, <2>3, <2>6, <2>7
      <4> QED BY <4>1, OneWritten
    <3> QED BY <1>4, <1>5, <1>7, <2>1, <2>2, <3>1, <3>2
  <2>9. ASSUME NEW n, n = a \/ n = s
        PROVE  n # 0 /\ n \notin DOMAIN G /\ \A i \in DOMAIN G : \A k \in 1 .. Len(G[i].blocks) : G[i].blocks[k] # n
    <3>1. disk[n].flag = 0
      BY <1>4, <2>1, <2>2, <2>9
    <3>2. n # 0 /\ n \notin DOMAIN G /\ \A i \in DOMAIN G : n \notin UsedBy(G[i], i)
      BY <1>0, <3>1, FreeIsFresh
    <3> QED BY <1>0, <3>2, UsedIs
  <2>10. Holds(r4.disk, G)
    <3> DEFINE X == {a, s}
    <3>1. 0 \notin X /\ \A i \in DOMAIN G : i \notin X /\ \A k \in 1 .. Len(G[i].blocks) : G[i].blocks[k] \notin X
      BY <2>9
    <3>2. \A m \in Blocks : m \notin X => r4.disk[m] = disk[m]
      BY <2>8
    <3> HIDE DEF X
    <3> QED BY <1>0, <2>7, <3>1, <3>2, HoldsBut
  <2>11. Walk(r4.disk, dir.start) = b /\ r4.disk[L] = List(2, L, 0, 0) /\ L \in Blocks /\ L \in Nat
    <3>1. DOMAIN r4.disk = Blocks /\ HoldsAt(r4.disk, G[p], p)
      BY <2>7, <2>10 DEF Holds, Disks
    <3>2. Walk(r4.disk, b[1]) = b /\ r4.disk[L] = List(2, L, 0, 0)
      BY <1>0, <3>1, WalkIs, WalkEnds
    <3>3. Len(b) \in 1 .. Len(b)
      BY <1>0, PlaceOf
    <3>4. L \in Blocks /\ L \in Nat
      BY <1>0, <3>3, BlockAt DEF Last
    <3> QED BY <1>2, <3>2, <3>4
  <2>12. last.addr = L
    BY <2>11 DEF last, List
  <2>31. e # MAX_BLOCK /\ Return(c, 0, <<>>, r6)
    <3>1. last.addr # MAX_BLOCK
      BY <2>11, <2>12, MaxBlockAssumption DEF Blocks
    <3> QED BY <1>7, <3>1
  <2>13. /\ RunOK(disk, r4a) /\ Holds(r4a.disk, G)
         /\ r4.disk[e].flag = 0 /\ e \in Numbers /\ e \in Blocks /\ e \in Nat
         /\ r4a.disk[e] = Taken /\ \A m \in Blocks : m # e => r4a.disk[m] = r4.disk[m]
    BY <1>0, <1>7, <2>31, <2>6, <2>10, TakeOne DEF e, r4a
  <2>14. r4.disk[a].flag = 1 /\ r4.disk[s].flag # 0
    BY <2>4, <2>8 DEF Inode, List, Data, bs
  <2>15. e # a /\ e # s /\ e # L
    <3>1. r4.disk[L].flag = 2
      BY <2>11 DEF List
    <3> QED BY <2>13, <2>14, <3>1
  <2>16. e # 0 /\ e \notin DOMAIN G /\ \A i \in DOMAIN G : \A k \in 1 .. Len(G[i].blocks) : G[i].blocks[k] # e
    <3>2. e # 0 /\ e \notin DOMAIN G /\ \A i \in DOMAIN G : e \notin UsedBy(G[i], i)
      BY <1>0, <2>10, <2>13, FreeIsFresh
    <3> QED BY <1>0, <3>2, UsedIs
  <2>17. RunOK(disk, r5) /\ r5.disk = Written(r4a.disk, L, List(1, L, a, e))
    <3>1. List(1, L, a, e) \in Block
      BY <1>4, <2>1, <2>11, <2>13, ListIsBlock
    <3>2. r5 = Put(r4a, L, List(1, L, a, e))
      BY <2>12 DEF r5
    <3> DEFINE x == List(1, L, a, e)
    <3>3. x \in Block /\ r5 = Put(r4a, L, x)
      BY <3>1, <3>2
    <3> HIDE DEF x, L
    <3>4. RunOK(disk, r5) /\ r5.disk = Written(r4a.disk, L, x)
      <4>1. L \in Blocks /\ RunOK(disk, r4a)
        BY <2>11, <2>13
      <4> QED BY <1>0, <3>3, <4>1, PutIs
    <3> QED BY <3>4 DEF x
  <2>18. RunOK(disk, r6) /\ r6.disk = Written(r5.disk, e, List(2, e, 0, 0))
    <3>1. List(2, e, 0, 0) \in Block
      BY <2>13, ListIsBlock
    <3> DEFINE x == List(2, e, 0, 0)
    <3>3. x \in Block /\ r6 = Put(r5, e, x)
      BY <3>1 DEF r6
    <3> HIDE DEF x
    <3>4. RunOK(disk, r6) /\ r6.disk = Written(r5.disk, e, x)
      <4>1. e \in Blocks /\ RunOK(disk, r5)
        BY <2>13, <2>17
      <4> QED BY <1>0, <3>3, <4>1, PutIs
    <3> QED BY <3>4 DEF x
  <2>19. EntryWritten(r6.disk, disk, G, p, a, s, e, isDir, name)
    <3>1. r4a.disk \in Disks /\ r5.disk \in Disks /\ r6.disk \in Disks
      BY <2>13, <2>17, <2>18 DEF RunOK
    <3>2. List(1, L, a, e) \in Block /\ List(2, e, 0, 0) \in Block
      BY <1>4, <2>1, <2>11, <2>13, ListIsBlock
    <3>3. r5.disk[L] = List(1, L, a, e) /\ \A m \in Blocks : m # L => r5.disk[m] = r4a.disk[m]
      <4> DEFINE x == List(1, L, a, e)
      <4>1. L \in Blocks /\ x \in Block /\ r4a.disk \in Disks /\ r5.disk = Written(r4a.disk, L, x)
        BY <2>11, <2>17, <3>1, <3>2
      <4> HIDE DEF x, r4a, r5, L
      <4>2. r5.disk[L] = x /\ \A m \in Blocks : m # L => r5.disk[m] = r4a.disk[m]
        BY <4>1, OneWritten
      <4> QED BY <4>2 DEF x
    <3>4. r6.disk[e] = List(2, e, 0, 0) /\ \A m \in Blocks : m # e => r6.disk[m] = r5.disk[m]
      <4> DEFINE x == List(2, e, 0, 0)
      <4>1. x \in Block
        BY <3>2
      <4>2. e \in Blocks
        BY <2>13
      <4>3. r6.disk = Written(r5.disk, e, x)
        BY <2>18
      <4>4. r5.disk \in Disks
        BY <3>1
      <4> HIDE DEF x, r5, r6, e
      <4>5. r6.disk[e] = x /\ \A m \in Blocks : m # e => r6.disk[m] = r5.disk[m]
        BY <4>1, <4>2, <4>3, <4>4, OneWritten
      <4> QED BY <4>5 DEF x
    <3>5. L # a /\ L # s
      <4>1. Len(b) \in 1 .. Len(b)
        BY <1>0, PlaceOf
      <4> QED BY <2>9, <4>1 DEF Last
    <3>6. r6.disk[a] = ba /\ r6.disk[s] = bs /\ r6.disk[L] = List(1, L, a, e)
      BY <1>4, <1>5, <1>7, <2>31, <2>1, <2>8, <2>11, <2>13, <2>15, <3>3, <3>4, <3>5
    <3>7. \A m \in Blocks : m \notin {a, s, e, L} => r6.disk[m] = disk[m]
      BY <2>8, <2>13, <3>3, <3>4
    <3> QED BY <2>4, <3>1, <3>4, <3>6, <3>7 DEF EntryWritten, bs
  <2>20. Spare(G, p, a, s, e)
    <3>1. a \in Numbers /\ s \in Numbers /\ e \in Numbers /\ a # s /\ a # e /\ s # e
      BY <1>4, <1>5, <1>7, <2>31, <2>1, <2>2, <2>13, <2>15
    <3>2. a \notin DOMAIN G /\ s \notin DOMAIN G /\ e \notin DOMAIN G
      BY <2>9, <2>16
    <3>3. \A i \in DOMAIN G : \A k \in 1 .. Len(G[i].blocks) : G[i].blocks[k] \notin {a, s, e}
      BY <2>9, <2>16
    <3> QED BY <3>1, <3>2, <3>3 DEF Spare
  <2> DEFINE H == WithEntry(G, p, a, s, e, isDir, name)
  <2>21. IsEntry(H, G, p, a, s, e, isDir, name)
    BY <1>0, <2>20, EntryFacts
  <2> HIDE DEF H
  <2>22. Layout(H) /\ Holds(r6.disk, H)
    BY <1>0, <2>19, <2>20, <2>21, EntryLayout, EntryHolds
  <2>23. ObjectsOf(H) = WithObject(goal.objects, p, a, isDir, name)
    <3>1. Layout(G) /\ Spare(G, p, a, s, e) /\ IsEntry(H, G, p, a, s, e, isDir, name)
      BY <1>0, <2>20, <2>21
    <3>2. ObjectsOf(H) = WithObject(ObjectsOf(G), p, a, isDir, name)
      BY <3>1, EntryObjects
    <3> QED BY <1>0, <3>2
  <2>24. After(ObjectsOf(H)) /\ call' = Result(c, 0, <<>>) /\ goal'.lost = LostBlocks(r6.disk)
    BY <1>0, <1>7, <2>31, <1>8, <2>18, <2>22, ReturnLeads
  <2>26. Loses({})
    <3>1. Spills(r6.disk, G, H, {})
      BY <1>0, <1>8, <2>19, <2>20, <2>21, <2>22, EntrySpills
    <3> QED BY <2>22, <2>24, <3>1, SpillsLose
  <2>25. a \in Blocks /\ a \notin DOMAIN goal.objects
    BY <1>0, <1>4, <2>1, <2>9 DEF ObjectsOf
  <2>27. RunIn(disk, r4a, Held(G))
    <3>1. r3.disk \in Held(G)
      <4> DEFINE X == {a}
      <4>1. 0 \notin X /\ \A i \in DOMAIN G : i \notin X /\ \A k \in 1 .. Len(G[i].blocks) : G[i].blocks[k] \notin X
        BY <2>9
      <4>2. \A m \in Blocks : m \notin X => r3.disk[m] = r2.disk[m]
        <5>1. a \in Blocks /\ ba \in Block /\ r2.disk \in Disks /\ r3.disk = Written(r2.disk, a, ba)
          BY <1>4, <2>1, <2>3, <2>5, <2>7
        <5> QED BY <5>1, OneWritten
      <4> HIDE DEF X
      <4>3. Holds(r3.disk, G)
        BY <1>0, <1>5, <2>7, <4>1, <4>2, HoldsBut
      <4> QED BY <2>7, <4>3 DEF Held
    <3>2. RunIn(disk, r3, Held(G))
      <4>1. a \in Blocks /\ ba \in Block /\ r3 = Put(r2, a, ba) /\ Written(r2.disk, a, ba) \in Held(G)
        BY <1>4, <2>1, <2>3, <2>5, <3>1 DEF r3
      <4>2. PutGoes(disk, r2, a, ba, Held(G))
        BY <1>0, <1>9, <4>1, PutIn
      <4> QED BY <4>1, <4>2 DEF PutGoes
    <3>3. RunIn(disk, r4, Held(G))
      <4>1. s \in Blocks /\ bs \in Block /\ r4 = Put(r3, s, bs) /\ Written(r3.disk, s, bs) \in Held(G)
        BY <1>5, <1>7, <2>31, <2>3, <2>6, <2>7, <2>10 DEF r4, Held
      <4>2. PutGoes(disk, r3, s, bs, Held(G))
        BY <1>0, <3>2, <4>1, PutIn
      <4> QED BY <4>1, <4>2 DEF PutGoes
    <3> QED BY <1>0, <3>3, TakeHeld DEF r4a
  <2>28. NoEnd(r5.disk, r6.disk, e)
    <3>1. r4a.disk \in Disks /\ L # e /\ r4a.disk[e] = Taken
      BY <2>13, <2>15 DEF RunOK
    <3> DEFINE x == List(1, L, a, e)
               z == List(2, e, 0, 0)
               d4 == r4a.disk
    <3>2. x \in Block /\ z \in Block
      BY <1>4, <2>1, <2>11, <2>13, ListIsBlock
    <3>3. L \in Blocks /\ e \in Blocks /\ r5.disk = Written(d4, L, x) /\ r6.disk = Written(r5.disk, e, z)
      BY <2>11, <2>13, <2>17, <2>18
    <3>4. d4 \in Disks /\ L # e /\ d4[e] = Taken
      BY <3>1
    <3> HIDE DEF x, z, d4, L
    <3>5. NoEnd(Written(d4, L, x), Written(Written(d4, L, x), e, z), e)
      BY <3>2, <3>3, <3>4, TwoWritten
    <3> QED BY <3>3, <3>5
  <2>29. r5.disk \in Around(H, Nobody)
    <3>1. p \in DOMAIN H /\ H[p].dir /\ H[p].blocks = Append(b, e)
      BY <2>21 DEF IsEntry, Longer
    <3>2. Last(Append(b, e)) = e
      <4>1. b \in Seq(Numbers) /\ e \in Numbers
        BY <1>0, <2>13, PlaceOf
      <4> QED BY <4>1 DEF Last
    <3> DEFINE g == r5.disk
               f == r6.disk
    <3>3. Layout(H) /\ Holds(f, H) /\ e = Last(H[p].blocks)
      BY <2>22, <3>1, <3>2
    <3>4. NoEnd(g, f, e)
      BY <2>28
    <3> HIDE DEF g, f
    <3>5. g \in Around(H, Nobody)
      BY <3>1, <3>3, <3>4, BeforeEnd
    <3> QED BY <3>5 DEF g
  <2>30. Careful(c)
    <3> DEFINE S == Sparing(goal'.objects, c)
    <3>1. goal'.objects = ObjectsOf(H)
      BY <2>24 DEF After
    <3>2. Held(G) \subseteq S
      <4>1. Held(G) \subseteq Sparing(ObjectsOf(H), c)
        BY <1>0, <2>21, EntrySpares
      <4> QED BY <3>1, <4>1
    <3>3. S \subseteq Disks
      BY DEF Sparing
    <3>4. RunIn(disk, r4a, S)
      BY <2>27, <3>2, <3>3, RunMore
    <3>5. r5.disk \in S /\ r6.disk \in S
      <4>1. r6.disk \in Held(H) /\ r5.disk \in Around(H, Nobody)
        BY <2>18, <2>22, <2>29 DEF Held, RunOK
      <4> QED BY <2>22, <3>1, <4>1, OwnSpares
    <3> HIDE DEF S
    <3>6. RunIn(disk, r5, S)
      <4> DEFINE x == List(1, L, a, e)
      <4>1. L \in Blocks /\ x \in Block /\ r5 = Put(r4a, L, x) /\ Written(r4a.disk, L, x) \in S
        BY <1>4, <2>1, <2>11, <2>12, <2>13, <2>17, <3>5, ListIsBlock DEF r5
      <4> HIDE DEF x
      <4>2. PutGoes(disk, r4a, L, x, S)
        BY <1>0, <3>4, <4>1, PutIn
      <4> QED BY <4>1, <4>2 DEF PutGoes
    <3>7. RunIn(disk, r6, S)
      <4> DEFINE x == List(2, e, 0, 0)
      <4>1. e \in Blocks /\ x \in Block /\ r6 = Put(r5, e, x) /\ Written(r5.disk, e, x) \in S
        BY <2>13, <2>18, <3>5, ListIsBlock DEF r6
      <4> HIDE DEF x
      <4>2. PutGoes(disk, r5, e, x, S)
        BY <1>0, <3>6, <4>1, PutIn
      <4> QED BY <4>1, <4>2 DEF PutGoes
    <3> QED BY <1>7, <2>31, <3>7, ReturnSpares DEF S
  <2> QED BY <2>23, <2>24, <2>25, <2>26, <2>30
<1> QED BY <1>1, <1>6, <1>7

\* The disk does not run out of blocks in the middle of a call, and no path leads where the callers have
\* nothing to look for.
Calm == Stress \cap {"full", "stray"} = {}

\* Paths are sequences of names of bounded length.
LEMMA PathType ==
  /\ \A path \in Paths : path \in Seq(Names) /\ Len(path) \in 0 .. Depth
  /\ \A path \in DirPaths : path \in Paths /\ path \in Seq(Names) /\ Len(path) + 1 \in 0 .. Depth
<1>1. Depth \in Nat
  BY SizesAssumption
<1>2. ASSUME NEW path \in Paths PROVE path \in Seq(Names) /\ Len(path) \in 0 .. Depth
  <2>1. PICK n \in 0 .. Depth : path \in [1 .. n -> Names]
    BY DEF Paths
  <2> QED BY <1>1, <2>1
<1>3. ASSUME NEW path \in DirPaths PROVE path \in Paths /\ path \in Seq(Names) /\ Len(path) + 1 \in 0 .. Depth
  <2>1. PICK n \in 0 .. Depth - 1 : path \in [1 .. n -> Names]
    BY DEF DirPaths
  <2>2. n \in 0 .. Depth
    BY <1>1
  <2>3. path \in Paths
    BY <2>1, <2>2 DEF Paths
  <2> QED BY <1>1, <2>1, <2>3
<1> QED BY <1>2, <1>3

\* Contents are sequences of chunks of bounded length.
LEMMA ContentType ==
  /\ <<>> \in Contents
  /\ \A data \in Contents : data \in Seq(Chunks) /\ Len(data) \in 0 .. MaxSize
  /\ \A data \in Seq(Chunks) : Len(data) \in 0 .. MaxSize => data \in Contents
<1>1. MaxSize \in Nat
  BY SizesAssumption
<1>2. ASSUME NEW data \in Contents PROVE data \in Seq(Chunks) /\ Len(data) \in 0 .. MaxSize
  <2>1. PICK n \in 0 .. MaxSize : data \in [1 .. n -> Chunks]
    BY DEF Contents
  <2> QED BY <1>1, <2>1
<1>3. ASSUME NEW data \in Seq(Chunks), Len(data) \in 0 .. MaxSize PROVE data \in Contents
  <2>1. data \in [1 .. Len(data) -> Chunks]
    BY <1>3
  <2> QED BY <1>3, <2>1 DEF Contents
<1>4. <<>> \in Contents
  <2>1. <<>> \in Seq(Chunks) /\ Len(<<>>) \in 0 .. MaxSize
    BY <1>1
  <2> QED BY <1>3, <2>1
<1> QED BY <1>2, <1>3, <1>4

\* What a path leads to when it leads to something, and when not.
LEMMA FoundIs ==
  ASSUME NEW G, Ready(G), NEW path \in Seq(Names), Straight(path), NEW at, at = FindInode(disk, path)
  PROVE  \/ \E i \in DOMAIN G :
              /\ at.st = "found" /\ at.inode = disk[i] /\ Promise!Resolve(path) = {i} /\ G[i].level = Len(path)
              /\ IsDirectory(at) <=> G[i].dir
              /\ IsFile(at) <=> ~G[i].dir
              /\ Promise!Directory(path) = IF G[i].dir THEN {i} ELSE {}
              /\ Promise!File(path) = IF G[i].dir THEN {} ELSE {i}
         \/ /\ at.st = "null" /\ ~IsDirectory(at) /\ ~IsFile(at)
            /\ Promise!Directory(path) = {} /\ Promise!File(path) = {}
<1>0. Layout(G) /\ Holds(disk, G) /\ goal.objects = ObjectsOf(G)
  BY DEF Ready
<1>1. Led(G, disk, at, Promise!Resolve(path), Len(path))
  BY <1>0, PathIs
<1>2. CASE at = NotFound /\ Promise!Resolve(path) = {}
  <2>1. at.st = "null"
    BY <1>2 DEF NotFound
  <2>2. ~IsDirectory(at) /\ ~IsFile(at)
    BY <2>1 DEF IsDirectory, IsFile
  <2>3. Promise!Directory(path) = {} /\ Promise!File(path) = {}
    BY <1>2 DEF Promise!Directory, Promise!File
  <2> QED BY <2>1, <2>2, <2>3
<1>3. CASE \E i \in DOMAIN G : at = Found(disk[i]) /\ Promise!Resolve(path) = {i} /\ G[i].level = Len(path)
  <2>1. PICK i \in DOMAIN G : at = Found(disk[i]) /\ Promise!Resolve(path) = {i} /\ G[i].level = Len(path)
    BY <1>3
  <2>2. at.st = "found" /\ at.inode = disk[i]
    BY <2>1 DEF Found
  <2>3. disk[i].flag = 1 /\ disk[i].isDirectory = G[i].dir /\ G[i].dir \in BOOLEAN
    BY <1>0, InodeIs, PlaceOf DEF Holds
  <2>4. (IsDirectory(at) <=> G[i].dir) /\ (IsFile(at) <=> ~G[i].dir)
    BY <2>2, <2>3 DEF IsDirectory, IsFile
  <2>5. goal.objects[i].dir = G[i].dir
    BY <1>0 DEF ObjectsOf, ObjectOf
  <2>6. Promise!Directory(path) = IF G[i].dir THEN {i} ELSE {}
    BY <2>1, <2>3, <2>5 DEF Promise!Directory
  <2>7. Promise!File(path) = IF G[i].dir THEN {} ELSE {i}
    BY <2>1, <2>3, <2>5 DEF Promise!File
  <2> QED BY <2>1, <2>2, <2>4, <2>6, <2>7
<1> QED BY <1>1, <1>2, <1>3 DEF Led

\* A step loses no block, but for the one that some calls do lose.
Frugal ==
  goal'.lost \ goal.lost # {} =>
    /\ Cardinality(goal'.lost \ goal.lost) = 1
    /\ call'.ret = -3 \/ (call'.call = "rmdir" /\ call'.ret = 0)

\* A call that has returned, with a value and contents of the right kind, and has lost no more than it may.
Done(c) ==
  /\ \E objects : After(objects)
  /\ \E ret \in -7 .. 0, out \in Contents : call' = Result(c, ret, out)
  /\ Frugal /\ Careful(c)

\* A call that has made its writes is done,
LEMMA DoneIs ==
  ASSUME NEW c, NEW ret \in -7 .. 0, NEW out \in Contents, NEW objects, After(objects), call' = Result(c, ret, out),
         Loses({}), Careful(c)
  PROVE  Done(c)
<1>1. goal'.lost \ goal.lost = {}
  BY DEF Loses
<1> QED BY <1>1 DEF Done, Frugal

\* also one of those that may lose a block.
LEMMA DoneLosing ==
  ASSUME NEW c, NEW ret \in -7 .. 0, NEW out \in Contents, NEW objects, After(objects), call' = Result(c, ret, out),
         NEW x, Loses({x}), Careful(c), ret = -3 \/ (c = "rmdir" /\ ret = 0)
  PROVE  Done(c)
<1> DEFINE more == goal'.lost \ goal.lost
<1>1. more \subseteq {x}
  BY DEF Loses
<1>2. call'.ret = -3 \/ (call'.call = "rmdir" /\ call'.ret = 0)
  BY DEF Result
<1>3. more # {} => Cardinality(more) = 1
  <2> SUFFICES ASSUME more # {} PROVE Cardinality(more) = 1
    OBVIOUS
  <2>1. more = {x}
    BY <1>1
  <2> HIDE DEF more
  <2> QED BY <2>1, FS_Singleton
<1>4. Frugal
  BY <1>2, <1>3 DEF Frugal
<1> QED BY <1>4 DEF Done

\* Whether the directory holds an entry of this name and kind.
LEMMA HoldsName ==
  ASSUME NEW G, Ready(G), NEW p \in DOMAIN G, G[p].dir, NEW name, NEW isDir \in BOOLEAN
  PROVE  Promise!Holds(p, name, isDir) <=> Hits(disk, G[p].blocks, name, {isDir}) # {}
<1> DEFINE kids == G[p].kids
<1>0. Layout(G) /\ Holds(disk, G) /\ goal.objects = ObjectsOf(G)
  BY DEF Ready
<1> DEFINE kinds == {isDir}
<1>1. Hits(disk, G[p].blocks, name, kinds) = Entries(G, p, name, kinds)
  <2> HIDE DEF kinds
  <2> QED BY <1>0, HitsIs
<1>5. Entries(G, p, name, kinds) # {} <=> \E k \in 1 .. Len(kids) : G[kids[k]].name = name /\ G[kids[k]].dir = isDir
  BY DEF Entries
<1>2. kids \in Seq(DOMAIN G) /\ \A k \in 1 .. Len(kids) : kids[k] \in DOMAIN G
  BY <1>0, PlaceOf, KidAt
<1>3. goal.objects[p].kids = kids
      /\ \A j \in DOMAIN G : goal.objects[j].name = G[j].name /\ goal.objects[j].dir = G[j].dir
  BY <1>0 DEF ObjectsOf, ObjectOf
<1>4. Promise!Holds(p, name, isDir) <=> \E k \in 1 .. Len(kids) : G[kids[k]].name = name /\ G[kids[k]].dir = isDir
  BY <1>2, <1>3 DEF Promise!Holds, Promise!ToSet, ToSet
<1> QED BY <1>1, <1>4, <1>5

\* fs_create() and fs_mkdir() on a path that leads to something do what is promised.
LEMMA AddDoes ==
  ASSUME Calm, NEW G, Ready(G), NEW path \in DirPaths, Straight(path), NEW at, at = FindInode(disk, path),
         NEW name \in Names, NEW isDir \in BOOLEAN, NEW c, ~isDir => c = "create", NEW broken,
         Add(c, at, name, isDir, broken)
  PROVE  Done(c) /\ Promise!Add(c, path, name, isDir)
<1>0. Layout(G) /\ Holds(disk, G) /\ goal.objects = ObjectsOf(G) /\ "full" \notin Stress
  BY DEF Ready, Calm
<1>1. path \in Seq(Names) /\ Len(path) + 1 \in 0 .. Depth
  BY PathType
<1>2. at.st = "found" \/ (at.st = "null" /\ ~IsDirectory(at))
  <2> HIDE DEF IsDirectory, IsFile
  <2> QED BY <1>1, FoundIs
<1>3. at.st # "null"
  BY <1>2 DEF Add
<1>4. PICK i \in DOMAIN G :
        /\ at.st = "found" /\ at.inode = disk[i] /\ Promise!Resolve(path) = {i} /\ G[i].level = Len(path)
        /\ IsDirectory(at) <=> G[i].dir
        /\ IsFile(at) <=> ~G[i].dir
        /\ Promise!Directory(path) = IF G[i].dir THEN {i} ELSE {}
  BY <1>1, <1>3, FoundIs
<1>5. <<>> \in Contents
  BY ContentType
<1>6. CASE ~G[i].dir
  <2>1. Return(c, -1, <<>>, Begin)
    BY <1>4, <1>6 DEF Add
  <2>2. After(goal.objects) /\ call' = Result(c, -1, <<>>) /\ Loses({}) /\ Careful(c)
    BY <2>1, ReturnAtOnce
  <2>3. Done(c)
    BY <1>5, <2>2, DoneIs
  <2>4. Promise!Refuse(c, -1) /\ Promise!Directory(path) = {}
    BY <1>4, <1>6, <2>2 DEF Promise!Refuse, Promise!Result, Result, After
  <2> QED BY <2>3, <2>4 DEF Promise!Add
<1>7. CASE G[i].dir
  <2> DEFINE w == Walk(disk, at.inode.start)
             same == Hits(disk, w, name, {isDir})
  <2>1. Promise!Directory(path) = {i}
    BY <1>4, <1>7
  <2>2. w = G[i].blocks /\ Ends(disk, w)
    <3>1. DOMAIN disk = Blocks /\ HoldsAt(disk, G[i], i)
      BY <1>0 DEF Holds, Disks
    <3> QED BY <1>0, <1>4, <1>7, <3>1, InodeIs, WalkIs, WalkEnds
  <2>3. Promise!Holds(i, name, isDir) <=> same # {}
    BY <1>7, <2>2, HoldsName
  <2>4. \/ same # {} /\ Return(c, -2, <<>>, Begin)
        \/ same = {} /\ NewEntry(c, disk[i], name, isDir, broken)
    <3>1. ~Bare(at.inode)
      <4>1. DOMAIN disk = Blocks /\ HoldsAt(disk, G[i], i)
        BY <1>0 DEF Holds, Disks
      <4>2. at.inode.start = G[i].blocks[1]
        BY <1>0, <1>4, <4>1, InodeIs
      <4>3. G[i].blocks[1] \in Numbers
        BY <1>0, PlaceOf
      <4> QED BY <4>1, <4>2, <4>3, MaxBlockAssumption DEF Bare, Numbers, Blocks
    <3>2. at.st = "found" /\ at.st # "lost" /\ IsDirectory(at)
      BY <1>4, <1>7
    <3>3. \/ same # {} /\ Return(c, -2, <<>>, Begin)
          \/ same = {} /\ NewEntry(c, at.inode, name, isDir, broken)
      <4> HIDE DEF Bare, IsDirectory
      <4> QED BY <2>2, <3>1, <3>2 DEF Add
    <3> QED BY <1>4, <3>3
  <2> HIDE DEF w, same
  <2>5. CASE same # {} /\ Return(c, -2, <<>>, Begin)
    <3>1. After(goal.objects) /\ call' = Result(c, -2, <<>>) /\ Loses({}) /\ Careful(c)
      BY <2>5, ReturnAtOnce
    <3>2. Done(c)
      BY <1>5, <3>1, DoneIs
    <3>3. Promise!Refuse(c, -2) /\ \E d \in Promise!Directory(path) : Promise!Holds(d, name, isDir)
      BY <2>1, <2>3, <2>5, <3>1 DEF Promise!Refuse, Promise!Result, Result, After
    <3> QED BY <3>2, <3>3 DEF Promise!Add
  <2>6. CASE same = {} /\ NewEntry(c, disk[i], name, isDir, broken)
    <3>1. G[i].level + 1 \in 0 .. Depth
      BY <1>1, <1>4
    <3>2. \/ call' = Result(c, -3, <<>>) /\ After(goal.objects) /\ (\E x : Loses({x})) /\ Careful(c)
          \/ /\ call' = Result(c, 0, <<>>) /\ Loses({}) /\ Careful(c)
             /\ \E id \in Blocks : id \notin DOMAIN goal.objects
                                   /\ After(WithObject(goal.objects, i, id, isDir, name))
      BY <1>0, <1>7, <2>6, <3>1, NewEntryDoes
    <3>3. CASE call' = Result(c, -3, <<>>) /\ After(goal.objects) /\ (\E x : Loses({x})) /\ Careful(c)
      <4>1. Done(c)
        <5>1. PICK x : Loses({x})
          BY <3>3
        <5>2. -3 \in -7 .. 0
          OBVIOUS
        <5> QED BY <1>5, <3>3, <5>1, <5>2, DoneLosing
      <4>2. Promise!Refuse(c, -3) /\ \E d \in Promise!Directory(path) : ~Promise!Holds(d, name, isDir)
        BY <2>1, <2>3, <2>6, <3>3 DEF Promise!Refuse, Promise!Result, Result, After
      <4> QED BY <4>1, <4>2 DEF Promise!Add
    <3>4. CASE /\ call' = Result(c, 0, <<>>) /\ Loses({}) /\ Careful(c)
               /\ \E id \in Blocks : id \notin DOMAIN goal.objects
                                     /\ After(WithObject(goal.objects, i, id, isDir, name))
      <4>1. PICK id \in Blocks : id \notin DOMAIN goal.objects
                                 /\ After(WithObject(goal.objects, i, id, isDir, name))
        BY <3>4
      <4>2. Done(c)
        BY <1>5, <3>4, <4>1, DoneIs
      <4>3. goal'.objects = WithObject(goal.objects, i, id, isDir, name)
        BY <4>1 DEF After
      <4>4. call' = Promise!Result(c, 0, <<>>)
        BY <3>4 DEF Promise!Result, Result
      <4>5. i \in Promise!Directory(path) /\ id \in Blocks \ DOMAIN goal.objects /\ ~Promise!Holds(i, name, isDir)
        BY <2>1, <2>3, <2>6, <4>1
      <4> QED BY <4>2, <4>3, <4>4, <4>5 DEF Promise!Add, WithObject
    <3> QED BY <3>2, <3>3, <3>4
  <2> QED BY <2>4, <2>5, <2>6
<1> QED BY <1>0, <1>6, <1>7, PlaceOf

\* fs_create() keeps the tree and does what DirectoryTree promises.
LEMMA CreateDoes ==
  ASSUME Calm, NEW G, Ready(G), NEW path \in DirPaths, NEW name \in Names, FsCreate(path, name)
  PROVE  Done("create") /\ Promise!Add("create", path, name, FALSE)
<1> DEFINE at == FindInode(disk, path)
<1>1. Straight(path) /\ path \in Seq(Names)
  BY PathType DEF FsCreate, Called, Calm
<1>2. CASE at.st = "null" /\ Return("create", -1, <<>>, Begin)
  <2>1. After(goal.objects) /\ call' = Result("create", -1, <<>>) /\ Loses({}) /\ Careful("create")
    BY <1>2, ReturnAtOnce
  <2>2. Done("create")
    BY <2>1, ContentType, DoneIs
  <2>3. Promise!Directory(path) = {}
    BY <1>1, <1>2, FoundIs
  <2>4. Promise!Refuse("create", -1)
    BY <2>1 DEF Promise!Refuse, Promise!Result, Result, After
  <2> QED BY <2>2, <2>3, <2>4 DEF Promise!Add
<1>3. CASE Add("create", at, name, FALSE, -6)
  BY <1>1, <1>3, AddDoes
<1> QED BY <1>2, <1>3 DEF FsCreate

\* So does fs_mkdir().
LEMMA MkdirDoes ==
  ASSUME Calm, NEW G, Ready(G), NEW path \in DirPaths, NEW name \in Names, FsMkdir(path, name)
  PROVE  Done("mkdir") /\ Promise!Add("mkdir", path, name, TRUE)
<1> DEFINE at == FindInode(disk, path)
<1>1. Straight(path)
  BY DEF FsMkdir, Called, Calm
<1>2. Add("mkdir", at, name, TRUE, -7)
  BY DEF FsMkdir, Calm
<1> QED BY <1>1, <1>2, AddDoes

-----------------------------------------------------------------------------
(***************************************************************************)
(* A file that is rewritten                                                *)
(***************************************************************************)
\* The layout G with the file i on the blocks bb that hold dd, of which sz blocks have been written.
Rewritten(g, bb, dd, sz) ==
  [dir |-> g.dir, name |-> g.name, parent |-> g.parent, level |-> g.level, size |-> sz,
   blocks |-> bb, kids |-> g.kids, data |-> dd]
WithData(G, i, bb, dd, sz) == [j \in DOMAIN G |-> IF j = i THEN Rewritten(G[i], bb, dd, sz) ELSE G[j]]

\* Such blocks.
FileParts(G, i, bb, dd, sz) ==
  /\ bb \in Seq(Numbers) /\ dd \in Seq(Chunks \cup {Blank}) /\ Len(bb) = Len(dd) /\ Len(dd) >= 1
  /\ sz \in 0 .. MaxSize /\ sz <= Len(dd) /\ \A k \in 1 .. sz : dd[k] \in Chunks
  /\ \A k, l \in 1 .. Len(bb) : bb[k] = bb[l] => k = l
  /\ \A k \in 1 .. Len(bb) : bb[k] \notin DOMAIN G
  /\ \A j \in DOMAIN G : j # i => \A k \in 1 .. Len(bb) : \A l \in 1 .. Len(G[j].blocks) : bb[k] # G[j].blocks[l]

\* H is such a layout.
IsFileLayout(H, G, i, bb, dd, sz) ==
  /\ DOMAIN H = DOMAIN G /\ H = [j \in DOMAIN H |-> H[j]]
  /\ H[i] = Rewritten(G[i], bb, dd, sz)
  /\ \A j \in DOMAIN G : j # i => H[j] = G[j]
  /\ \A j \in DOMAIN G : /\ H[j].dir = G[j].dir /\ H[j].name = G[j].name /\ H[j].parent = G[j].parent
                         /\ H[j].level = G[j].level /\ H[j].kids = G[j].kids
  /\ H[i].blocks = bb /\ H[i].data = dd /\ H[i].size = sz

\* The layout with the file is what IsFileLayout says.
LEMMA FileFacts ==
  ASSUME NEW G, NEW i \in DOMAIN G, NEW bb, NEW dd, NEW sz
  PROVE  IsFileLayout(WithData(G, i, bb, dd, sz), G, i, bb, dd, sz)
<1> DEFINE H == WithData(G, i, bb, dd, sz)
<1>1. /\ DOMAIN H = DOMAIN G /\ H = [j \in DOMAIN H |-> H[j]]
      /\ H[i] = Rewritten(G[i], bb, dd, sz)
      /\ \A j \in DOMAIN G : j # i => H[j] = G[j]
  BY DEF WithData
<1> HIDE DEF H
<1>2. H[i].blocks = bb /\ H[i].data = dd /\ H[i].size = sz
  BY <1>1 DEF Rewritten
<1>3. ASSUME NEW j \in DOMAIN G
      PROVE  /\ H[j].dir = G[j].dir /\ H[j].name = G[j].name /\ H[j].parent = G[j].parent
             /\ H[j].level = G[j].level /\ H[j].kids = G[j].kids
  <2>1. CASE j = i
    BY <1>1, <2>1 DEF Rewritten
  <2>2. CASE j # i
    BY <1>1, <2>2
  <2> QED BY <2>1, <2>2
<1>4. IsFileLayout(H, G, i, bb, dd, sz)
  BY <1>1, <1>2, <1>3 DEF IsFileLayout
<1> QED BY <1>4 DEF H

\* It is a layout.
LEMMA FileLayout ==
  ASSUME NEW G, Layout(G), NEW i \in DOMAIN G, ~G[i].dir, NEW bb, NEW dd, NEW sz, FileParts(G, i, bb, dd, sz),
         NEW H, IsFileLayout(H, G, i, bb, dd, sz)
  PROVE  Layout(H)
<1>0. /\ bb \in Seq(Numbers) /\ dd \in Seq(Chunks \cup {Blank}) /\ Len(bb) = Len(dd) /\ Len(dd) >= 1
      /\ sz \in 0 .. MaxSize /\ sz <= Len(dd) /\ \A k \in 1 .. sz : dd[k] \in Chunks
  BY DEF FileParts
<1>1. /\ DOMAIN H = DOMAIN G /\ H = [j \in DOMAIN H |-> H[j]]
      /\ H[i] = Rewritten(G[i], bb, dd, sz)
      /\ \A j \in DOMAIN G : j # i => H[j] = G[j]
      /\ H[i].blocks = bb /\ H[i].data = dd /\ H[i].size = sz
  BY DEF IsFileLayout
<1>2. \A j \in DOMAIN G : /\ H[j].dir = G[j].dir /\ H[j].name = G[j].name /\ H[j].parent = G[j].parent
                          /\ H[j].level = G[j].level /\ H[j].kids = G[j].kids
  BY DEF IsFileLayout
<1>3. ASSUME NEW j \in DOMAIN H PROVE H[j] \in Placed(DOMAIN H) /\ KindOK(H[j])
  <2>1. CASE j = i
    <3>1. /\ G[i].dir \in BOOLEAN /\ G[i].name \in Names \cup {NoName} /\ G[i].parent \in DOMAIN G
          /\ G[i].level \in 0 .. Depth /\ G[i].kids \in Seq(DOMAIN G) /\ KindOK(G[i])
      BY PlaceOf
    <3>2. H[i] \in Placed(DOMAIN H)
      BY <1>0, <1>1, <3>1 DEF Placed, Rewritten
    <3>3. KindOK(H[i])
      BY <1>0, <1>1, <1>2, <3>1 DEF KindOK
    <3> QED BY <2>1, <3>2, <3>3
  <2>2. CASE j # i
    BY <1>1, <2>2 DEF Layout, LayoutType, KindsOK
  <2> QED BY <2>1, <2>2
<1>4. LayoutType(H) /\ KindsOK(H)
  BY <1>1, <1>3 DEF LayoutType, KindsOK, Layout
<1>5. RootOK(H)
  BY <1>2 DEF RootOK, Layout, LayoutType
<1>6. NamesKids(H)
  <2> SUFFICES ASSUME NEW j \in DOMAIN H, NEW k \in 1 .. Len(H[j].kids)
               PROVE  H[j].kids[k] # Root /\ H[H[j].kids[k]].parent = j /\ H[H[j].kids[k]].level = H[j].level + 1
    BY DEF NamesKids
  <2>1. j \in DOMAIN G /\ H[j].kids = G[j].kids /\ H[j].level = G[j].level
    BY <1>1, <1>2
  <2>2. G[j].kids[k] \in DOMAIN G /\ G[j].kids[k] # Root /\ G[G[j].kids[k]].parent = j
        /\ G[G[j].kids[k]].level = G[j].level + 1
    BY <2>1, KidAt
  <2> QED BY <1>2, <2>1, <2>2
<1>7. NamesOnce(H)
  BY <1>1, <1>2 DEF NamesOnce, Layout
<1>8. NamesAll(H)
  <2> SUFFICES ASSUME NEW j \in DOMAIN H \ {Root}
               PROVE \E k \in 1 .. Len(H[H[j].parent].kids) : H[H[j].parent].kids[k] = j
    BY DEF NamesAll, Named1
  <2>1. j \in DOMAIN G /\ G[j].parent \in DOMAIN G /\ H[j].parent = G[j].parent
        /\ H[G[j].parent].kids = G[G[j].parent].kids
    BY <1>1, <1>2, PlaceOf
  <2> QED BY <2>1 DEF Layout, NamesAll, Named1
<1>9. BlocksApart(H)
  <2> SUFFICES ASSUME NEW j \in DOMAIN H, NEW k \in 1 .. Len(H[j].blocks) PROVE H[j].blocks[k] \notin DOMAIN H
    BY DEF BlocksApart
  <2>1. CASE j = i
    BY <1>1, <2>1 DEF FileParts
  <2>2. CASE j # i
    BY <1>1, <2>2 DEF Layout, BlocksApart
  <2> QED BY <2>1, <2>2
<1>10. BlocksOnce(H)
  <2> SUFFICES ASSUME NEW x \in DOMAIN H, NEW y \in DOMAIN H, NEW k \in 1 .. Len(H[x].blocks),
                      NEW l \in 1 .. Len(H[y].blocks), H[x].blocks[k] = H[y].blocks[l]
               PROVE  x = y /\ k = l
    BY DEF BlocksOnce
  <2>1. CASE x = i /\ y = i
    BY <1>1, <2>1 DEF FileParts
  <2>2. CASE x = i /\ y # i
    BY <1>1, <2>2 DEF FileParts
  <2>3. CASE x # i /\ y = i
    BY <1>1, <2>3 DEF FileParts
  <2>4. CASE x # i /\ y # i
    BY <1>1, <2>4 DEF Layout, BlocksOnce
  <2> QED BY <2>1, <2>2, <2>3, <2>4
<1> QED BY <1>4, <1>5, <1>6, <1>7, <1>8, <1>9, <1>10 DEF Layout

\* The disk f is the disk d but for the file, which is on it.
FileWritten(f, d, G, i, bb, dd, sz) ==
  /\ f \in Disks /\ HoldsData(f, bb, dd)
  /\ f[i] = InodeOf(Rewritten(G[i], bb, dd, sz), i)
  /\ \A m \in Blocks : m # i /\ (\A k \in 1 .. Len(bb) : m # bb[k]) => f[m] = d[m]

\* The disk with the file holds it.
LEMMA FileHolds ==
  ASSUME NEW G, Layout(G), NEW i \in DOMAIN G, ~G[i].dir, NEW bb, NEW dd, NEW sz, FileParts(G, i, bb, dd, sz),
         NEW H, IsFileLayout(H, G, i, bb, dd, sz),
         NEW d, Holds(d, G), NEW f, FileWritten(f, d, G, i, bb, dd, sz)
  PROVE  Holds(f, H)
<1>1. /\ DOMAIN H = DOMAIN G /\ H[i] = Rewritten(G[i], bb, dd, sz)
      /\ \A j \in DOMAIN G : j # i => H[j] = G[j]
      /\ H[i].dir = G[i].dir /\ H[i].blocks = bb /\ H[i].data = dd
  BY DEF IsFileLayout
<1>2. /\ f \in Disks /\ HoldsData(f, bb, dd)
      /\ f[i] = InodeOf(Rewritten(G[i], bb, dd, sz), i)
      /\ \A m \in Blocks : m # i /\ (\A k \in 1 .. Len(bb) : m # bb[k]) => f[m] = d[m]
  BY DEF FileWritten
<1>3. f[0] = Super(Root)
  <2>1. 0 \in Blocks /\ 0 # i
    BY MaxBlockAssumption, PlaceOf DEF Blocks
  <2>2. bb \in Seq(Numbers)
    BY DEF FileParts
  <2>3. \A k \in 1 .. Len(bb) : 0 # bb[k]
    <3>1. \A k \in 1 .. Len(bb) : bb[k] \in Numbers
      BY <2>2
    <3>2. 0 \notin Numbers
      BY DEF Numbers
    <3> QED BY <3>1, <3>2
  <2> QED BY <1>2, <2>1, <2>3 DEF Holds
<1>4. HoldsAt(f, H[i], i)
  BY <1>1, <1>2 DEF HoldsAt
<1>5. ASSUME NEW j \in DOMAIN G, j # i PROVE HoldsAt(f, H[j], j)
  <2>1. ASSUME NEW m \in UsedBy(G[j], j) PROVE f[m] = d[m]
    <3>1. CASE m = j
      <4>1. m \in Blocks /\ m # i /\ \A k \in 1 .. Len(bb) : m # bb[k]
        BY <1>5, <3>1, PlaceOf DEF FileParts
      <4> QED BY <1>2, <4>1
    <3>2. CASE \E l \in 1 .. Len(G[j].blocks) : m = G[j].blocks[l]
      <4>1. PICK l \in 1 .. Len(G[j].blocks) : m = G[j].blocks[l]
        BY <3>2
      <4>2. m \in Blocks /\ m # i
        BY <4>1, BlockAt
      <4>3. \A k \in 1 .. Len(bb) : m # bb[k]
        BY <1>5, <4>1 DEF FileParts
      <4> QED BY <1>2, <4>2, <4>3
    <3> QED BY <3>1, <3>2 DEF UsedBy, BlocksOf
  <2>2. HoldsAt(f, G[j], j)
    BY <2>1, HoldsAtFrame DEF Holds
  <2> QED BY <1>1, <1>5, <2>2
<1> QED BY <1>1, <1>2, <1>3, <1>4, <1>5 DEF Holds

\* What the file holds afterwards.
WithContent(obj, i, data) == [obj EXCEPT ![i].data = data]

\* Its objects are the same but for the content of the file.
LEMMA FileObjects ==
  ASSUME NEW G, NEW i \in DOMAIN G, NEW bb, NEW dd, NEW sz,
         NEW H, IsFileLayout(H, G, i, bb, dd, sz)
  PROVE  ObjectsOf(H) = WithContent(ObjectsOf(G), i, SubSeq(dd, 1, sz))
<1>1. /\ DOMAIN H = DOMAIN G
      /\ \A j \in DOMAIN G : j # i => H[j] = G[j]
      /\ H[i].dir = G[i].dir /\ H[i].name = G[i].name /\ H[i].kids = G[i].kids /\ H[i].data = dd /\ H[i].size = sz
  BY DEF IsFileLayout
<1> DEFINE x == SubSeq(dd, 1, sz)
           old == SubSeq(G[i].data, 1, G[i].size)
           obj == ObjectsOf(G)
<1>2. ObjectOf(H[i]) = [dir |-> G[i].dir, name |-> G[i].name, kids |-> G[i].kids, data |-> x]
  BY <1>1 DEF ObjectOf
<1>3. DOMAIN obj = DOMAIN G /\ (\A j \in DOMAIN G : obj[j] = ObjectOf(G[j])) /\ obj = [j \in DOMAIN obj |-> obj[j]]
  BY DEF ObjectsOf
<1>4. obj[i] = [dir |-> G[i].dir, name |-> G[i].name, kids |-> G[i].kids, data |-> old]
  BY <1>3 DEF ObjectOf
<1> HIDE DEF x, old, obj
<1>5. WithContent(obj, i, x) = [j \in DOMAIN obj |-> IF j = i THEN [obj[i] EXCEPT !.data = x] ELSE obj[j]]
  BY <1>3 DEF WithContent
<1>6. [obj[i] EXCEPT !.data = x] = ObjectOf(H[i])
  BY <1>2, <1>4
<1>7. ObjectsOf(H) = [j \in DOMAIN obj |-> IF j = i THEN ObjectOf(H[i]) ELSE obj[j]]
  BY <1>1, <1>3 DEF ObjectsOf
<1>8. ObjectsOf(H) = WithContent(obj, i, x)
  BY <1>5, <1>6, <1>7
<1> QED BY <1>8 DEF x, obj

-----------------------------------------------------------------------------
(***************************************************************************)
(* The loop of fs_write()                                                  *)
(***************************************************************************)

\* What the block at place k of a chain of n blocks leads to.
Onward(bb, n, k) == IF k < n THEN bb[k + 1] ELSE 0

\* A disk holds a chain of data when each block is there and leads to the next.
LEMMA HoldsDataIs ==
  ASSUME NEW e, NEW bb, NEW dd, Len(dd) \in Nat, Len(dd) >= 1
  PROVE  HoldsData(e, bb, dd) <=>
           \A k \in 1 .. Len(dd) : e[bb[k]] = Data(dd[k], bb[k], e[bb[k]].prev, Onward(bb, Len(dd), k))
<1> DEFINE n == Len(dd)
<1>1. ASSUME HoldsData(e, bb, dd), NEW k \in 1 .. n
      PROVE  e[bb[k]] = Data(dd[k], bb[k], e[bb[k]].prev, Onward(bb, n, k))
  <2>1. CASE k = n
    <3>1. Onward(bb, n, k) = 0
      BY <2>1 DEF Onward
    <3> QED BY <1>1, <2>1, <3>1 DEF HoldsData
  <2>2. CASE k # n
    <3>1. k \in 1 .. n - 1 /\ Onward(bb, n, k) = bb[k + 1]
      BY <2>2 DEF Onward
    <3> QED BY <1>1, <3>1 DEF HoldsData
  <2> QED BY <2>1, <2>2
<1>2. ASSUME \A k \in 1 .. n : e[bb[k]] = Data(dd[k], bb[k], e[bb[k]].prev, Onward(bb, n, k))
      PROVE  HoldsData(e, bb, dd)
  <2>1. n \in 1 .. n /\ Onward(bb, n, n) = 0
    BY DEF Onward
  <2>2. e[bb[n]] = Data(dd[n], bb[n], e[bb[n]].prev, 0)
    BY <1>2, <2>1
  <2>3. ASSUME NEW k \in 1 .. n - 1 PROVE e[bb[k]] = Data(dd[k], bb[k], e[bb[k]].prev, bb[k + 1])
    <3>1. k \in 1 .. n /\ Onward(bb, n, k) = bb[k + 1]
      BY DEF Onward
    <3> QED BY <1>2, <3>1
  <2> QED BY <2>2, <2>3 DEF HoldsData
<1> QED BY <1>1, <1>2

\* The fields of a block of data.
LEMMA DataFacts ==
  ASSUME NEW x, NEW addr, NEW prev, NEW next
  PROVE  /\ Data(x, addr, prev, next).addr = addr /\ Data(x, addr, prev, next).next = next
         /\ Data(x, addr, prev, next).prev = prev /\ Data(x, addr, prev, next).flag = 1
         /\ Data(x, addr, prev, next).kind = "data" /\ Data(x, addr, prev, next).data = x
         /\ AsData(Data(x, addr, prev, next)) = Data(x, addr, prev, next)
BY DEF Data, AsData

\* The kinds of the fields of a block of data.
LEMMA DataFields ==
  ASSUME NEW x, NEW addr, NEW prev, NEW next, Data(x, addr, prev, next) \in Block
  PROVE  x \in Chunks \cup {Blank} /\ addr \in Nat /\ prev \in Nat /\ next \in Nat
BY DEF Data, Block

\* One turn of the loop, the block in memory being this.
LEMMA ChunkIs ==
  ASSUME NEW r, NEW x, NEW c, NEW p, NEW n, NEW data, NEW k, NEW acc,
         acc = [r |-> r, block |-> Data(x, c, p, n)]
  PROVE  /\ k = Len(data) => WriteChunk(acc, data, k).r = Put(r, c, Data(data[k], c, p, n))
         /\ k # Len(data) /\ n = 0 =>
              WriteChunk(acc, data, k) =
                [r |-> Put(Dalloc(r), c, Data(data[k], c, p, FirstFree(r))), block |-> Data(Blank, FirstFree(r), c, 0)]
         /\ k # Len(data) /\ n # 0 =>
              WriteChunk(acc, data, k) =
                [r |-> Put(r, c, Data(data[k], c, p, n)),
                 block |-> ReadNext(Put(r, c, Data(data[k], c, p, n)), n, Data(data[k], c, p, n))]
<1> DEFINE B == acc.block
           y == data[k]
           b == [B EXCEPT !.data = y]
           new == FirstFree(acc.r)
           more == [b EXCEPT !.next = new]
<1>1. acc.r = r /\ acc.block = Data(x, c, p, n) /\ acc = [r |-> acc.r, block |-> acc.block]
  OBVIOUS
<1>2. b = Data(data[k], c, p, n)
  <2>1. B = Data(x, c, p, n)
    BY <1>1
  <2> HIDE DEF B, y
  <2>2. b = Data(y, c, p, n)
    BY <2>1 DEF Data
  <2> QED BY <2>2 DEF y
<1>3. more = Data(data[k], c, p, FirstFree(r))
  <2> HIDE DEF b, new
  <2>1. more = Data(data[k], c, p, new)
    BY <1>2 DEF Data
  <2> QED BY <1>1, <2>1 DEF new
<1>4. b.addr = c /\ b.next = n
  <2> HIDE DEF b
  <2> QED BY <1>2, DataFacts
<1>5. WriteChunk(acc, data, k) =
        IF k = Len(data) THEN [acc EXCEPT !.r = Put(acc.r, b.addr, b)]
        ELSE IF b.next = 0 THEN [r |-> Put(Dalloc(acc.r), b.addr, more), block |-> Data(Blank, new, b.addr, 0)]
        ELSE [r |-> Put(acc.r, b.addr, b), block |-> ReadNext(Put(acc.r, b.addr, b), b.next, b)]
  BY DEF WriteChunk
<1>6. new = FirstFree(r)
  BY <1>1
<1>7. \A z : [acc EXCEPT !.r = z].r = z
  BY <1>1
<1> HIDE DEF b, more, new, B, y
<1> QED BY <1>1, <1>2, <1>3, <1>4, <1>5, <1>6, <1>7

-----------------------------------------------------------------------------
\* The disks on which nothing has changed since the call began but blocks that are the file's i or nobody's.
Beside(G, i) ==
  {d \in Disks : \A j \in DOMAIN G :
     /\ d[j] = disk[j]
     /\ j # i => \A k \in 1 .. Len(G[j].blocks) : d[G[j].blocks[k]] = disk[G[j].blocks[k]]}

\* Such a block.
Elsewhere(G, i, n) ==
  n \notin DOMAIN G /\ \A j \in DOMAIN G : j # i => \A k \in 1 .. Len(G[j].blocks) : G[j].blocks[k] # n

\* A write to such a block.
LEMMA PutBeside ==
  ASSUME host = FALSE, NEW G, Layout(G), NEW i, NEW r, RunIn(disk, r, Beside(G, i)),
         NEW n \in Blocks, Elsewhere(G, i, n), NEW b \in Block
  PROVE  PutGoes(disk, r, n, b, Beside(G, i))
<1> DEFINE e == r.disk
           w == Written(e, n, b)
<1>1. e \in Disks /\ e \in Beside(G, i)
  BY RunHere
<1> HIDE DEF e
<1>2. w \in Disks /\ \A m \in Blocks : m # n => w[m] = e[m]
  BY <1>1, OneWritten
<1> HIDE DEF w
<1>3. ASSUME NEW j \in DOMAIN G
      PROVE  /\ w[j] = disk[j]
             /\ j # i => \A k \in 1 .. Len(G[j].blocks) : w[G[j].blocks[k]] = disk[G[j].blocks[k]]
  <2>1. /\ e[j] = disk[j]
        /\ j # i => \A k \in 1 .. Len(G[j].blocks) : e[G[j].blocks[k]] = disk[G[j].blocks[k]]
    BY <1>1 DEF Beside
  <2>2. j \in Blocks /\ j # n
    BY PlaceOf DEF Elsewhere
  <2>3. ASSUME j # i, NEW k \in 1 .. Len(G[j].blocks) PROVE w[G[j].blocks[k]] = e[G[j].blocks[k]]
    <3>1. G[j].blocks[k] \in Blocks /\ G[j].blocks[k] # n
      BY <2>3, BlockAt DEF Elsewhere
    <3> QED BY <1>2, <3>1
  <2> QED BY <1>2, <2>1, <2>2, <2>3
<1>4. w \in Beside(G, i)
  BY <1>2, <1>3 DEF Beside
<1> QED BY <1>4, PutIn DEF w, e

\* Such disks show all but the file.
LEMMA BesideAround ==
  ASSUME NEW G, Layout(G), Holds(disk, G), NEW i \in DOMAIN G, ~G[i].dir
  PROVE  disk \in Beside(G, i) /\ Beside(G, i) \subseteq Around(G, i)
<1>1. disk \in Disks
  BY DEF Holds
<1>2. disk \in Beside(G, i)
  BY <1>1 DEF Beside
<1>3. ASSUME NEW e \in Beside(G, i) PROVE e \in Around(G, i)
  <2>1. e \in Disks
    BY DEF Beside
  <2>2. ASSUME NEW j \in DOMAIN G
        PROVE  IF j = i THEN e[j].kind = "inode" /\ ~e[j].isDirectory ELSE ShowsAt(e, G[j], j)
    <3>1. e[j] = disk[j] /\ HoldsAt(disk, G[j], j) /\ G[j].dir \in BOOLEAN
      BY PlaceOf DEF Beside, Holds
    <3>2. CASE j = i
      BY <3>1, <3>2 DEF HoldsAt, InodeOf
    <3>3. CASE j # i
      <4>1. ASSUME NEW m \in UsedBy(G[j], j) PROVE e[m] = disk[m]
        <5>1. m = j \/ \E k \in 1 .. Len(G[j].blocks) : m = G[j].blocks[k]
          BY DEF UsedBy, BlocksOf
        <5> QED BY <3>1, <3>3, <5>1 DEF Beside
      <4>2. HoldsAt(e, G[j], j)
        BY <3>1, <4>1, HoldsAtFrame
      <4>3. ShowsAt(e, G[j], j)
        BY <3>1, <4>2, HoldsShows
      <4> QED BY <3>3, <4>3
    <3> QED BY <3>2, <3>3
  <2> QED BY <2>1, <2>2 DEF Around
<1> QED BY <1>2, <1>3

\* The blocks of the file, old and new.
LEMMA PartElsewhere ==
  ASSUME NEW G, NEW i, NEW bb, NEW dd, NEW sz, FileParts(G, i, bb, dd, sz), NEW k \in 1 .. Len(bb)
  PROVE  Elsewhere(G, i, bb[k])
BY DEF Elsewhere, FileParts

-----------------------------------------------------------------------------
\* The blocks bb are the blocks b and maybe more.
Follows(bb, b) == Len(b) <= Len(bb) /\ \A j \in 1 .. Len(b) : bb[j] = b[j]

\* The loop of fs_write() after k turns: the file is on the blocks bb and holds dd, once the block in memory,
\* the next to be written, is there.
GoingOn(acc, G, i, D, k, bb, dd) ==
  /\ RunOK(disk, acc.r) /\ RunIn(disk, acc.r, Beside(G, i)) /\ acc = [r |-> acc.r, block |-> acc.block]
  /\ FileParts(G, i, bb, dd, G[i].size) /\ bb[1] = G[i].blocks[1] /\ Follows(bb, G[i].blocks)
  /\ k + 1 \in 1 .. Len(dd) /\ \A j \in 1 .. k : dd[j] = D[j]
  /\ acc.block \in Block /\ acc.r.disk[bb[k + 1]].flag # 0
  /\ HoldsData(Written(acc.r.disk, bb[k + 1], acc.block), bb, dd)
  /\ \A m \in Blocks : (\A j \in 1 .. Len(bb) : m # bb[j]) => acc.r.disk[m] = disk[m]

\* The first k chunks are written, and no block is in memory.
Through(r, G, i, D, k, bb, dd) ==
  /\ RunOK(disk, r) /\ RunIn(disk, r, Beside(G, i))
  /\ FileParts(G, i, bb, dd, G[i].size) /\ bb[1] = G[i].blocks[1] /\ Follows(bb, G[i].blocks)
  /\ k <= Len(dd) /\ \A j \in 1 .. k : dd[j] = D[j]
  /\ HoldsData(r.disk, bb, dd)
  /\ \A m \in Blocks : (\A j \in 1 .. Len(bb) : m # bb[j]) => r.disk[m] = disk[m]

\* There was no block left: the chain leads to block MAX_BLOCK, which the disk does not have.
Over(r, G, i) ==
  RunOK(disk, r) /\ FirstFree(r) = MAX_BLOCK /\ Last(DataBlocks(r.disk, G[i].blocks[1])) = MAX_BLOCK

OverIn(acc, G, i) ==
  Over(acc.r, G, i) /\ \E x, p : acc = [r |-> acc.r, block |-> Data(x, MAX_BLOCK, p, 0)]

\* The block in memory and the others of the chain.
GoingParts(acc, k, bb, dd) ==
  /\ bb \in Seq(Numbers) /\ dd \in Seq(Chunks \cup {Blank}) /\ Len(bb) = Len(dd) /\ Len(dd) \in Nat
  /\ \A j \in 1 .. Len(dd) : bb[j] \in Blocks /\ bb[j] \in Nat /\ bb[j] # 0 /\ bb[j] \in Numbers
  /\ k + 1 \in 1 .. Len(dd) /\ acc.r.disk \in Disks
  /\ \E p \in Nat : acc = [r |-> acc.r, block |-> Data(dd[k + 1], bb[k + 1], p, Onward(bb, Len(dd), k + 1))]
  /\ \A j \in 1 .. Len(dd) : j # k + 1 =>
       acc.r.disk[bb[j]] = Data(dd[j], bb[j], acc.r.disk[bb[j]].prev, Onward(bb, Len(dd), j))

\* What is known of the chain between two turns.
LEMMA GoingFacts ==
  ASSUME NEW acc, NEW G, NEW i, NEW D, NEW k, NEW bb, NEW dd, GoingOn(acc, G, i, D, k, bb, dd)
  PROVE  GoingParts(acc, k, bb, dd)
<1> DEFINE e == Written(acc.r.disk, bb[k + 1], acc.block)
           n == Len(dd)
           c == bb[k + 1]
<1>1. /\ bb \in Seq(Numbers) /\ dd \in Seq(Chunks \cup {Blank}) /\ Len(bb) = n /\ n \in Nat /\ k + 1 \in 1 .. n
      /\ \A x, y \in 1 .. n : bb[x] = bb[y] => x = y
  BY DEF GoingOn, FileParts
<1>2. ASSUME NEW j \in 1 .. n PROVE bb[j] \in Blocks /\ bb[j] \in Nat /\ bb[j] # 0 /\ bb[j] \in Numbers
  <2>1. bb[j] \in Numbers
    BY <1>1
  <2> QED BY <2>1, MaxBlockAssumption DEF Numbers, Blocks
<1>3. acc.r.disk \in Disks /\ acc.block \in Block /\ acc = [r |-> acc.r, block |-> acc.block]
  BY DEF GoingOn, RunOK
<1>4. e[c] = acc.block /\ \A m \in Blocks : m # c => e[m] = acc.r.disk[m]
  BY <1>1, <1>2, <1>3, OneWritten
<1> HIDE DEF e
<1>5. HoldsData(e, bb, dd)
  BY DEF GoingOn, e
<1>6. \A j \in 1 .. n : e[bb[j]] = Data(dd[j], bb[j], e[bb[j]].prev, Onward(bb, n, j))
  BY <1>1, <1>5, HoldsDataIs
<1>7. acc.block = Data(dd[k + 1], c, acc.block.prev, Onward(bb, n, k + 1))
  BY <1>1, <1>4, <1>6
<1>8. acc.block.prev \in Nat
  BY <1>3, <1>7, DataFields
<1>9. ASSUME NEW j \in 1 .. n, j # k + 1
      PROVE acc.r.disk[bb[j]] = Data(dd[j], bb[j], acc.r.disk[bb[j]].prev, Onward(bb, n, j))
  <2>1. bb[j] # c
    BY <1>1, <1>9
  <2>2. e[bb[j]] = acc.r.disk[bb[j]]
    BY <1>2, <1>4, <2>1
  <2> QED BY <1>6, <2>2
<1>10. \E p \in Nat : acc = [r |-> acc.r, block |-> Data(dd[k + 1], c, p, Onward(bb, n, k + 1))]
  BY <1>3, <1>7, <1>8
<1> QED BY <1>1, <1>2, <1>3, <1>9, <1>10 DEF GoingParts

\* The sequence dd with x in the place k.
Replaced(dd, k, x) == [dd EXCEPT ![k] = x]

\* Replacing an element keeps the type and the length,
LEMMA ReplacedType ==
  ASSUME NEW S, NEW dd \in Seq(S), NEW k \in 1 .. Len(dd), NEW x \in S
  PROVE  Replaced(dd, k, x) \in Seq(S) /\ Len(Replaced(dd, k, x)) = Len(dd)
BY DEF Replaced

\* and every other element.
LEMMA ReplacedIs ==
  ASSUME NEW S, NEW dd \in Seq(S), NEW k \in 1 .. Len(dd), NEW x \in S
  PROVE  \A j \in 1 .. Len(dd) : Replaced(dd, k, x)[j] = IF j = k THEN x ELSE dd[j]
BY DEF Replaced

\* A file on other blocks or with other contents.
LEMMA ReplacedParts ==
  ASSUME NEW G, NEW i, NEW bb, NEW dd, NEW sz, FileParts(G, i, bb, dd, sz), NEW k \in 1 .. Len(dd), NEW x \in Chunks
  PROVE  FileParts(G, i, bb, Replaced(dd, k, x), sz)
<1> DEFINE ee == Replaced(dd, k, x)
           S == Chunks \cup {Blank}
<1>1. dd \in Seq(Chunks \cup {Blank}) /\ Len(bb) = Len(dd) /\ x \in Chunks \cup {Blank}
      /\ sz \in 0 .. MaxSize /\ sz <= Len(dd) /\ \A j \in 1 .. sz : dd[j] \in Chunks
  BY DEF FileParts
<1>2. /\ ee \in Seq(Chunks \cup {Blank}) /\ Len(ee) = Len(dd) /\ ee[k] = x
      /\ \A j \in 1 .. Len(dd) : j # k => ee[j] = dd[j]
  <2>1. dd \in Seq(S) /\ x \in S
    BY <1>1
  <2> HIDE DEF S
  <2>2. ee \in Seq(S) /\ Len(ee) = Len(dd)
    BY <2>1, ReplacedType
  <2>3. \A j \in 1 .. Len(dd) : ee[j] = IF j = k THEN x ELSE dd[j]
    BY <2>1, ReplacedIs
  <2> HIDE DEF ee
  <2> QED BY <2>2, <2>3 DEF S
<1> HIDE DEF ee
<1>3. \A j \in 1 .. sz : ee[j] \in Chunks
  <2> SUFFICES ASSUME NEW j \in 1 .. sz PROVE ee[j] \in Chunks
    OBVIOUS
  <2>1. j \in 1 .. Len(dd)
    BY <1>1, SizesAssumption
  <2> QED BY <1>1, <1>2, <2>1
<1>4. FileParts(G, i, bb, ee, sz)
  BY <1>1, <1>2, <1>3 DEF FileParts
<1> QED BY <1>4 DEF ee

\* A sequence of blocks without repetition is not longer than the disk.
LEMMA OnceBound ==
  ASSUME NEW b \in Seq(Numbers), \A k, l \in 1 .. Len(b) : b[k] = b[l] => k = l
  PROVE  Len(b) < MAX_BLOCK
<1> DEFINE n == Len(b)
           S == 1 .. n
<1>1. n \in Nat
  OBVIOUS
<1>3. MAX_BLOCK \in Nat /\ MAX_BLOCK > 3
  BY MaxBlockAssumption
<1> SUFFICES ASSUME n > MAX_BLOCK - 1 PROVE FALSE
  BY <1>1, <1>3
<1>4. IsFiniteSet(S) /\ Cardinality(S) = n
  BY <1>1, FS_Interval
<1>5. IsFiniteSet(Numbers) /\ Cardinality(Numbers) = MAX_BLOCK - 1
  <2> DEFINE q == MAX_BLOCK - 1
  <2>1. q \in Nat /\ q >= 1 /\ Numbers = 1 .. q
    BY <1>3 DEF Numbers
  <2> HIDE DEF q
  <2>2. IsFiniteSet(Numbers) /\ Cardinality(Numbers) = q
    BY <2>1, FS_Interval
  <2> QED BY <2>2 DEF q
<1> DEFINE f == [k \in S |-> b[k]]
<1>6. f \in [S -> Numbers]
  BY <1>1
<1>7. Cardinality(Numbers) < Cardinality(S)
  BY <1>3, <1>4, <1>5, <1>1
<1>8. \A k, l \in S : f[k] = f[l] => k = l
  OBVIOUS
<1> HIDE DEF f, S
<1> QED BY <1>4, <1>5, <1>6, <1>7, <1>8, FS_PigeonHole

\* A disk on which a block is written with what it holds.
LEMMA WrittenSame ==
  ASSUME NEW d \in Disks, NEW n \in Blocks
  PROVE  Written(d, n, d[n]) = d
<1>1. DOMAIN d = Blocks /\ d = [m \in Blocks |-> d[m]]
  BY DEF Disks
<1>2. DOMAIN d \cup {n} = Blocks
  BY <1>1
<1>3. Written(d, n, d[n]) = [m \in Blocks |-> IF m = n THEN d[n] ELSE d[m]]
  BY <1>2 DEF Written
<1>4. [m \in Blocks |-> IF m = n THEN d[n] ELSE d[m]] = [m \in Blocks |-> d[m]]
  OBVIOUS
<1> QED BY <1>1, <1>3, <1>4

\* The next block of the chain is read into memory.
LEMMA NextRead ==
  ASSUME NEW r, NEW G, Layout(G), NEW i \in DOMAIN G, NEW D, NEW k \in Nat, NEW bb, NEW dd,
         Through(r, G, i, D, k, bb, dd), k + 1 \in 1 .. Len(dd), disk \in Disks,
         NEW acc, acc = [r |-> r, block |-> AsData(r.disk[bb[k + 1]])]
  PROVE  GoingOn(acc, G, i, D, k, bb, dd)
<1> DEFINE c == bb[k + 1]
           n == Len(dd)
<1>1. /\ RunOK(disk, r) /\ RunIn(disk, r, Beside(G, i)) /\ r.disk \in Disks
      /\ FileParts(G, i, bb, dd, G[i].size) /\ bb[1] = G[i].blocks[1] /\ Follows(bb, G[i].blocks)
      /\ \A j \in 1 .. k : dd[j] = D[j]
      /\ HoldsData(r.disk, bb, dd)
      /\ \A m \in Blocks : (\A j \in 1 .. Len(bb) : m # bb[j]) => r.disk[m] = disk[m]
  BY DEF Through, RunOK
<1>2. bb \in Seq(Numbers) /\ Len(bb) = n /\ n \in Nat /\ n >= 1
  BY <1>1 DEF FileParts
<1>3. c \in Blocks
  <2>1. c \in Numbers
    BY <1>2
  <2> QED BY <2>1, MaxBlockAssumption DEF Numbers, Blocks
<1>4. r.disk[c] = Data(dd[k + 1], c, r.disk[c].prev, Onward(bb, n, k + 1))
  BY <1>1, <1>2, HoldsDataIs
<1> HIDE DEF c, n
<1>5. r.disk[c].flag = 1 /\ AsData(r.disk[c]) = r.disk[c]
  <2> DEFINE x == dd[k + 1]
             p == r.disk[c].prev
             o == Onward(bb, n, k + 1)
  <2>1. r.disk[c] = Data(x, c, p, o)
    BY <1>4
  <2> HIDE DEF x, p, o
  <2> QED BY <2>1, DataFacts
<1>6. r.disk[c] \in Block
  BY <1>1, <1>3 DEF Disks
<1>7. acc.r = r /\ acc.block = r.disk[c] /\ acc = [r |-> acc.r, block |-> acc.block]
  BY <1>5 DEF c
<1>8. HoldsData(Written(acc.r.disk, c, acc.block), bb, dd)
  BY <1>1, <1>3, <1>7, WrittenSame
<1> QED BY <1>1, <1>5, <1>6, <1>7, <1>8 DEF GoingOn, c, n

\* The loop starts with the first block.
LEMMA LoopStarts ==
  ASSUME NEW G, Ready(G), NEW i \in DOMAIN G, ~G[i].dir, NEW D
  PROVE  /\ Through(Begin, G, i, D, 0, G[i].blocks, G[i].data)
         /\ GoingOn([r |-> Begin, block |-> AsData(disk[disk[i].start])], G, i, D, 0, G[i].blocks, G[i].data)
<1>1. Layout(G) /\ Holds(disk, G) /\ disk \in Disks
  BY DEF Ready, Holds
<1>2. RunOK(disk, Begin) /\ Begin.disk = disk /\ RunIn(disk, Begin, Beside(G, i))
  <2>1. disk \in Beside(G, i) /\ Beside(G, i) \subseteq Disks
    BY <1>1, BesideAround DEF Beside
  <2> QED BY <1>1, <2>1, BeginIn, BeginOK
<1> DEFINE bb == G[i].blocks
           dd == G[i].data
           sz == G[i].size
<1>3. /\ bb \in Seq(Numbers) /\ dd \in Seq(Chunks \cup {Blank}) /\ sz \in 0 .. MaxSize
      /\ Len(bb) = Len(dd) /\ Len(dd) >= 1 /\ sz <= Len(dd) /\ \A k \in 1 .. sz : dd[k] \in Chunks
  BY <1>1, PlaceOf DEF KindOK
<1>4. FileParts(G, i, bb, dd, sz)
  <2>1. \A k, l \in 1 .. Len(bb) : bb[k] = bb[l] => k = l
    BY <1>1 DEF Layout, BlocksOnce
  <2>2. \A k \in 1 .. Len(bb) : bb[k] \notin DOMAIN G
    BY <1>1 DEF Layout, BlocksApart
  <2>3. \A j \in DOMAIN G : j # i => \A k \in 1 .. Len(bb) : \A l \in 1 .. Len(G[j].blocks) : bb[k] # G[j].blocks[l]
    BY <1>1 DEF Layout, BlocksOnce
  <2> QED BY <1>3, <2>1, <2>2, <2>3 DEF FileParts
<1>5. HoldsData(disk, bb, dd) /\ disk[i].start = bb[1]
  BY <1>1, InodeIs DEF Holds, HoldsAt
<1>10. Follows(bb, bb)
  BY <1>3 DEF Follows
<1>6. Through(Begin, G, i, D, 0, bb, dd)
  BY <1>2, <1>3, <1>4, <1>5, <1>10 DEF Through
<1>7. 0 \in Nat /\ 0 + 1 = 1 /\ 0 + 1 \in 1 .. Len(dd)
  BY <1>3
<1> DEFINE acc == [r |-> Begin, block |-> AsData(disk[disk[i].start])]
<1>8. acc = [r |-> Begin, block |-> AsData(Begin.disk[bb[0 + 1]])]
  BY <1>2, <1>5, <1>7
<1> HIDE DEF acc, bb, dd
<1>9. GoingOn(acc, G, i, D, 0, bb, dd)
  BY <1>1, <1>6, <1>7, <1>8, NextRead
<1> QED BY <1>6, <1>9 DEF acc, bb, dd

\* The block in memory is written with its chunk and leads where it led before.
LEMMA ChunkKept ==
  ASSUME host = FALSE, disk \in Disks, NEW G, Layout(G), NEW i \in DOMAIN G, NEW D, NEW k \in Nat,
         NEW bb, NEW dd, NEW acc, GoingOn(acc, G, i, D, k, bb, dd), D[k + 1] \in Chunks,
         NEW p \in Nat, NEW n, n = Onward(bb, Len(dd), k + 1)
  PROVE  Through(Put(acc.r, bb[k + 1], Data(D[k + 1], bb[k + 1], p, n)), G, i, D, k + 1,
                 bb, Replaced(dd, k + 1, D[k + 1]))
<1> DEFINE r == acc.r
           l == k + 1
           c == bb[l]
           x == D[l]
           w == Data(x, c, p, n)
           r2 == Put(r, c, w)
           e == r2.disk
           ee == Replaced(dd, l, x)
           L == Len(dd)
           S == Chunks \cup {Blank}
<1>1. /\ RunOK(disk, r) /\ FileParts(G, i, bb, dd, G[i].size) /\ bb[1] = G[i].blocks[1] /\ Follows(bb, G[i].blocks)
      /\ \A j \in 1 .. k : dd[j] = D[j]
      /\ \A m \in Blocks : (\A j \in 1 .. Len(bb) : m # bb[j]) => r.disk[m] = disk[m]
  BY DEF GoingOn
<1>2. /\ bb \in Seq(Numbers) /\ dd \in Seq(S) /\ Len(bb) = L /\ L \in Nat
      /\ \A j \in 1 .. L : bb[j] \in Blocks /\ bb[j] \in Nat /\ bb[j] # 0 /\ bb[j] \in Numbers
      /\ l \in 1 .. L /\ r.disk \in Disks
      /\ \A j \in 1 .. L : j # l =>
              r.disk[bb[j]] = Data(dd[j], bb[j], r.disk[bb[j]].prev, Onward(bb, L, j))
  <2>1. bb \in Seq(Numbers) /\ dd \in Seq(S) /\ Len(bb) = L /\ L \in Nat
    BY DEF GoingOn, FileParts
  <2>2. /\ \A j \in 1 .. L : bb[j] \in Blocks /\ bb[j] \in Nat /\ bb[j] # 0 /\ bb[j] \in Numbers
        /\ l \in 1 .. L /\ r.disk \in Disks
        /\ \A j \in 1 .. L : j # l =>
             r.disk[bb[j]] = Data(dd[j], bb[j], r.disk[bb[j]].prev, Onward(bb, L, j))
    BY GoingFacts DEF GoingParts
  <2> QED BY <2>1, <2>2
<1>3. x \in Chunks /\ x \in S
  OBVIOUS
<1>4. n \in Nat /\ c \in Nat /\ c \in Blocks
  <2>1. n = IF l < L THEN bb[l + 1] ELSE 0
    BY DEF Onward
  <2>2. l < L => l + 1 \in 1 .. L
    BY <1>2
  <2> HIDE DEF l, L
  <2> QED BY <1>2, <2>1, <2>2
<1>5. ee \in Seq(S) /\ Len(ee) = L
  <2> HIDE DEF S, x, l
  <2> QED BY <1>2, <1>3, ReplacedType
<1>6. \A j \in 1 .. L : ee[j] = IF j = l THEN x ELSE dd[j]
  <2> HIDE DEF S, x, l
  <2> QED BY <1>2, <1>3, ReplacedIs
<1>7. FileParts(G, i, bb, ee, G[i].size)
  <2> DEFINE sz == G[i].size
  <2>1. FileParts(G, i, bb, dd, sz)
    BY <1>1
  <2> HIDE DEF sz, x, l
  <2>2. FileParts(G, i, bb, ee, sz)
    BY <1>2, <1>3, <2>1, ReplacedParts
  <2> QED BY <2>2 DEF sz
<1>8. w \in Block
  <2> HIDE DEF x, c
  <2> QED BY <1>3, <1>4, DataIsBlock
<1> HIDE DEF w
<1>9. RunOK(disk, r2) /\ e = Written(r.disk, c, w) /\ RunIn(disk, r2, Beside(G, i))
  <2>1. RunIn(disk, r, Beside(G, i)) /\ Elsewhere(G, i, c)
    BY <1>1, <1>2, PartElsewhere DEF GoingOn
  <2> HIDE DEF r, c
  <2>2. PutGoes(disk, r, c, w, Beside(G, i))
    BY <1>4, <1>8, <2>1, PutBeside
  <2> QED BY <1>1, <1>4, <1>8, <2>2, PutIs DEF PutGoes
<1>10. e \in Disks /\ e[c] = w /\ \A m \in Blocks : m # c => e[m] = r.disk[m]
  <2> DEFINE d1 == r.disk
  <2>1. d1 \in Disks /\ e = Written(d1, c, w) /\ c \in Blocks
    BY <1>2, <1>4, <1>9
  <2> HIDE DEF c, d1, e
  <2>2. /\ Written(d1, c, w) \in Disks /\ Written(d1, c, w)[c] = w
        /\ \A m \in Blocks : m # c => Written(d1, c, w)[m] = d1[m]
    BY <1>8, <2>1, OneWritten
  <2> QED BY <2>1, <2>2 DEF d1
<1> HIDE DEF r2, ee, e
<1>11. \A a, b \in 1 .. L : bb[a] = bb[b] => a = b
  BY <1>1, <1>2 DEF FileParts
<1>12. ASSUME NEW j \in 1 .. L PROVE e[bb[j]] = Data(ee[j], bb[j], e[bb[j]].prev, Onward(bb, L, j))
  <2>1. CASE j = l
    <3>1. w.prev = p
      <4> HIDE DEF x, c
      <4> QED BY DataFacts DEF w
    <3>2. e[c] = Data(x, c, p, n) /\ ee[l] = x /\ n = Onward(bb, L, l)
      BY <1>2, <1>6, <1>10 DEF w
    <3> QED BY <1>10, <2>1, <3>1, <3>2
  <2>2. CASE j # l
    <3>1. bb[j] # c /\ ee[j] = dd[j]
      BY <1>2, <1>6, <1>11, <2>2
    <3>2. e[bb[j]] = r.disk[bb[j]]
      BY <1>2, <1>10, <3>1
    <3> QED BY <1>2, <2>2, <3>1, <3>2
  <2> QED BY <2>1, <2>2
<1>13. HoldsData(e, bb, ee)
  <2>1. Len(ee) >= 1
    BY <1>2, <1>5
  <2> QED BY <1>2, <1>5, <1>12, <2>1, HoldsDataIs
<1>14. ASSUME NEW m \in Blocks, \A j \in 1 .. Len(bb) : m # bb[j] PROVE e[m] = disk[m]
  <2>1. m # c
    BY <1>2, <1>14
  <2> QED BY <1>1, <1>10, <1>14, <2>1
<1>15. l <= Len(ee) /\ \A j \in 1 .. l : ee[j] = D[j]
  <2> SUFFICES ASSUME NEW j \in 1 .. l PROVE ee[j] = D[j]
    BY <1>2, <1>5
  <2>1. j \in 1 .. L /\ (j # l => j \in 1 .. k)
    BY <1>2
  <2> QED BY <1>1, <1>6, <2>1
<1> HIDE DEF l
<1>16. Through(r2, G, i, D, l, bb, ee)
  BY <1>1, <1>7, <1>9, <1>13, <1>14, <1>15 DEF Through, e
<1> QED BY <1>16 DEF r2, ee, l, w

\* A chain with one block more.
LEMMA LongerParts ==
  ASSUME NEW G, NEW i, NEW bb, NEW dd, NEW sz, FileParts(G, i, bb, dd, sz), NEW f \in Numbers,
         f \notin DOMAIN G, \A j \in 1 .. Len(bb) : f # bb[j],
         \A j \in DOMAIN G : \A k \in 1 .. Len(G[j].blocks) : G[j].blocks[k] # f
  PROVE  FileParts(G, i, Append(bb, f), Append(dd, Blank), sz)
<1> DEFINE b2 == Append(bb, f)
           d2 == Append(dd, Blank)
           S == Chunks \cup {Blank}
           L == Len(dd)
<1>1. /\ bb \in Seq(Numbers) /\ dd \in Seq(S) /\ Len(bb) = L /\ L >= 1 /\ L \in Nat
      /\ sz \in 0 .. MaxSize /\ sz <= L /\ \A k \in 1 .. sz : dd[k] \in Chunks
      /\ \A k, l \in 1 .. L : bb[k] = bb[l] => k = l
      /\ \A k \in 1 .. L : bb[k] \notin DOMAIN G
      /\ \A j \in DOMAIN G : j # i => \A k \in 1 .. L : \A l \in 1 .. Len(G[j].blocks) : bb[k] # G[j].blocks[l]
  BY DEF FileParts
<1>2. Blank \in S
  OBVIOUS
<1>3. /\ b2 \in Seq(Numbers) /\ Len(b2) = L + 1 /\ b2[L + 1] = f /\ \A k \in 1 .. L : b2[k] = bb[k]
  BY <1>1
<1>4. /\ d2 \in Seq(S) /\ Len(d2) = L + 1 /\ \A k \in 1 .. L : d2[k] = dd[k]
  <2> HIDE DEF S
  <2> QED BY <1>1, <1>2
<1> HIDE DEF b2, d2
<1>5. \A k \in 1 .. L + 1 : k # L + 1 => k \in 1 .. L
  BY <1>1
<1>6. \A k \in 1 .. sz : k \in 1 .. L
  BY <1>1, SizesAssumption
<1>7. \A k \in 1 .. sz : d2[k] \in Chunks
  BY <1>1, <1>4, <1>6
<1>8. \A k \in 1 .. L + 1 : b2[k] \notin DOMAIN G
  BY <1>1, <1>3, <1>5
<1>9. \A k, l \in 1 .. L + 1 : b2[k] = b2[l] => k = l
  <2> SUFFICES ASSUME NEW k \in 1 .. L + 1, NEW l \in 1 .. L + 1, b2[k] = b2[l] PROVE k = l
    OBVIOUS
  <2>1. CASE k = L + 1 /\ l = L + 1
    BY <2>1
  <2>2. CASE k = L + 1 /\ l # L + 1
    BY <1>1, <1>3, <1>5, <2>2
  <2>3. CASE k # L + 1 /\ l = L + 1
    BY <1>1, <1>3, <1>5, <2>3
  <2>4. CASE k # L + 1 /\ l # L + 1
    BY <1>1, <1>3, <1>5, <2>4
  <2> QED BY <2>1, <2>2, <2>3, <2>4
<1>10. ASSUME NEW j \in DOMAIN G, j # i, NEW k \in 1 .. L + 1, NEW l \in 1 .. Len(G[j].blocks)
       PROVE  b2[k] # G[j].blocks[l]
  BY <1>1, <1>3, <1>5, <1>10
<1>11. L + 1 >= 1 /\ sz <= L + 1
  BY <1>1, SizesAssumption
<1>12. FileParts(G, i, b2, d2, sz)
  BY <1>1, <1>3, <1>4, <1>7, <1>8, <1>9, <1>10, <1>11 DEF FileParts
<1> QED BY <1>12 DEF b2, d2

\* The run r1 is r with the block f taken.
TakenIn(r, r1, f) ==
  r.disk[f].flag = 0 /\ r1 = Put(r, f, Taken) /\ RunOK(disk, r1) /\ r1.disk = Written(r.disk, f, Taken)

\* The last block of the chain is written with its chunk and leads to a new one, which is in memory.
LEMMA ChunkAdded ==
  ASSUME host = FALSE, disk \in Disks, NEW G, Layout(G), Holds(disk, G), NEW i \in DOMAIN G, NEW D,
         NEW k \in Nat, NEW bb, NEW dd, NEW acc, GoingOn(acc, G, i, D, k, bb, dd), D[k + 1] \in Chunks,
         NEW p \in Nat, Len(dd) <= k + 1, NEW f \in Numbers, NEW r1, TakenIn(acc.r, r1, f)
  PROVE  GoingOn([r |-> Put(r1, bb[k + 1], Data(D[k + 1], bb[k + 1], p, f)),
                  block |-> Data(Blank, f, bb[k + 1], 0)],
                 G, i, D, k + 1, Append(bb, f), Append(Replaced(dd, k + 1, D[k + 1]), Blank))
<1>0. /\ bb \in Seq(Numbers) /\ dd \in Seq(Chunks \cup {Blank}) /\ Len(bb) = Len(dd) /\ Len(dd) \in Nat
      /\ \A j \in 1 .. Len(dd) : bb[j] \in Blocks /\ bb[j] \in Nat /\ bb[j] # 0 /\ bb[j] \in Numbers
      /\ k + 1 \in 1 .. Len(dd) /\ acc.r.disk \in Disks
      /\ \A j \in 1 .. Len(dd) : j # k + 1 =>
           acc.r.disk[bb[j]] = Data(dd[j], bb[j], acc.r.disk[bb[j]].prev, Onward(bb, Len(dd), j))
  BY GoingFacts DEF GoingParts
<1> DEFINE r == acc.r
           l == k + 1
           c == bb[l]
           x == D[l]
           w == Data(x, c, p, f)
           u == Data(Blank, f, c, 0)
           r2 == Put(r1, c, w)
           e == r2.disk
           d2 == Replaced(dd, l, x)
           bb2 == Append(bb, f)
           ee == Append(d2, Blank)
           L == Len(dd)
           S == Chunks \cup {Blank}
           acc2 == [r |-> r2, block |-> u]
<1>1. /\ RunOK(disk, r) /\ FileParts(G, i, bb, dd, G[i].size) /\ bb[1] = G[i].blocks[1] /\ Follows(bb, G[i].blocks)
      /\ \A j \in 1 .. k : dd[j] = D[j]
      /\ \A m \in Blocks : (\A j \in 1 .. Len(bb) : m # bb[j]) => r.disk[m] = disk[m]
      /\ r.disk[c].flag # 0
  BY DEF GoingOn
<1>2. /\ bb \in Seq(Numbers) /\ dd \in Seq(S) /\ Len(bb) = L /\ L \in Nat
      /\ \A j \in 1 .. L : bb[j] \in Blocks /\ bb[j] \in Nat /\ bb[j] # 0 /\ bb[j] \in Numbers
      /\ l \in 1 .. L /\ r.disk \in Disks
      /\ \A j \in 1 .. L : j # l =>
              r.disk[bb[j]] = Data(dd[j], bb[j], r.disk[bb[j]].prev, Onward(bb, L, j))
  BY <1>0
<1>3. x \in Chunks /\ x \in S /\ Blank \in S
  OBVIOUS
<1>4. l = L
  BY <1>2
<1>5. f \in Nat /\ f \in Blocks /\ c \in Nat /\ c \in Blocks /\ c # 0 /\ f # 0
  <2>1. f \in Nat /\ f \in Blocks /\ f # 0
    BY MaxBlockAssumption DEF Numbers, Blocks
  <2>2. c \in Nat /\ c \in Blocks /\ c # 0
    BY <1>2
  <2> HIDE DEF c
  <2> QED BY <2>1, <2>2
<1>6. d2 \in Seq(S) /\ Len(d2) = L
  <2> HIDE DEF S, x, l
  <2>1. dd \in Seq(S) /\ l \in 1 .. Len(dd)
    BY <1>2
  <2> QED BY <1>3, <2>1, ReplacedType
<1>7. \A j \in 1 .. L : d2[j] = IF j = l THEN x ELSE dd[j]
  <2> HIDE DEF S, x, l
  <2> QED BY <1>2, <1>3, ReplacedIs
<1>8. /\ bb2 \in Seq(Numbers) /\ Len(bb2) = L + 1 /\ bb2[L + 1] = f /\ \A j \in 1 .. L : bb2[j] = bb[j]
  BY <1>2
<1>9. /\ Len(ee) = L + 1 /\ ee[L + 1] = Blank /\ \A j \in 1 .. L : ee[j] = d2[j]
  <2> HIDE DEF S, d2
  <2> QED BY <1>2, <1>6
<1>10. r.disk[f].flag = 0 /\ r1 = Put(r, f, Taken) /\ RunOK(disk, r1) /\ r1.disk = Written(r.disk, f, Taken)
  BY DEF TakenIn
<1>11. \A j \in 1 .. L : f # bb[j]
  <2> SUFFICES ASSUME NEW j \in 1 .. L PROVE r.disk[bb[j]].flag # 0
    BY <1>10
  <2>1. CASE j = l
    BY <1>1, <2>1
  <2>2. CASE j # l
    <3> DEFINE y == dd[j]
               a == bb[j]
               q == r.disk[bb[j]].prev
               o == Onward(bb, L, j)
    <3>1. r.disk[bb[j]] = Data(y, a, q, o)
      BY <1>2, <2>2
    <3> HIDE DEF y, a, q, o
    <3> QED BY <3>1, DataFacts
  <2> QED BY <2>1, <2>2
<1>12. f \notin DOMAIN G /\ \A j \in DOMAIN G : \A m \in 1 .. Len(G[j].blocks) : G[j].blocks[m] # f
  <2>1. r.disk[f] = disk[f]
    BY <1>1, <1>2, <1>5, <1>11
  <2>2. f \notin DOMAIN G /\ \A j \in DOMAIN G : f \notin UsedBy(G[j], j)
    BY <1>10, <2>1, FreeIsFresh
  <2> QED BY <2>2, UsedIs
<1>13. w \in Block /\ u \in Block /\ w.prev = p /\ u.prev = c
  <2>1. 0 \in Nat /\ x \in Chunks \cup {Blank} /\ Blank \in Chunks \cup {Blank}
    BY <1>3
  <2> HIDE DEF x, c
  <2>2. w \in Block
    BY <1>5, <2>1, DataIsBlock
  <2>3. u \in Block
    BY <1>5, <2>1, DataIsBlock
  <2> QED BY <2>2, <2>3, DataFacts
<1> HIDE DEF w, u
<1>14. RunOK(disk, r2) /\ e = Written(r1.disk, c, w) /\ RunIn(disk, r2, Beside(G, i))
  <2>1. c \in Blocks /\ w \in Block
    BY <1>5, <1>13
  <2>2. RunOK(disk, r1) /\ r1 = Put(r, f, Taken)
    BY <1>10
  <2>3. RunIn(disk, r, Beside(G, i)) /\ Elsewhere(G, i, c) /\ Elsewhere(G, i, f)
    <3>1. Elsewhere(G, i, c)
      BY <1>1, <1>2, PartElsewhere
    <3> QED BY <1>12, <3>1 DEF Elsewhere, GoingOn
  <2> HIDE DEF r, c
  <2>4. PutGoes(disk, r, f, Taken, Beside(G, i))
    BY <1>5, <2>3, FlagIsBlock, PutBeside
  <2>5. RunIn(disk, r1, Beside(G, i))
    BY <2>2, <2>4 DEF PutGoes
  <2>6. PutGoes(disk, r1, c, w, Beside(G, i))
    BY <2>1, <2>3, <2>5, PutBeside
  <2> QED BY <2>1, <2>2, <2>6, PutIs DEF PutGoes
<1>15. /\ e \in Disks /\ e[c] = w /\ e[f] = Taken
       /\ \A m \in Blocks : m # c /\ m # f => e[m] = r.disk[m]
  <2> HIDE DEF c, e
  <2>1. r1.disk \in Disks /\ Taken \in Block
    BY <1>10, FlagIsBlock DEF RunOK
  <2>2. r1.disk[f] = Taken /\ \A m \in Blocks : m # f => r1.disk[m] = r.disk[m]
    BY <1>2, <1>5, <1>10, <2>1, OneWritten
  <2>3. e \in Disks /\ e[c] = w /\ \A m \in Blocks : m # c => e[m] = r1.disk[m]
    <3> DEFINE d1 == r1.disk
    <3>1. d1 \in Disks /\ e = Written(d1, c, w)
      BY <1>14, <2>1
    <3> HIDE DEF d1
    <3>2. c \in Blocks /\ w \in Block
      BY <1>13, <1>5
    <3> HIDE DEF e
    <3>3. /\ Written(d1, c, w) \in Disks /\ Written(d1, c, w)[c] = w
          /\ \A m \in Blocks : m # c => Written(d1, c, w)[m] = d1[m]
      BY <3>1, <3>2, OneWritten
    <3> QED BY <3>1, <3>3 DEF d1
  <2>4. f # c
    BY <1>2, <1>11 DEF c
  <2> QED BY <1>5, <2>2, <2>3, <2>4
<1> HIDE DEF r2, e
<1> DEFINE g == Written(e, f, u)
<1>16. g[f] = u /\ \A m \in Blocks : m # f => g[m] = e[m]
  BY <1>5, <1>13, <1>15, OneWritten
<1> HIDE DEF g
<1>17. \A a, b \in 1 .. L : bb[a] = bb[b] => a = b
  BY <1>1, <1>2 DEF FileParts
<1> HIDE DEF d2, ee, bb2
<1>18. ASSUME NEW j \in 1 .. L + 1
       PROVE  g[bb2[j]] = Data(ee[j], bb2[j], g[bb2[j]].prev, Onward(bb2, L + 1, j))
  <2>1. CASE j = L + 1
    <3>1. Onward(bb2, L + 1, j) = 0
      BY <1>2, <2>1 DEF Onward
    <3> QED BY <1>8, <1>9, <1>13, <1>16, <2>1, <3>1 DEF u
  <2>2. CASE j = L
    <3>1. Onward(bb2, L + 1, j) = f
      BY <1>2, <1>8, <2>2 DEF Onward
    <3>2. bb2[j] = c /\ ee[j] = x /\ c # f
      BY <1>2, <1>4, <1>7, <1>8, <1>9, <1>11, <2>2
    <3>3. g[c] = w
      BY <1>5, <1>15, <1>16, <3>2
    <3> QED BY <1>13, <3>1, <3>2, <3>3 DEF w
  <2>3. CASE j \in 1 .. L /\ j # L
    <3>1. j + 1 \in 1 .. L /\ Onward(bb2, L + 1, j) = bb2[j + 1] /\ Onward(bb, L, j) = bb[j + 1]
      BY <1>2, <2>3 DEF Onward
    <3>2. bb2[j + 1] = bb[j + 1] /\ bb2[j] = bb[j] /\ ee[j] = dd[j]
      BY <1>4, <1>7, <1>8, <1>9, <2>3, <3>1
    <3>3. bb[j] # c /\ bb[j] # f
      BY <1>2, <1>4, <1>11, <1>17, <2>3
    <3>4. g[bb[j]] = r.disk[bb[j]]
      BY <1>2, <1>15, <1>16, <2>3, <3>3
    <3> QED BY <1>2, <1>4, <2>3, <3>1, <3>2, <3>4
  <2> QED BY <1>2, <2>1, <2>2, <2>3
<1>19. HoldsData(g, bb2, ee)
  <2>1. Len(ee) >= 1 /\ Len(ee) \in Nat
    BY <1>2, <1>9
  <2> QED BY <1>9, <1>18, <2>1, HoldsDataIs
<1>20. FileParts(G, i, bb2, ee, G[i].size)
  <2> DEFINE sz == G[i].size
  <2>1. FileParts(G, i, bb, dd, sz)
    BY <1>1
  <2> HIDE DEF sz, x, l
  <2>2. FileParts(G, i, bb, d2, sz)
    BY <1>2, <1>3, <2>1, ReplacedParts DEF d2
  <2>3. FileParts(G, i, bb2, ee, sz)
    BY <1>2, <1>11, <1>12, <2>2, LongerParts DEF bb2, ee
  <2> QED BY <2>3 DEF sz
<1>21. ASSUME NEW m \in Blocks, \A j \in 1 .. Len(bb2) : m # bb2[j] PROVE e[m] = disk[m]
  <2>1. m # f /\ \A j \in 1 .. L : m # bb[j]
    <3>1. L + 1 \in 1 .. Len(bb2) /\ \A j \in 1 .. L : j \in 1 .. Len(bb2)
      BY <1>2, <1>8
    <3> QED BY <1>8, <1>21, <3>1
  <2>2. m # c
    BY <1>2, <2>1
  <2> QED BY <1>1, <1>2, <1>15, <1>21, <2>1, <2>2
<1>22. \A j \in 1 .. l : ee[j] = D[j]
  <2> SUFFICES ASSUME NEW j \in 1 .. l PROVE ee[j] = D[j]
    OBVIOUS
  <2>1. j \in 1 .. L /\ (j # l => j \in 1 .. k)
    BY <1>2, <1>4
  <2> QED BY <1>1, <1>7, <1>9, <2>1
<1>23. l + 1 \in 1 .. Len(ee) /\ bb2[l + 1] = f /\ bb2[1] = bb[1]
  <2>1. L + 1 \in 1 .. L + 1 /\ 1 \in 1 .. L
    BY <1>2
  <2> QED BY <1>4, <1>8, <1>9, <2>1
<1>29. Follows(bb2, G[i].blocks)
  <2> DEFINE b == G[i].blocks
  <2>1. b \in Seq(Numbers) /\ Follows(bb, b)
    BY <1>1, PlaceOf
  <2> HIDE DEF b
  <2>2. Len(b) \in Nat /\ Len(b) <= L
    BY <1>2, <2>1 DEF Follows
  <2>3. \A j \in 1 .. Len(b) : j \in 1 .. L /\ bb2[j] = b[j]
    BY <1>2, <1>8, <2>1, <2>2 DEF Follows
  <2>4. Len(b) <= Len(bb2)
    BY <1>2, <1>8, <2>2
  <2>5. Follows(bb2, b)
    BY <2>3, <2>4 DEF Follows
  <2> QED BY <2>5 DEF b
<1>24. e[f].flag # 0
  BY <1>15 DEF Taken
<1>25. acc2.r = r2 /\ acc2.block = u /\ acc2 = [r |-> acc2.r, block |-> acc2.block]
  OBVIOUS
<1> HIDE DEF acc2
<1>26. acc2.r.disk = e
  BY <1>25 DEF e
<1>27. HoldsData(Written(acc2.r.disk, bb2[l + 1], acc2.block), bb2, ee)
  BY <1>19, <1>23, <1>25, <1>26 DEF g
<1> HIDE DEF l
<1>28. GoingOn(acc2, G, i, D, l, bb2, ee)
  BY <1>1, <1>13, <1>14, <1>20, <1>21, <1>22, <1>23, <1>24, <1>25, <1>26, <1>27, <1>29 DEF GoingOn
<1> QED BY <1>28 DEF acc2, r2, u, w, bb2, ee, d2, l

\* A chain that leads to a block which the disk does not have.
LEMMA ChainOver ==
  ASSUME NEW e \in Disks, NEW s \in Seq(Nat), Len(s) \in 1 .. MAX_BLOCK, s[Len(s)] = MAX_BLOCK,
         \A k \in 1 .. Len(s) - 1 : s[k] \in Blocks /\ s[k + 1] # 0 /\ AsData(e[s[k]]) = e[s[k]] /\ e[s[k]].next = s[k + 1]
  PROVE  Last(DataBlocks(e, s[1])) = MAX_BLOCK
<1> DEFINE on == {n \in DOMAIN e : AsData(e[n]).next # 0}
<1>1. MAX_BLOCK \in Nat /\ DOMAIN e = Blocks /\ MAX_BLOCK \notin Blocks
  BY MaxBlockAssumption DEF Disks, Blocks
<1>4. ASSUME NEW k \in 1 .. Len(s) - 1 PROVE s[k] \in on /\ e[s[k]].next = s[k + 1]
  BY <1>1
<1>3. s[Len(s)] \notin on /\ Len(s) \in 1 .. MAX_BLOCK + 1
  BY <1>1
<1> HIDE DEF on
<1>5. Along(e, s[1], on) = s
  BY <1>3, <1>4, AlongIs, SMTT(60)
<1>6. DataBlocks(e, s[1]) = s
  BY <1>5 DEF DataBlocks, on
<1> QED BY <1>6 DEF Last

\* There is no block for the next one of the chain.
LEMMA ChunkOver ==
  ASSUME host = FALSE, disk \in Disks, NEW G, NEW i, NEW D,
         NEW k \in Nat, NEW bb, NEW dd, NEW acc, GoingOn(acc, G, i, D, k, bb, dd), D[k + 1] \in Chunks,
         NEW p \in Nat, Len(dd) <= k + 1, \A n \in Numbers : acc.r.disk[n].flag # 0
  PROVE  Over(Put(acc.r, bb[k + 1], Data(D[k + 1], bb[k + 1], p, MAX_BLOCK)), G, i)
<1> DEFINE r == acc.r
           l == k + 1
           c == bb[l]
           x == D[l]
           w == Data(x, c, p, MAX_BLOCK)
           r2 == Put(r, c, w)
           e == r2.disk
           d2 == Replaced(dd, l, x)
           s == Append(bb, MAX_BLOCK)
           L == Len(dd)
           S == Chunks \cup {Blank}
<1>1. /\ RunOK(disk, r) /\ FileParts(G, i, bb, dd, G[i].size) /\ bb[1] = G[i].blocks[1] /\ Follows(bb, G[i].blocks)
  BY DEF GoingOn
<1>2. /\ bb \in Seq(Numbers) /\ dd \in Seq(S) /\ Len(bb) = L /\ L \in Nat
      /\ \A j \in 1 .. L : bb[j] \in Blocks /\ bb[j] \in Nat /\ bb[j] # 0 /\ bb[j] \in Numbers
      /\ l \in 1 .. L /\ r.disk \in Disks
      /\ \A j \in 1 .. L : j # l =>
              r.disk[bb[j]] = Data(dd[j], bb[j], r.disk[bb[j]].prev, Onward(bb, L, j))
  BY GoingFacts DEF GoingParts
<1>3. x \in Chunks /\ x \in S
  OBVIOUS
<1>4. l = L
  BY <1>2
<1>5. c \in Nat /\ c \in Blocks /\ MAX_BLOCK \in Nat
  BY <1>2, MaxBlockAssumption
<1>6. d2 \in Seq(S) /\ Len(d2) = L
  <2> HIDE DEF S, x, l
  <2> QED BY <1>2, <1>3, ReplacedType
<1>7. \A j \in 1 .. L : d2[j] = IF j = l THEN x ELSE dd[j]
  <2> HIDE DEF S, x, l
  <2> QED BY <1>2, <1>3, ReplacedIs
<1>8. w \in Block /\ w.prev = p /\ w.flag = 1
  <2>1. x \in Chunks \cup {Blank}
    BY <1>3
  <2> HIDE DEF x, c
  <2> QED BY <1>5, <2>1, DataIsBlock, DataFacts
<1> HIDE DEF w
<1>9. RunOK(disk, r2) /\ e = Written(r.disk, c, w)
  <2>1. c \in Blocks /\ w \in Block
    BY <1>5, <1>8
  <2> HIDE DEF r, c
  <2> QED BY <1>1, <2>1, PutIs
<1>10. e \in Disks /\ e[c] = w /\ \A m \in Blocks : m # c => e[m] = r.disk[m]
  <2> DEFINE d1 == r.disk
  <2>1. d1 \in Disks /\ e = Written(d1, c, w) /\ c \in Blocks /\ w \in Block
    BY <1>2, <1>5, <1>8, <1>9
  <2> HIDE DEF c, d1, e
  <2>2. /\ Written(d1, c, w) \in Disks /\ Written(d1, c, w)[c] = w
        /\ \A m \in Blocks : m # c => Written(d1, c, w)[m] = d1[m]
    BY <2>1, OneWritten
  <2> QED BY <2>1, <2>2 DEF d1
<1> HIDE DEF r2, e
<1>11. \A m \in Numbers : e[m].flag # 0
  <2>1. \A m \in Numbers : m \in Blocks
    BY MaxBlockAssumption DEF Numbers, Blocks
  <2> QED BY <1>8, <1>10, <2>1
<1>12. FirstFree(r2) = MAX_BLOCK
  <2>1. FirstFree(r2) = MAX_BLOCK \/ (FirstFree(r2) \in Numbers /\ r2.disk[FirstFree(r2)].flag = 0)
    BY <1>9, DallocIs
  <2> QED BY <1>11, <2>1 DEF e
<1>13. \A a, b \in 1 .. L : bb[a] = bb[b] => a = b
  BY <1>1, <1>2 DEF FileParts
<1>14. Len(s) = L + 1 /\ s[L + 1] = MAX_BLOCK /\ \A j \in 1 .. L : s[j] = bb[j]
  BY <1>2, MaxBlockAssumption
<1> HIDE DEF d2, s
<1>15. ASSUME NEW j \in 1 .. L PROVE e[bb[j]] = Data(d2[j], bb[j], e[bb[j]].prev, s[j + 1])
  <2>1. CASE j = l
    <3>1. e[c] = Data(x, c, p, MAX_BLOCK) /\ d2[l] = x /\ s[l + 1] = MAX_BLOCK /\ e[c].prev = p
      BY <1>2, <1>4, <1>7, <1>8, <1>10, <1>14 DEF w
    <3> QED BY <2>1, <3>1
  <2>2. CASE j # l
    <3>1. j + 1 \in 1 .. L /\ Onward(bb, L, j) = bb[j + 1]
      BY <1>2, <1>4, <2>2 DEF Onward
    <3>2. bb[j] # c /\ d2[j] = dd[j] /\ s[j + 1] = bb[j + 1]
      BY <1>2, <1>7, <1>13, <1>14, <2>2, <3>1
    <3>3. e[bb[j]] = r.disk[bb[j]]
      BY <1>2, <1>10, <3>2
    <3> QED BY <1>2, <2>2, <3>1, <3>2, <3>3
  <2> QED BY <2>1, <2>2
<1>16. Last(DataBlocks(e, bb[1])) = MAX_BLOCK
  <2>1. s \in Seq(Nat)
    <3>1. bb \in Seq(Nat)
      BY <1>2
    <3> QED BY <3>1, MaxBlockAssumption DEF s
  <2>2. L >= 1 /\ L < MAX_BLOCK /\ Len(s) = L + 1 /\ s[L + 1] = MAX_BLOCK /\ s[1] = bb[1]
    BY <1>2, <1>13, <1>14, OnceBound
  <2>3. ASSUME NEW j \in 1 .. L
        PROVE  s[j] \in Blocks /\ s[j + 1] # 0 /\ AsData(e[s[j]]) = e[s[j]] /\ e[s[j]].next = s[j + 1]
    <3>1. s[j + 1] # 0
      <4>1. CASE j = L
        BY <1>14, <4>1, MaxBlockAssumption
      <4>2. CASE j # L
        <5>1. j + 1 \in 1 .. L
          BY <1>2, <4>2
        <5> QED BY <1>2, <1>14, <5>1
      <4> QED BY <4>1, <4>2
    <3> DEFINE y == d2[j]
               a == bb[j]
               q == e[bb[j]].prev
               o == s[j + 1]
    <3>2. e[a] = Data(y, a, q, o) /\ s[j] = a /\ a \in Blocks
      BY <1>2, <1>14, <1>15
    <3> HIDE DEF y, q, o, a
    <3>3. AsData(e[a]) = e[a] /\ e[a].next = o
      BY <3>2, DataFacts
    <3> QED BY <3>1, <3>2, <3>3 DEF o
  <2>5. Len(s) \in 1 .. MAX_BLOCK /\ s[Len(s)] = MAX_BLOCK /\ \A j \in 1 .. Len(s) - 1 : j \in 1 .. L
    BY <1>2, <2>2, MaxBlockAssumption
  <2>6. \A j \in 1 .. Len(s) - 1 :
          s[j] \in Blocks /\ s[j + 1] # 0 /\ AsData(e[s[j]]) = e[s[j]] /\ e[s[j]].next = s[j + 1]
    BY <2>3, <2>5
  <2> HIDE DEF L
  <2>4. Last(DataBlocks(e, s[1])) = MAX_BLOCK
    BY <1>10, <2>1, <2>5, <2>6, ChainOver
  <2> QED BY <2>2, <2>4
<1>17. Over(r2, G, i)
  BY <1>1, <1>9, <1>12, <1>16 DEF Over, e
<1> QED BY <1>17 DEF r2, w

\* What is true of the loop after k turns, and when it is through.
GoesOn(acc, G, i, D, k) == (\E bb, dd : GoingOn(acc, G, i, D, k, bb, dd)) \/ OverIn(acc, G, i)
Ended(r, G, i, D) == (\E bb, dd : Through(r, G, i, D, Len(D), bb, dd)) \/ Over(r, G, i)
Turned(acc, G, i, D, k) == IF k = Len(D) THEN Ended(acc.r, G, i, D) ELSE GoesOn(acc, G, i, D, k)

\* A turn without a block to write to.
LEMMA OverTurn ==
  ASSUME host = FALSE, disk \in Disks, NEW G, NEW i, NEW D, NEW l, NEW acc, OverIn(acc, G, i)
  PROVE  Turned(WriteChunk(acc, D, l), G, i, D, l)
<1>1. PICK x, p : acc = [r |-> acc.r, block |-> Data(x, MAX_BLOCK, p, 0)]
  BY DEF OverIn
<1>2. Over(acc.r, G, i) /\ RunOK(disk, acc.r) /\ FirstFree(acc.r) = MAX_BLOCK
  BY DEF OverIn, Over
<1> DEFINE r == acc.r
           y == D[l]
           w == Data(y, MAX_BLOCK, p, 0)
           more == Data(y, MAX_BLOCK, p, FirstFree(r))
           next == WriteChunk(acc, D, l)
<1>3. acc = [r |-> r, block |-> Data(x, MAX_BLOCK, p, 0)]
  BY <1>1
<1>4. Dalloc(r) = r /\ MAX_BLOCK \notin Blocks
  BY <1>2, DallocIs
<1> HIDE DEF r
<1>5. /\ l = Len(D) => next.r = Put(r, MAX_BLOCK, w)
      /\ l # Len(D) => next = [r |-> Put(Dalloc(r), MAX_BLOCK, more), block |-> Data(Blank, FirstFree(r), MAX_BLOCK, 0)]
  BY <1>3, ChunkIs
<1> HIDE DEF next, w, more
<1>6. Put(r, MAX_BLOCK, w) = r /\ Put(r, MAX_BLOCK, more) = r
  BY <1>4, PutNot
<1>7. CASE l = Len(D)
  BY <1>2, <1>5, <1>6, <1>7 DEF Turned, Ended, next, r
<1>8. CASE l # Len(D)
  <2>1. next = [r |-> r, block |-> Data(Blank, MAX_BLOCK, MAX_BLOCK, 0)]
    BY <1>2, <1>4, <1>5, <1>6, <1>8 DEF r
  <2>2. next.r = r /\ next = [r |-> next.r, block |-> Data(Blank, MAX_BLOCK, MAX_BLOCK, 0)]
    BY <2>1
  <2>3. OverIn(next, G, i)
    BY <1>2, <2>2 DEF OverIn, r
  <2> QED BY <1>8, <2>3 DEF Turned, GoesOn, next
<1> QED BY <1>7, <1>8

\* A turn with a block.
LEMMA GoingTurn ==
  ASSUME host = FALSE, disk \in Disks, NEW G, Layout(G), Holds(disk, G), NEW i \in DOMAIN G, NEW D \in Seq(Chunks),
         NEW k \in Nat, k + 1 \in 1 .. Len(D), NEW acc, NEW bb, NEW dd, GoingOn(acc, G, i, D, k, bb, dd)
  PROVE  Turned(WriteChunk(acc, D, k + 1), G, i, D, k + 1)
<1> DEFINE r == acc.r
           l == k + 1
           c == bb[l]
           x == D[l]
           n == Onward(bb, Len(dd), l)
           f == FirstFree(r)
           r1 == Dalloc(r)
           next == WriteChunk(acc, D, l)
           L == Len(dd)
           ee == Replaced(dd, l, x)
<1>1. PICK p \in Nat : acc = [r |-> r, block |-> Data(dd[l], c, p, n)]
  BY GoingFacts DEF GoingParts
<1>2. /\ Len(bb) = L /\ L \in Nat /\ l \in 1 .. L
      /\ \A j \in 1 .. L : bb[j] \in Blocks /\ bb[j] \in Nat /\ bb[j] # 0 /\ bb[j] \in Numbers
  BY GoingFacts DEF GoingParts
<1>3. x \in Chunks
  OBVIOUS
<1>4. RunOK(disk, r)
  BY DEF GoingOn
<1>5. /\ l < L => n = bb[l + 1] /\ l + 1 \in 1 .. L
      /\ ~(l < L) => n = 0 /\ L <= l
  BY <1>2 DEF Onward
<1>6. n = 0 <=> ~(l < L)
  BY <1>2, <1>5
<1> DEFINE wn == Data(x, c, p, n)
           wf == Data(x, c, p, f)
           y == dd[l]
<1>7. /\ l = Len(D) => next.r = Put(r, c, wn)
      /\ l # Len(D) /\ n = 0 => next = [r |-> Put(r1, c, wf), block |-> Data(Blank, f, c, 0)]
      /\ l # Len(D) /\ n # 0 => next = [r |-> Put(r, c, wn), block |-> ReadNext(Put(r, c, wn), n, wn)]
  <2>1. acc = [r |-> r, block |-> Data(y, c, p, n)]
    BY <1>1
  <2> HIDE DEF y, r, c, n, l
  <2> QED BY <2>1, ChunkIs
<1>8. Through(Put(r, c, wn), G, i, D, l, bb, ee)
  <2> HIDE DEF n
  <2>1. n = Onward(bb, Len(dd), k + 1)
    BY DEF n
  <2> QED BY <1>3, <2>1, ChunkKept
<1> HIDE DEF n, f, r1, next, ee, wn
<1>9. CASE l = Len(D)
  <2>1. Through(next.r, G, i, D, Len(D), bb, ee)
    BY <1>7, <1>8, <1>9
  <2> QED BY <1>9, <2>1 DEF Turned, Ended, next
<1>10. CASE l # Len(D) /\ n # 0
  <2> DEFINE r2 == Put(r, c, wn)
  <2>1. RunOK(disk, r2) /\ r2.disk \in Disks
    BY <1>8 DEF Through, RunOK
  <2>2. n = bb[l + 1] /\ l + 1 \in 1 .. L /\ n \in Blocks
    BY <1>2, <1>5, <1>6, <1>10
  <2>3. ReadNext(r2, n, wn) = AsData(r2.disk[bb[l + 1]])
    BY <2>1, <2>2 DEF ReadNext, Disks
  <2>4. next = [r |-> r2, block |-> AsData(r2.disk[bb[l + 1]])]
    BY <1>7, <1>10, <2>3
  <2>5. l \in Nat /\ l + 1 \in 1 .. Len(ee)
    <3>1. Len(ee) = L
      <4> DEFINE A == Chunks \cup {Blank}
      <4>1. dd \in Seq(A) /\ x \in A
        BY <1>3, GoingFacts DEF GoingParts
      <4> HIDE DEF A, x, l
      <4> QED BY <1>2, <4>1, ReplacedType DEF ee
    <3> QED BY <1>2, <2>2, <3>1
  <2>6. Through(r2, G, i, D, l, bb, ee)
    BY <1>8
  <2> HIDE DEF r2, l
  <2>7. GoingOn(next, G, i, D, l, bb, ee)
    BY <2>4, <2>5, <2>6, NextRead
  <2> QED BY <1>10, <2>7 DEF Turned, GoesOn, next, l
<1>11. CASE l # Len(D) /\ n = 0
  <2>1. L <= l
    BY <1>5, <1>6, <1>11
  <2>2. next = [r |-> Put(r1, c, wf), block |-> Data(Blank, f, c, 0)]
    BY <1>7, <1>11
  <2>3. \/ f = MAX_BLOCK /\ r1 = r /\ \A m \in Numbers : r.disk[m].flag # 0
        \/ f \in Numbers /\ TakenIn(r, r1, f)
    BY <1>4, DallocIs DEF f, r1, TakenIn
  <2>4. CASE f \in Numbers /\ TakenIn(r, r1, f)
    <3> DEFINE b2 == Append(bb, f)
               d2 == Append(ee, Blank)
    <3>1. GoingOn(next, G, i, D, l, b2, d2)
      BY <1>3, <2>1, <2>2, <2>4, ChunkAdded DEF ee
    <3> HIDE DEF b2, d2, l
    <3> QED BY <1>11, <3>1 DEF Turned, GoesOn, next, l
  <2>5. CASE f = MAX_BLOCK /\ r1 = r /\ \A m \in Numbers : r.disk[m].flag # 0
    <3>1. Over(Put(r, c, Data(x, c, p, MAX_BLOCK)), G, i)
      BY <1>3, <2>1, <2>5, ChunkOver
    <3> DEFINE r2 == Put(r1, c, wf)
    <3>2. Over(r2, G, i)
      BY <2>5, <3>1
    <3>3. next.r = r2 /\ next = [r |-> next.r, block |-> Data(Blank, MAX_BLOCK, c, 0)]
      <4> HIDE DEF r2
      <4> QED BY <2>2, <2>5 DEF r2
    <3> HIDE DEF r2, l, c
    <3>4. OverIn(next, G, i)
      BY <3>2, <3>3 DEF OverIn
    <3> QED BY <1>11, <3>4 DEF Turned, GoesOn, next, l
  <2> QED BY <2>3, <2>4, <2>5
<1> QED BY <1>9, <1>10, <1>11

-----------------------------------------------------------------------------
(***************************************************************************)
(* fs_write() and fs_read()                                                *)
(***************************************************************************)

\* The loop of fs_write() ends with everything written, or without a block to write to.
LEMMA LoopEnds ==
  ASSUME NEW G, Ready(G), NEW i \in DOMAIN G, ~G[i].dir, NEW D \in Seq(Chunks)
  PROVE  Ended(WriteData(disk[i], D).r, G, i, D)
<1> DEFINE n == Len(D)
           Start == [r |-> Begin, block |-> AsData(disk[disk[i].start])]
           P(m, f) == f = [k \in 0 .. m |-> IF k = 0 THEN Start ELSE WriteChunk(f[k - 1], D, k)]
           acc == CHOOSE f : P(n, f)
<1>0. n \in Nat
  OBVIOUS
<1>1. WriteData(disk[i], D) = acc[n]
  BY DEF WriteData
<1>2. host = FALSE /\ Layout(G) /\ Holds(disk, G) /\ disk \in Disks
  BY DEF Ready, Holds
<1>3. Turned(Start, G, i, D, 0)
  <2>1. /\ Through(Begin, G, i, D, 0, G[i].blocks, G[i].data)
        /\ GoingOn(Start, G, i, D, 0, G[i].blocks, G[i].data)
    BY LoopStarts
  <2>2. Start.r = Begin
    OBVIOUS
  <2> HIDE DEF Start, n
  <2>3. CASE 0 = Len(D)
    BY <2>1, <2>2, <2>3 DEF Turned, Ended
  <2>4. CASE 0 # Len(D)
    BY <2>1, <2>4 DEF Turned, GoesOn
  <2> QED BY <2>3, <2>4
<1> HIDE DEF Start
<1>4. \E f : P(n, f)
  <2> DEFINE H == {m \in 0 .. n : \E f : P(m, f)}
  <2>1. 0 \in H
    <3>1. P(0, [k \in 0 .. 0 |-> Start]) /\ 0 \in 0 .. n
      BY <1>0
    <3> HIDE DEF P, n
    <3> QED BY <3>1
  <2>2. ASSUME NEW m \in 1 .. n, m - 1 \in H PROVE m \in H
    <3>1. PICK f : P(m - 1, f)
      BY <2>2
    <3> DEFINE g == [k \in 0 .. m |-> IF k = m THEN WriteChunk(f[m - 1], D, m) ELSE f[k]]
    <3>2. m \in 0 .. n /\ m # 0 /\ m \in 0 .. m /\ \A k \in 0 .. m : k # m => k \in 0 .. m - 1
      BY <1>0
    <3>3. g[m] = WriteChunk(f[m - 1], D, m) /\ \A k \in 0 .. m - 1 : g[k] = f[k]
      BY <1>0
    <3>4. \A k \in 0 .. m - 1 : f[k] = IF k = 0 THEN Start ELSE WriteChunk(f[k - 1], D, k)
      <4> HIDE DEF n
      <4> QED BY <3>1
    <3>5. \A k \in 0 .. m : g[k] = IF k = 0 THEN Start ELSE WriteChunk(g[k - 1], D, k)
      <4>1. \A k \in 0 .. m : k # 0 => k - 1 \in 0 .. m - 1
        BY <1>0
      <4> HIDE DEF g
      <4> QED BY <3>2, <3>3, <3>4, <4>1
    <3>6. g = [k \in 0 .. m |-> g[k]]
      OBVIOUS
    <3> HIDE DEF g
    <3>7. P(m, g)
      BY <3>5, <3>6
    <3> HIDE DEF P, n
    <3> QED BY <3>2, <3>7
  <2>3. \A m \in 0 .. n : m \in H
    <3> HIDE DEF H, n
    <3> QED BY <1>0, <2>1, <2>2, Climbs
  <2>4. n \in H
    <3> HIDE DEF H
    <3> QED BY <2>3, <1>0
  <2> HIDE DEF P
  <2> QED BY <2>4
<1>5. P(n, acc)
  BY <1>4
<1> HIDE DEF acc, n
<1>6. \A k \in 0 .. n : acc[k] = IF k = 0 THEN Start ELSE WriteChunk(acc[k - 1], D, k)
  BY <1>5
<1>7. \A k \in 0 .. n : Turned(acc[k], G, i, D, k)
  <2> DEFINE H == {k \in 0 .. n : Turned(acc[k], G, i, D, k)}
  <2>1. 0 \in H
    <3>1. 0 \in 0 .. n
      BY <1>0
    <3> QED BY <1>3, <1>6, <3>1
  <2>2. ASSUME NEW k \in 1 .. n, k - 1 \in H PROVE k \in H
    <3> DEFINE l == k - 1
               a == acc[l]
    <3>1. k \in 0 .. n /\ k # 0 /\ l \in Nat /\ l + 1 = k /\ l + 1 \in 1 .. n /\ l # n
      BY <1>0
    <3>2. acc[k] = WriteChunk(a, D, k)
      BY <1>6, <3>1
    <3>3. GoesOn(a, G, i, D, l)
      BY <2>2, <3>1 DEF Turned, n
    <3> HIDE DEF a, l
    <3>4. Turned(WriteChunk(a, D, k), G, i, D, k)
      <4>1. CASE OverIn(a, G, i)
        BY <1>2, <4>1, OverTurn
      <4>2. CASE \E bb, dd : GoingOn(a, G, i, D, l, bb, dd)
        <5>1. PICK bb, dd : GoingOn(a, G, i, D, l, bb, dd)
          BY <4>2
        <5>2. l \in Nat /\ l + 1 \in 1 .. Len(D)
          BY <3>1 DEF n
        <5>3. Turned(WriteChunk(a, D, l + 1), G, i, D, l + 1)
          BY <1>2, <5>1, <5>2, GoingTurn
        <5> QED BY <3>1, <5>3
      <4> QED BY <3>3, <4>1, <4>2 DEF GoesOn
    <3> QED BY <3>1, <3>2, <3>4
  <2>3. \A k \in 0 .. n : k \in H
    <3> HIDE DEF H
    <3> QED BY <1>0, <2>1, <2>2, Climbs
  <2> QED BY <2>3
<1>8. Turned(acc[n], G, i, D, n)
  BY <1>0, <1>7
<1> QED BY <1>1, <1>8 DEF Turned, n

\* A file that is rewritten loses no block.
LEMMA FileSpills ==
  ASSUME NEW G, NEW i \in DOMAIN G, NEW bb, NEW dd, NEW sz, NEW H, IsFileLayout(H, G, i, bb, dd, sz),
         NEW f, FileWritten(f, disk, G, i, bb, dd, sz), DOMAIN disk = Blocks, Follows(bb, G[i].blocks),
         Len(G[i].blocks) \in Nat, Len(bb) \in Nat
  PROVE  Spills(f, G, H, {})
<1>1. DOMAIN H = DOMAIN G /\ H[i].blocks = bb /\ \A j \in DOMAIN G : j # i => H[j] = G[j]
  BY DEF IsFileLayout
<1>2. BlocksOf(G[i]) \subseteq BlocksOf(H[i]) /\ \A k \in 1 .. Len(bb) : bb[k] \in BlocksOf(H[i])
  <2>1. \A j \in 1 .. Len(G[i].blocks) : j \in 1 .. Len(bb) /\ bb[j] = G[i].blocks[j]
    BY DEF Follows
  <2> QED BY <1>1, <2>1 DEF BlocksOf
<1>3. Owned(G) \subseteq Owned(H)
  <2> SUFFICES ASSUME NEW j \in DOMAIN G, NEW n \in {0, j} \cup BlocksOf(G[j]) PROVE n \in Owned(H)
    BY DEF Owned
  <2>1. j \in DOMAIN H /\ BlocksOf(G[j]) \subseteq BlocksOf(H[j])
    BY <1>1, <1>2
  <2> QED BY <2>1 DEF Owned
<1>4. i \in Owned(H) /\ \A k \in 1 .. Len(bb) : bb[k] \in Owned(H)
  BY <1>1, <1>2 DEF Owned
<1>5. DOMAIN f = Blocks /\ \A m \in Blocks : m # i /\ (\A k \in 1 .. Len(bb) : m # bb[k]) => f[m] = disk[m]
  BY DEF FileWritten, Disks
<1> QED BY <1>3, <1>4, <1>5 DEF Spills, Flagged

\* fs_write() of a file does what is promised.
LEMMA FileWrittenDoes ==
  ASSUME NEW G, Ready(G), NEW i \in DOMAIN G, ~G[i].dir, NEW D \in Contents, NEW r, NEW bb, NEW dd,
         Through(r, G, i, D, Len(D), bb, dd), NEW size, size = [disk[i] EXCEPT !.size = Len(D)],
         NEW c, c = "write", Return(c, 0, D, Put(r, size.addr, size))
  PROVE  /\ After(WithContent(goal.objects, i, D)) /\ call' = Result(c, 0, D) /\ Loses({})
         /\ Careful(c)
<1> DEFINE n == Len(D)
           g == Rewritten(G[i], bb, dd, n)
           b == InodeOf(g, i)
           r2 == Put(r, i, b)
           f == r2.disk
           H == WithData(G, i, bb, dd, n)
<1>1. host = FALSE /\ Layout(G) /\ Holds(disk, G) /\ goal.objects = ObjectsOf(G) /\ goal.objects = Objects(disk)
  BY ObjectsIs DEF Ready
<1>2. D \in Seq(Chunks) /\ n \in 0 .. MaxSize /\ n \in Nat
  BY ContentType
<1>3. /\ RunOK(disk, r) /\ r.disk \in Disks /\ FileParts(G, i, bb, dd, G[i].size)
      /\ bb[1] = G[i].blocks[1] /\ Follows(bb, G[i].blocks)
      /\ n <= Len(dd) /\ \A j \in 1 .. n : dd[j] = D[j]
      /\ HoldsData(r.disk, bb, dd)
      /\ \A m \in Blocks : (\A j \in 1 .. Len(bb) : m # bb[j]) => r.disk[m] = disk[m]
  BY DEF Through, RunOK
<1>4. /\ dd \in Seq(Chunks \cup {Blank}) /\ Len(dd) \in Nat /\ Len(dd) >= 1 /\ Len(bb) = Len(dd)
      /\ bb \in Seq(Numbers) /\ \A k \in 1 .. Len(bb) : bb[k] \notin DOMAIN G
  BY <1>3 DEF FileParts
<1>5. FileParts(G, i, bb, dd, n)
  <2>1. \A k \in 1 .. n : dd[k] \in Chunks
    BY <1>2, <1>3
  <2> HIDE DEF n
  <2> QED BY <1>2, <1>3, <2>1 DEF FileParts
<1>6. SubSeq(dd, 1, n) = D
  <2> DEFINE s == SubSeq(dd, 1, n)
             A == Chunks \cup {Blank}
  <2>1. s \in Seq(A) /\ Len(s) = n /\ \A k \in 1 .. n : s[k] = dd[k]
    BY <1>2, <1>3, <1>4
  <2>2. D \in Seq(A)
    BY <1>2
  <2> HIDE DEF s, A
  <2>3. s = D
    BY <1>3, <2>1, <2>2, SeqEqual
  <2> QED BY <2>3 DEF s
<1>7. disk[i] = InodeOf(G[i], i)
  BY <1>1 DEF Holds, HoldsAt
<1>8. size = b /\ size.addr = i
  <2>1. size = [InodeOf(G[i], i) EXCEPT !.size = n]
    BY <1>7
  <2> HIDE DEF n
  <2> QED BY <1>3, <2>1 DEF InodeOf, Rewritten
<1>9. i \in Blocks /\ i \in Nat /\ b \in Block
  <2>1. /\ i \in Blocks /\ i \in Nat /\ G[i].dir \in BOOLEAN /\ G[i].name \in Names \cup {NoName}
        /\ G[i].parent \in DOMAIN G /\ G[i].blocks[1] \in Numbers
    BY <1>1, PlaceOf
  <2>2. G[i].parent \in Nat /\ G[i].blocks[1] \in Nat
    <3>1. G[i].parent \in Nat
      BY <1>1, <2>1, PlaceOf
    <3>2. G[i].blocks[1] \in Nat
      BY <2>1, MaxBlockAssumption DEF Numbers
    <3> QED BY <3>1, <3>2
  <2> HIDE DEF n
  <2> QED BY <1>2, <1>3, <2>1, <2>2 DEF Block, InodeOf, Rewritten
<1>10. Return(c, 0, D, r2)
  BY <1>8
<1>20. b.kind = "inode" /\ ~b.isDirectory
  BY DEF InodeOf, Rewritten
<1> HIDE DEF b
<1>11. RunOK(disk, r2) /\ f = Written(r.disk, i, b)
  <2> HIDE DEF f
  <2> QED BY <1>1, <1>3, <1>9, PutIs DEF f
<1>21. RunIn(disk, r2, Around(G, i))
  <2> DEFINE S == Around(G, i)
  <2>1. Beside(G, i) \subseteq S /\ S \subseteq Disks
    BY <1>1, BesideAround DEF Around
  <2>2. RunIn(disk, r, Beside(G, i))
    BY DEF Through
  <2>3. RunIn(disk, r, S) /\ r.disk \in S
    <3> HIDE DEF S
    <3> QED BY <2>1, <2>2, RunMore, RunHere
  <2>4. /\ Written(r.disk, i, b) \in Disks /\ Written(r.disk, i, b)[i] = b
        /\ \A m \in Blocks : m # i => Written(r.disk, i, b)[m] = r.disk[m]
    BY <1>3, <1>9, OneWritten
  <2>5. Written(r.disk, i, b) \in S
    <3> DEFINE e == Written(r.disk, i, b)
    <3>1. e \in Disks /\ e[i] = b /\ \A m \in Blocks : m # i => e[m] = r.disk[m]
      BY <2>4
    <3> HIDE DEF e
    <3>2. ASSUME NEW j \in DOMAIN G, j # i PROVE ShowsAt(e, G[j], j)
      <4>1. r.disk \in Beside(G, i)
        BY <2>2, RunHere
      <4>2. HoldsAt(r.disk, G[j], j)
        <5>1. ASSUME NEW m \in UsedBy(G[j], j) PROVE r.disk[m] = disk[m]
          <6>1. m = j \/ \E k \in 1 .. Len(G[j].blocks) : m = G[j].blocks[k]
            BY DEF UsedBy, BlocksOf
          <6> QED BY <3>2, <4>1, <6>1 DEF Beside
        <5>2. HoldsAt(disk, G[j], j)
          BY <1>1 DEF Holds
        <5> QED BY <1>1, <5>1, <5>2, HoldsAtFrame
      <4>3. ASSUME NEW m \in UsedBy(G[j], j) PROVE e[m] = r.disk[m]
        <5>1. m = j \/ \E k \in 1 .. Len(G[j].blocks) : m = G[j].blocks[k]
          BY DEF UsedBy, BlocksOf
        <5>2. m \in Blocks /\ m # i
          <6>1. CASE m = j
            BY <1>1, <3>2, <6>1, PlaceOf
          <6>2. CASE \E k \in 1 .. Len(G[j].blocks) : m = G[j].blocks[k]
            BY <1>1, <6>2, BlockAt
          <6> QED BY <5>1, <6>1, <6>2
        <5> QED BY <3>1, <5>2
      <4>4. HoldsAt(e, G[j], j)
        BY <1>1, <4>2, <4>3, HoldsAtFrame
      <4>5. G[j].dir \in BOOLEAN
        BY <1>1, PlaceOf
      <4> QED BY <4>4, <4>5, HoldsShows
    <3>3. e \in S
      BY <1>20, <3>1, <3>2 DEF Around
    <3> QED BY <3>3 DEF e
  <2> HIDE DEF S
  <2>6. PutGoes(disk, r, i, b, S)
    BY <1>1, <1>9, <2>3, <2>5, PutIn
  <2> QED BY <2>6 DEF PutGoes, r2, S
<1>12. f \in Disks /\ f[i] = b /\ \A m \in Blocks : m # i => f[m] = r.disk[m]
  BY <1>3, <1>9, <1>11, OneWritten
<1> HIDE DEF f, r2
<1>13. FileWritten(f, disk, G, i, bb, dd, n)
  <2>1. \A k \in 1 .. Len(bb) : f[bb[k]] = r.disk[bb[k]]
    <3>1. \A k \in 1 .. Len(bb) : bb[k] \in Blocks /\ bb[k] # i
      BY <1>4, MaxBlockAssumption DEF Numbers, Blocks
    <3> QED BY <1>12, <3>1
  <2>2. HoldsData(f, bb, dd)
    <3>1. \A k \in 1 .. Len(dd) : r.disk[bb[k]] = Data(dd[k], bb[k], r.disk[bb[k]].prev, Onward(bb, Len(dd), k))
      BY <1>3, <1>4, HoldsDataIs
    <3>2. \A k \in 1 .. Len(dd) : f[bb[k]] = Data(dd[k], bb[k], f[bb[k]].prev, Onward(bb, Len(dd), k))
      BY <1>4, <2>1, <3>1
    <3> QED BY <1>4, <3>2, HoldsDataIs
  <2>3. \A m \in Blocks : m # i /\ (\A k \in 1 .. Len(bb) : m # bb[k]) => f[m] = disk[m]
    BY <1>3, <1>12
  <2> HIDE DEF n
  <2> QED BY <1>12, <2>2, <2>3 DEF FileWritten, b
<1>14. IsFileLayout(H, G, i, bb, dd, n)
  <2> HIDE DEF n
  <2> QED BY FileFacts
<1> HIDE DEF H, n
<1>15. Layout(H)
  BY <1>1, <1>5, <1>14, FileLayout
<1>16. Holds(f, H)
  BY <1>1, <1>5, <1>13, <1>14, FileHolds
<1>17. ObjectsOf(H) = WithContent(goal.objects, i, D)
  <2> DEFINE s == SubSeq(dd, 1, n)
  <2>1. ObjectsOf(H) = WithContent(ObjectsOf(G), i, s)
    BY <1>14, FileObjects
  <2>2. s = D
    BY <1>6
  <2> HIDE DEF s
  <2> QED BY <1>1, <2>1, <2>2
<1>18. After(ObjectsOf(H)) /\ call' = Result(c, 0, D) /\ goal'.lost = LostBlocks(f)
  <2>1. goal.lost = LostBlocks(disk)
    BY DEF Ready
  <2> QED BY <1>1, <1>10, <1>11, <1>15, <1>16, <2>1, ReturnLeads DEF f
<1>19. Loses({})
  <2>1. DOMAIN disk = Blocks /\ Len(G[i].blocks) \in Nat /\ Len(bb) \in Nat
    BY <1>1, <1>4, PlaceOf DEF Holds, Disks
  <2>2. Spills(f, G, H, {})
    BY <1>3, <1>13, <1>14, <2>1, FileSpills
  <2> QED BY <1>15, <1>16, <1>18, <2>2, SpillsLose
<1>22. Careful(c)
  <2> DEFINE obj == ObjectsOf(H)
  <2>1. DOMAIN obj = DOMAIN G /\ \A j \in DOMAIN G : j # i => obj[j] = ObjectOf(G[j])
    BY <1>14 DEF ObjectsOf, IsFileLayout
  <2> HIDE DEF obj
  <2>2. Spares(obj, G, i, i, c)
    BY <2>1 DEF Spares, ObjectOf
  <2>3. Around(G, i) \subseteq Sparing(obj, c)
    BY <1>1, <2>2, AroundSpares
  <2>4. goal'.objects = obj
    BY <1>18 DEF After, obj
  <2>5. Sparing(obj, c) \subseteq Disks
    BY DEF Sparing
  <2>6. RunIn(disk, r2, Sparing(obj, c))
    BY <1>21, <2>3, <2>5, RunMore
  <2> QED BY <1>10, <2>4, <2>6, ReturnSpares
<1> QED BY <1>17, <1>18, <1>19, <1>22

\* fs_write() keeps the tree and does what DirectoryTree promises.
LEMMA WriteDoes ==
  ASSUME Calm, NEW G, Ready(G), NEW path \in Paths, NEW D \in Contents, FsWrite(path, D)
  PROVE  Done("write") /\ Promise!Write(path, D)
<1> DEFINE at == FindInode(disk, path)
<1>1. Straight(path) /\ path \in Seq(Names)
  BY PathType DEF FsWrite, Called, Calm
<1>2. \/ at.st = "lost"
      \/ at.st # "lost" /\ ~IsFile(at) /\ Return("write", -1, <<>>, Begin)
      \/ /\ IsFile(at) /\ Last(DataBlocks(WriteData(at.inode, D).r.disk, at.inode.start)) \in Blocks
         /\ Return("write", 0, D, Put(WriteData(at.inode, D).r, [at.inode EXCEPT !.size = Len(D)].addr,
                                      [at.inode EXCEPT !.size = Len(D)]))
  BY DEF FsWrite, Calm
<1>3. CASE ~IsFile(at)
  <2>1. at.st # "lost" /\ Promise!File(path) = {}
    BY <1>1, <1>3, FoundIs
  <2>2. After(goal.objects) /\ call' = Result("write", -1, <<>>) /\ Loses({}) /\ Careful("write")
    BY <1>2, <1>3, <2>1, ReturnAtOnce
  <2>3. Done("write")
    BY <2>2, ContentType, DoneIs
  <2>4. Promise!Refuse("write", -1)
    BY <2>2 DEF Promise!Refuse, Promise!Result, Result, After
  <2> QED BY <2>1, <2>3, <2>4 DEF Promise!Write
<1>4. CASE IsFile(at)
  <2>1. at.st # "lost" /\ \E i \in DOMAIN G : at.inode = disk[i] /\ ~G[i].dir /\ Promise!File(path) = {i}
    BY <1>1, <1>4, FoundIs
  <2>2. PICK i \in DOMAIN G : at.inode = disk[i] /\ ~G[i].dir /\ Promise!File(path) = {i}
    BY <2>1
  <2> DEFINE r == WriteData(disk[i], D).r
             size == [disk[i] EXCEPT !.size = Len(D)]
  <2>3. Last(DataBlocks(r.disk, disk[i].start)) \in Blocks /\ Return("write", 0, D, Put(r, size.addr, size))
    BY <1>2, <1>4, <2>1, <2>2
  <2>4. disk[i].start = G[i].blocks[1]
    BY InodeIs DEF Ready, Holds
  <2>5. D \in Seq(Chunks)
    BY ContentType
  <2>6. Ended(r, G, i, D)
    BY <2>2, <2>5, LoopEnds
  <2> HIDE DEF r
  <2>7. \E bb, dd : Through(r, G, i, D, Len(D), bb, dd)
    <3>1. ~Over(r, G, i)
      BY <2>3, <2>4, MaxBlockAssumption DEF Over, Blocks
    <3> QED BY <2>6, <3>1 DEF Ended
  <2>8. PICK bb, dd : Through(r, G, i, D, Len(D), bb, dd)
    BY <2>7
  <2>9. size = [disk[i] EXCEPT !.size = Len(D)] /\ Return("write", 0, D, Put(r, size.addr, size))
    BY <2>3
  <2> HIDE DEF size
  <2>10. After(WithContent(goal.objects, i, D)) /\ call' = Result("write", 0, D) /\ Loses({}) /\ Careful("write")
    BY <2>2, <2>8, <2>9, FileWrittenDoes
  <2>11. Done("write")
    BY <2>10, DoneIs
  <2>12. goal'.objects = WithContent(goal.objects, i, D) /\ call' = Promise!Result("write", 0, D)
    BY <2>10 DEF After, Promise!Result, Result
  <2> QED BY <2>2, <2>11, <2>12 DEF Promise!Write, WithContent
<1> QED BY <1>3, <1>4

-----------------------------------------------------------------------------
(***************************************************************************)
(* fs_rm() frees the data                                                  *)
(***************************************************************************)
\* What a file holds is something that a call can read.
LEMMA ContentOf ==
  ASSUME NEW G, Layout(G), NEW i \in DOMAIN G, ~G[i].dir
  PROVE  SubSeq(G[i].data, 1, G[i].size) \in Contents
<1> DEFINE N == G[i].size
           s == G[i].data
           u == SubSeq(s, 1, N)
           A == Chunks \cup {Blank}
<1>1. /\ s \in Seq(A) /\ N \in 0 .. MaxSize /\ MaxSize \in Nat
      /\ N <= Len(s) /\ \A k \in 1 .. N : s[k] \in Chunks
  BY PlaceOf, SizesAssumption DEF KindOK
<1> HIDE DEF s, N, A
<1>2. N \in Nat
  BY <1>1
<1>3. u \in Seq(A) /\ Len(u) = N /\ \A k \in 1 .. N : u[k] = s[k]
  BY <1>1, <1>2
<1> HIDE DEF u
<1>4. u \in Seq(Chunks)
  <2>1. u = [k \in 1 .. N |-> u[k]]
    BY <1>3
  <2>2. \A k \in 1 .. N : u[k] \in Chunks
    BY <1>1, <1>3
  <2>3. u \in [1 .. N -> Chunks]
    BY <2>1, <2>2
  <2> QED BY <1>2, <2>3
<1>5. u \in Contents
  BY <1>1, <1>3, <1>4, ContentType
<1> QED BY <1>5 DEF u, s, N

\* fs_read() does what is promised.
LEMMA ReadDoes ==
  ASSUME Calm, NEW G, Ready(G), NEW path \in Paths, FsRead(path)
  PROVE  Done("read") /\ Promise!Read(path)
<1> DEFINE at == FindInode(disk, path)
<1>1. Straight(path) /\ path \in Seq(Names)
  BY PathType DEF FsRead, Called, Calm
<1>2. \/ at.st = "lost"
      \/ at.st # "lost" /\ ~IsFile(at) /\ Return("read", -1, <<>>, Begin)
      \/ IsFile(at) /\ Return("read", 0, ReadAll(disk, at.inode), Begin)
  BY DEF FsRead
<1>3. CASE ~IsFile(at)
  <2>1. at.st # "lost" /\ Promise!File(path) = {}
    BY <1>1, <1>3, FoundIs
  <2>2. After(goal.objects) /\ call' = Result("read", -1, <<>>) /\ Loses({}) /\ Careful("read")
    BY <1>2, <1>3, <2>1, ReturnAtOnce
  <2>3. Done("read")
    BY <2>2, ContentType, DoneIs
  <2>4. Promise!Refuse("read", -1)
    BY <2>2 DEF Promise!Refuse, Promise!Result, Result, After
  <2> QED BY <1>3, <2>1, <2>3, <2>4 DEF Promise!Read
<1>4. CASE IsFile(at)
  <2>1. at.st # "lost" /\ \E i \in DOMAIN G : at.inode = disk[i] /\ ~G[i].dir /\ Promise!File(path) = {i}
    BY <1>1, <1>4, FoundIs
  <2>2. PICK i \in DOMAIN G : at.inode = disk[i] /\ ~G[i].dir /\ Promise!File(path) = {i}
    BY <2>1
  <2>3. Layout(G) /\ DOMAIN disk = Blocks /\ HoldsAt(disk, G[i], i) /\ goal.objects = ObjectsOf(G)
    BY DEF Ready, Holds, Disks
  <2> DEFINE out == ReadAll(disk, disk[i])
  <2>4. out = SubSeq(G[i].data, 1, G[i].size)
    BY <2>2, <2>3, ReadAllIs
  <2>5. out \in Contents
    BY <2>2, <2>3, <2>4, ContentOf
  <2>6. out = goal.objects[i].data
    BY <2>3, <2>4 DEF ObjectsOf, ObjectOf
  <2>7. Return("read", 0, out, Begin)
    BY <1>2, <1>4, <2>1, <2>2
  <2> HIDE DEF out
  <2>8. After(goal.objects) /\ call' = Result("read", 0, out) /\ Loses({}) /\ Careful("read")
    BY <2>7, ReturnAtOnce
  <2>9. Done("read")
    BY <2>5, <2>8, DoneIs
  <2>10. goal'.objects = goal.objects /\ call' = Promise!Result("read", 0, goal.objects[i].data)
    BY <2>6, <2>8 DEF After, Promise!Result, Result
  <2>11. i \in Promise!File(path)
    BY <2>2
  <2> QED BY <2>9, <2>10, <2>11 DEF Promise!Read
<1> QED BY <1>3, <1>4

-----------------------------------------------------------------------------
\* The call has written nothing but blocks that the inode i leads to.
Within(r, G, i) ==
  /\ RunOK(disk, r) /\ RunIn(disk, r, Beside(G, i))
  /\ \A m \in Blocks : (\A k \in 1 .. Len(G[i].blocks) : m # G[i].blocks[k]) => r.disk[m] = disk[m]

\* A call that has written nothing has written nothing else.
LEMMA WithinBegin ==
  ASSUME disk \in Disks, NEW G, NEW i
  PROVE  Within(Begin, G, i)
<1>1. RunOK(disk, Begin) /\ Begin.disk = disk
  BY BeginOK
<1>2. disk \in Beside(G, i) /\ Beside(G, i) \subseteq Disks
  BY DEF Beside
<1>3. RunIn(disk, Begin, Beside(G, i))
  BY <1>2, BeginIn
<1> QED BY <1>1, <1>3 DEF Within

\* The run r2 is r with the block n freed.
FreedIn(r, r2, n) == r2.disk[n] = Zero /\ \A m \in Blocks : m # n => r2.disk[m] = r.disk[m]

\* One more of them freed.
LEMMA WithinFreed ==
  ASSUME host = FALSE, NEW G, Layout(G), NEW i \in DOMAIN G, NEW r, Within(r, G, i),
         NEW k \in 1 .. Len(G[i].blocks), NEW r2, r2 = Put(r, G[i].blocks[k], Zero)
  PROVE  Within(r2, G, i) /\ FreedIn(r, r2, G[i].blocks[k])
<1> DEFINE n == G[i].blocks[k]
           z == Zero
<1>1. n \in Blocks /\ z \in Block
  BY BlockAt, FlagIsBlock
<1>2. RunOK(disk, r) /\ r.disk \in Disks
      /\ \A m \in Blocks : (\A l \in 1 .. Len(G[i].blocks) : m # G[i].blocks[l]) => r.disk[m] = disk[m]
  BY DEF Within, RunOK
<1> HIDE DEF z
<1>6. r2 = Put(r, n, z)
  BY DEF z
<1>3. RunOK(disk, r2) /\ r2.disk = Written(r.disk, n, z)
  <2> HIDE DEF n
  <2> QED BY <1>1, <1>2, <1>6, PutIs
<1>4. r2.disk[n] = z /\ \A m \in Blocks : m # n => r2.disk[m] = r.disk[m]
  BY <1>1, <1>2, <1>3, OneWritten
<1>7. Elsewhere(G, i, n)
  <2>1. n \notin DOMAIN G
    BY BlockAt
  <2>2. ASSUME NEW j \in DOMAIN G, j # i, NEW l \in 1 .. Len(G[j].blocks) PROVE G[j].blocks[l] # n
    BY <2>2 DEF Layout, BlocksOnce
  <2> QED BY <2>1, <2>2 DEF Elsewhere
<1>8. RunIn(disk, r2, Beside(G, i))
  <2>1. RunIn(disk, r, Beside(G, i))
    BY DEF Within
  <2> HIDE DEF n
  <2>2. PutGoes(disk, r, n, z, Beside(G, i))
    BY <1>1, <1>7, <2>1, PutBeside
  <2> QED BY <1>6, <2>2 DEF PutGoes
<1>5. Within(r2, G, i)
  BY <1>2, <1>3, <1>4, <1>8 DEF Within
<1> QED BY <1>4, <1>5 DEF FreedIn, z

\* fs_rm() frees the data of a file.
LEMMA FreeDataIs ==
  ASSUME NEW G, Ready(G), NEW i \in DOMAIN G, ~G[i].dir
  PROVE  /\ Within(FreeData(Begin, disk[i].start), G, i)
         /\ \A l \in 1 .. Len(G[i].blocks) : FreeData(Begin, disk[i].start).disk[G[i].blocks[l]] = Zero
<1> DEFINE b == G[i].blocks
           n == Len(b)
           Free(r1, x) == IF x.flag = 0 THEN r1 ELSE Dfree(r1, AsData(x).addr)
           P(m, f) == f = [k \in 0 .. m |-> IF k = 0 THEN Begin ELSE Free(f[k - 1], disk[b[k]])]
           acc == CHOOSE f : P(n, f)
<1>0. /\ host = FALSE /\ Layout(G) /\ Holds(disk, G) /\ disk \in Disks /\ DOMAIN disk = Blocks
      /\ HoldsAt(disk, G[i], i)
  BY DEF Ready, Holds, Disks
<1>1. n \in Nat /\ n >= 1 /\ n = Len(G[i].data) /\ HoldsData(disk, b, G[i].data)
  BY <1>0, PlaceOf DEF KindOK, HoldsAt
<1>2. Begin.disk = disk /\ Within(Begin, G, i)
  BY <1>0, BeginOK, WithinBegin
<1>3. FreeData(Begin, disk[i].start) = acc[n]
  <2>1. disk[i].start = b[1] /\ DataBlocks(disk, b[1]) = b
    BY <1>0, InodeIs, DataBlocksIs
  <2>2. Last(b) \in DOMAIN disk
    <3>1. n \in 1 .. Len(b)
      BY <1>1
    <3>2. b[n] \in Blocks
      <4>1. b \in Seq(Numbers)
        BY <1>0, PlaceOf
      <4>2. b[n] \in Numbers
        BY <1>1, <4>1
      <4> QED BY <4>2, MaxBlockAssumption DEF Numbers, Blocks
    <3> QED BY <1>0, <3>2 DEF Last
  <2> QED BY <1>2, <2>1, <2>2 DEF FreeData
<1>4. ASSUME NEW k \in 1 .. n, NEW r PROVE Free(r, disk[b[k]]) = Put(r, b[k], Zero)
  <2>1. disk[b[k]] = Data(G[i].data[k], b[k], disk[b[k]].prev, IF k = n THEN 0 ELSE b[k + 1])
    <3>1. k # n => k \in 1 .. Len(G[i].data) - 1
      BY <1>1
    <3> QED BY <1>1, <3>1 DEF HoldsData
  <2> DEFINE x == G[i].data[k]
             a == b[k]
             q == disk[b[k]].prev
             o == IF k = n THEN 0 ELSE b[k + 1]
             B == disk[b[k]]
  <2>2. B = Data(x, a, q, o)
    BY <2>1
  <2> HIDE DEF x, a, q, o, B
  <2>3. B.flag = 1 /\ B.kind = "data" /\ B.addr = a
    BY <2>2 DEF Data
  <2>4. Free(r, B) = Put(r, a, Zero)
    BY <2>3 DEF Dfree, AsData
  <2> QED BY <2>4 DEF B, a
<1> HIDE DEF Free
<1>5. \E f : P(n, f)
  <2> DEFINE K == {m \in 0 .. n : \E f : P(m, f)}
  <2>1. 0 \in K
    <3>1. P(0, [k \in 0 .. 0 |-> Begin]) /\ 0 \in 0 .. n
      BY <1>1
    <3> HIDE DEF P, n
    <3> QED BY <3>1
  <2>2. ASSUME NEW m \in 1 .. n, m - 1 \in K PROVE m \in K
    <3>1. PICK f : P(m - 1, f)
      BY <2>2
    <3> DEFINE g == [k \in 0 .. m |-> IF k = m THEN Free(f[m - 1], disk[b[m]]) ELSE f[k]]
    <3>2. m \in 0 .. n /\ m # 0 /\ m \in 0 .. m /\ \A k \in 0 .. m : k # m => k \in 0 .. m - 1
      BY <1>1
    <3>3. g[m] = Free(f[m - 1], disk[b[m]]) /\ \A k \in 0 .. m - 1 : g[k] = f[k]
      BY <1>1
    <3>4. \A k \in 0 .. m - 1 : f[k] = IF k = 0 THEN Begin ELSE Free(f[k - 1], disk[b[k]])
      <4> HIDE DEF n
      <4> QED BY <3>1
    <3>5. \A k \in 0 .. m : g[k] = IF k = 0 THEN Begin ELSE Free(g[k - 1], disk[b[k]])
      <4>1. \A k \in 0 .. m : k # 0 => k - 1 \in 0 .. m - 1
        BY <1>1
      <4> HIDE DEF g
      <4> QED BY <3>2, <3>3, <3>4, <4>1
    <3>6. g = [k \in 0 .. m |-> g[k]]
      OBVIOUS
    <3> HIDE DEF g
    <3>7. P(m, g)
      BY <3>5, <3>6
    <3> HIDE DEF P, n
    <3> QED BY <3>2, <3>7
  <2>3. \A m \in 0 .. n : m \in K
    <3> HIDE DEF K, n
    <3> QED BY <1>1, <2>1, <2>2, Climbs
  <2>4. n \in K
    <3> HIDE DEF K
    <3> QED BY <2>3, <1>1
  <2> HIDE DEF P
  <2> QED BY <2>4
<1>6. P(n, acc)
  BY <1>5
<1> HIDE DEF acc
<1>7. \A k \in 0 .. n : acc[k] = IF k = 0 THEN Begin ELSE Free(acc[k - 1], disk[b[k]])
  <2> HIDE DEF n
  <2> QED BY <1>6
<1> DEFINE Freed(r, k) == Within(r, G, i) /\ \A l \in 1 .. k : r.disk[b[l]] = Zero
<1>8. \A k \in 0 .. n : Freed(acc[k], k)
  <2> DEFINE K == {k \in 0 .. n : Freed(acc[k], k)}
  <2>1. 0 \in K
    <3>1. 0 \in 0 .. n
      BY <1>1
    <3> QED BY <1>2, <1>7, <3>1
  <2>2. ASSUME NEW k \in 1 .. n, k - 1 \in K PROVE k \in K
    <3>1. k \in 0 .. n /\ k # 0
      BY <1>1
    <3>2. acc[k] = Put(acc[k - 1], b[k], Zero)
      BY <1>4, <1>7, <3>1
    <3>3. Within(acc[k - 1], G, i) /\ \A l \in 1 .. k - 1 : acc[k - 1].disk[b[l]] = Zero
      BY <2>2
    <3>4. /\ Within(acc[k], G, i) /\ acc[k].disk[b[k]] = Zero
          /\ \A m \in Blocks : m # b[k] => acc[k].disk[m] = acc[k - 1].disk[m]
      <4> DEFINE q == acc[k - 1]
                 q2 == acc[k]
      <4>1. host = FALSE /\ Layout(G) /\ i \in DOMAIN G /\ Within(q, G, i) /\ k \in 1 .. Len(G[i].blocks)
        BY <1>0, <3>3
      <4>2. q2 = Put(q, G[i].blocks[k], Zero)
        BY <3>2
      <4> HIDE DEF q, q2, b, n
      <4>3. Within(q2, G, i) /\ FreedIn(q, q2, G[i].blocks[k])
        BY <4>1, <4>2, WithinFreed
      <4> QED BY <4>3 DEF q, q2, b, FreedIn
    <3>5. ASSUME NEW l \in 1 .. k PROVE acc[k].disk[b[l]] = Zero
      <4>1. l # k => l \in 1 .. k - 1
        BY <1>1
      <4>2. b[l] \in Blocks
        <5>1. l \in 1 .. Len(G[i].blocks)
          BY <1>1
        <5> QED BY <1>0, <5>1, BlockAt
      <4> QED BY <3>3, <3>4, <4>1, <4>2
    <3> QED BY <3>1, <3>4, <3>5
  <2>3. \A k \in 0 .. n : k \in K
    <3> HIDE DEF K, n
    <3> QED BY <1>1, <2>1, <2>2, Climbs
  <2> QED BY <2>3
<1>9. n \in 0 .. n
  BY <1>1
<1> QED BY <1>3, <1>8, <1>9

-----------------------------------------------------------------------------
(***************************************************************************)
(* A directory without one entry                                           *)
(***************************************************************************)
\* Where place l of a sequence was before place k was taken out.
Skipped(k, l) == IF l < k THEN l ELSE l + 1

\* A sequence without one place keeps its type and is one shorter,
LEMMA RemovedType ==
  ASSUME NEW S, NEW s \in Seq(S), NEW k \in 1 .. Len(s)
  PROVE  RemoveAt(s, k) \in Seq(S) /\ Len(RemoveAt(s, k)) = Len(s) - 1
<1> DEFINE u == SubSeq(s, 1, k - 1)
           v == SubSeq(s, k + 1, Len(s))
<1>0. Len(s) \in Nat /\ k \in Nat /\ k >= 1 /\ k <= Len(s)
  OBVIOUS
<1>1. u \in Seq(S) /\ Len(u) = k - 1
  BY <1>0
<1>2. v \in Seq(S) /\ Len(v) = Len(s) - k
  BY <1>0
<1>3. RemoveAt(s, k) = u \o v
  BY DEF RemoveAt
<1> HIDE DEF u, v
<1>4. u \o v \in Seq(S) /\ Len(u \o v) = Len(u) + Len(v)
  BY <1>1, <1>2
<1>5. Len(u) + Len(v) = Len(s) - 1
  BY <1>0, <1>1, <1>2
<1> QED BY <1>3, <1>4, <1>5

\* and has the other elements in order.
LEMMA RemovedIs ==
  ASSUME NEW S, NEW s \in Seq(S), NEW k \in 1 .. Len(s)
  PROVE  \A l \in 1 .. Len(s) - 1 : RemoveAt(s, k)[l] = s[Skipped(k, l)]
<1> DEFINE u == SubSeq(s, 1, k - 1)
           v == SubSeq(s, k + 1, Len(s))
<1>0. Len(s) \in Nat /\ k \in Nat /\ k >= 1 /\ k <= Len(s)
  OBVIOUS
<1>1. u \in Seq(S) /\ Len(u) = k - 1 /\ \A l \in 1 .. k - 1 : u[l] = s[l]
  BY <1>0
<1>2. v \in Seq(S) /\ Len(v) = Len(s) - k /\ \A l \in 1 .. Len(s) - k : v[l] = s[k + l]
  BY <1>0
<1>3. RemoveAt(s, k) = u \o v
  BY DEF RemoveAt
<1> HIDE DEF u, v
<1> SUFFICES ASSUME NEW l \in 1 .. Len(s) - 1 PROVE (u \o v)[l] = s[Skipped(k, l)]
  BY <1>3
<1>4. CASE l < k
  <2>1. (u \o v)[l] = u[l]
    BY <1>0, <1>1, <1>2, <1>4
  <2> QED BY <1>0, <1>1, <1>4, <2>1 DEF Skipped
<1>5. CASE ~(l < k)
  <2>1. (u \o v)[l] = v[l - (k - 1)]
    BY <1>0, <1>1, <1>2, <1>5
  <2>2. l - (k - 1) \in 1 .. Len(s) - k /\ k + (l - (k - 1)) = l + 1
    BY <1>0, <1>5
  <2>3. v[l - (k - 1)] = s[l + 1]
    BY <1>2, <2>2
  <2> QED BY <1>5, <2>1, <2>3 DEF Skipped
<1> QED BY <1>4, <1>5

\* The places that are left are all but that one, each once.
LEMMA SkippedIs ==
  ASSUME NEW n \in Nat, NEW k \in 1 .. n
  PROVE  /\ \A l \in 1 .. n - 1 : Skipped(k, l) \in 1 .. n /\ Skipped(k, l) # k
         /\ \A l, m \in 1 .. n - 1 : Skipped(k, l) = Skipped(k, m) => l = m
         /\ \A m \in 1 .. n : m # k => \E l \in 1 .. n - 1 : Skipped(k, l) = m
<1>1. \A l \in 1 .. n - 1 : Skipped(k, l) \in 1 .. n /\ Skipped(k, l) # k
  BY DEF Skipped
<1>2. \A l, m \in 1 .. n - 1 : Skipped(k, l) = Skipped(k, m) => l = m
  BY DEF Skipped
<1>3. ASSUME NEW m \in 1 .. n, m # k PROVE \E l \in 1 .. n - 1 : Skipped(k, l) = m
  <2>1. CASE m < k
    <3>1. m \in 1 .. n - 1 /\ Skipped(k, m) = m
      BY <2>1 DEF Skipped
    <3> QED BY <3>1
  <2>2. CASE m > k
    <3>1. m - 1 \in 1 .. n - 1 /\ Skipped(k, m - 1) = m
      BY <2>2 DEF Skipped
    <3> QED BY <3>1
  <2> QED BY <1>3, <2>1, <2>2
<1> QED BY <1>1, <1>2, <1>3

-----------------------------------------------------------------------------
\* The layout G without the inode i, which is at place k of the list of the directory p.
Shrunk(g, k) ==
  [dir |-> g.dir, name |-> g.name, parent |-> g.parent, level |-> g.level, size |-> g.size,
   blocks |-> RemoveAt(g.blocks, k), kids |-> RemoveAt(g.kids, k), data |-> g.data]
WithoutEntry(G, i, p, k) == [j \in DOMAIN G \ {i} |-> IF j = p THEN Shrunk(G[p], k) ELSE G[j]]

Removable(G, i, p, k) ==
  /\ i \in DOMAIN G /\ i # Root /\ G[i].kids = <<>> /\ G[i].parent = p
  /\ p \in DOMAIN G /\ p # i /\ G[p].dir /\ k \in 1 .. Len(G[p].kids) /\ G[p].kids[k] = i

\* Every inode but the root is at some place.
LEMMA HasPlace ==
  ASSUME NEW G, Layout(G), NEW i \in DOMAIN G, i # Root, G[i].kids = <<>>
  PROVE  \E p, k : Removable(G, i, p, k)
<1>1. i \in DOMAIN G \ {Root}
  OBVIOUS
<1>2. PICK k \in 1 .. Len(G[G[i].parent].kids) : G[G[i].parent].kids[k] = i
  BY <1>1 DEF Layout, NamesAll, Named1
<1>3. G[i].parent \in DOMAIN G
  BY PlaceOf
<1>4. G[G[i].parent].dir
  BY <1>2, <1>3, KidAt
<1>5. G[i].parent # i
  <2>1. Len(<<>>) = 0
    OBVIOUS
  <2> QED BY <1>2, <2>1
<1> QED BY <1>2, <1>3, <1>4, <1>5 DEF Removable

\* H is such a layout.
Place(p, k, j, l) == IF j = p THEN Skipped(k, l) ELSE l
IsWithout(H, G, i, p, k) ==
  /\ DOMAIN H = DOMAIN G \ {i} /\ H = [j \in DOMAIN H |-> H[j]]
  /\ H[p] = Shrunk(G[p], k)
  /\ \A j \in DOMAIN H : j # p => H[j] = G[j]
  /\ \A j \in DOMAIN H : /\ H[j].dir = G[j].dir /\ H[j].name = G[j].name /\ H[j].parent = G[j].parent
                         /\ H[j].level = G[j].level /\ H[j].size = G[j].size /\ H[j].data = G[j].data
  /\ Len(H[p].kids) = Len(G[p].kids) - 1 /\ Len(H[p].blocks) = Len(G[p].blocks) - 1
  /\ \A j \in DOMAIN H : \A l \in 1 .. Len(H[j].kids) :
       /\ Place(p, k, j, l) \in 1 .. Len(G[j].kids) /\ H[j].kids[l] = G[j].kids[Place(p, k, j, l)]
       /\ j = p => Place(p, k, j, l) # k
  /\ \A j \in DOMAIN H : \A l \in 1 .. Len(H[j].blocks) :
       /\ Place(p, k, j, l) \in 1 .. Len(G[j].blocks) /\ H[j].blocks[l] = G[j].blocks[Place(p, k, j, l)]
       /\ j = p => Place(p, k, j, l) # k

\* The layout without the inode is what IsWithout says.
LEMMA WithoutFacts ==
  ASSUME NEW G, Layout(G), NEW i, NEW p, NEW k, Removable(G, i, p, k)
  PROVE  IsWithout(WithoutEntry(G, i, p, k), G, i, p, k)
<1> DEFINE H == WithoutEntry(G, i, p, k)
           b == G[p].blocks
           kids == G[p].kids
<1>0. p \in DOMAIN G /\ p # i /\ G[p].dir /\ k \in 1 .. Len(kids)
  BY DEF Removable
<1>1. /\ DOMAIN H = DOMAIN G \ {i} /\ H = [j \in DOMAIN H |-> H[j]]
      /\ H[p] = Shrunk(G[p], k)
      /\ \A j \in DOMAIN H : j # p => H[j] = G[j]
  BY <1>0 DEF WithoutEntry
<1> HIDE DEF H
<1>2. /\ H[p].dir = G[p].dir /\ H[p].name = G[p].name /\ H[p].parent = G[p].parent
      /\ H[p].level = G[p].level /\ H[p].size = G[p].size /\ H[p].data = G[p].data
      /\ H[p].kids = RemoveAt(kids, k) /\ H[p].blocks = RemoveAt(b, k)
  BY <1>1 DEF Shrunk
<1>3. ASSUME NEW j \in DOMAIN H
      PROVE  /\ H[j].dir = G[j].dir /\ H[j].name = G[j].name /\ H[j].parent = G[j].parent
             /\ H[j].level = G[j].level /\ H[j].size = G[j].size /\ H[j].data = G[j].data
  <2>1. CASE j = p
    BY <1>2, <2>1
  <2>2. CASE j # p
    BY <1>1, <2>2
  <2> QED BY <2>1, <2>2
<1>4. kids \in Seq(DOMAIN G) /\ b \in Seq(Numbers) /\ Len(kids) \in Nat /\ Len(b) = Len(kids) + 1 /\ k \in 1 .. Len(b)
  <2>1. kids \in Seq(DOMAIN G) /\ b \in Seq(Numbers) /\ Len(kids) \in Nat /\ KindOK(G[p])
    BY <1>0, PlaceOf
  <2>2. Len(b) = Len(kids) + 1
    BY <1>0, <2>1 DEF KindOK
  <2> QED BY <1>0, <2>1, <2>2
<1>5. /\ Len(RemoveAt(kids, k)) = Len(kids) - 1
      /\ \A l \in 1 .. Len(kids) - 1 : RemoveAt(kids, k)[l] = kids[Skipped(k, l)]
  BY <1>0, <1>4, RemovedType, RemovedIs
<1>6. /\ Len(RemoveAt(b, k)) = Len(b) - 1
      /\ \A l \in 1 .. Len(b) - 1 : RemoveAt(b, k)[l] = b[Skipped(k, l)]
  BY <1>4, RemovedType, RemovedIs
<1>7. ASSUME NEW j \in DOMAIN H, NEW l \in 1 .. Len(H[j].kids)
      PROVE  /\ Place(p, k, j, l) \in 1 .. Len(G[j].kids) /\ H[j].kids[l] = G[j].kids[Place(p, k, j, l)]
             /\ j = p => Place(p, k, j, l) # k
  <2>1. CASE j = p
    <3>1. l \in 1 .. Len(kids) - 1 /\ H[j].kids[l] = kids[Skipped(k, l)]
      BY <1>2, <1>5, <2>1
    <3>2. Skipped(k, l) \in 1 .. Len(kids) /\ Skipped(k, l) # k
      BY <1>0, <1>4, <3>1, SkippedIs
    <3> QED BY <2>1, <3>1, <3>2 DEF Place
  <2>2. CASE j # p
    BY <1>1, <2>2 DEF Place
  <2> QED BY <2>1, <2>2
<1>8. ASSUME NEW j \in DOMAIN H, NEW l \in 1 .. Len(H[j].blocks)
      PROVE  /\ Place(p, k, j, l) \in 1 .. Len(G[j].blocks) /\ H[j].blocks[l] = G[j].blocks[Place(p, k, j, l)]
             /\ j = p => Place(p, k, j, l) # k
  <2>1. CASE j = p
    <3>1. l \in 1 .. Len(b) - 1 /\ H[j].blocks[l] = b[Skipped(k, l)]
      BY <1>2, <1>6, <2>1
    <3>2. Skipped(k, l) \in 1 .. Len(b) /\ Skipped(k, l) # k
      <4>1. Len(b) \in Nat
        BY <1>4
      <4> QED BY <1>4, <3>1, <4>1, SkippedIs
    <3> QED BY <2>1, <3>1, <3>2 DEF Place
  <2>2. CASE j # p
    BY <1>1, <2>2 DEF Place
  <2> QED BY <2>1, <2>2
<1>9. IsWithout(H, G, i, p, k)
  BY <1>1, <1>2, <1>3, <1>5, <1>6, <1>7, <1>8 DEF IsWithout
<1> QED BY <1>9 DEF H

\* It is a layout.
LEMMA WithoutLayout ==
  ASSUME NEW G, Layout(G), NEW i, NEW p, NEW k, Removable(G, i, p, k), NEW H, IsWithout(H, G, i, p, k)
  PROVE  Layout(H)
<1>0. /\ i \in DOMAIN G /\ i # Root /\ G[i].kids = <<>> /\ G[i].parent = p
      /\ p \in DOMAIN G /\ p # i /\ G[p].dir /\ k \in 1 .. Len(G[p].kids) /\ G[p].kids[k] = i
  BY DEF Removable
<1>1. /\ DOMAIN H = DOMAIN G \ {i} /\ H = [j \in DOMAIN H |-> H[j]]
      /\ H[p] = Shrunk(G[p], k)
      /\ \A j \in DOMAIN H : j # p => H[j] = G[j]
      /\ Len(H[p].kids) = Len(G[p].kids) - 1 /\ Len(H[p].blocks) = Len(G[p].blocks) - 1
  BY DEF IsWithout
<1>2. \A j \in DOMAIN H : /\ H[j].dir = G[j].dir /\ H[j].name = G[j].name /\ H[j].parent = G[j].parent
                          /\ H[j].level = G[j].level /\ H[j].size = G[j].size /\ H[j].data = G[j].data
  BY DEF IsWithout
<1>3. \A j \in DOMAIN H : \A l \in 1 .. Len(H[j].kids) :
        /\ Place(p, k, j, l) \in 1 .. Len(G[j].kids) /\ H[j].kids[l] = G[j].kids[Place(p, k, j, l)]
        /\ j = p => Place(p, k, j, l) # k
  BY DEF IsWithout
<1>4. \A j \in DOMAIN H : \A l \in 1 .. Len(H[j].blocks) :
        /\ Place(p, k, j, l) \in 1 .. Len(G[j].blocks) /\ H[j].blocks[l] = G[j].blocks[Place(p, k, j, l)]
        /\ j = p => Place(p, k, j, l) # k
  BY DEF IsWithout
<1>5. Root \in DOMAIN H /\ p \in DOMAIN H /\ DOMAIN H \subseteq DOMAIN G
  BY <1>0, <1>1 DEF Layout, LayoutType
<1>6. ASSUME NEW j \in DOMAIN H, NEW l \in 1 .. Len(H[j].kids)
      PROVE  /\ H[j].kids[l] \in DOMAIN H /\ H[j].kids[l] # Root
             /\ G[H[j].kids[l]].parent = j /\ G[H[j].kids[l]].level = G[j].level + 1
  <2> DEFINE m == Place(p, k, j, l)
  <2>1. j \in DOMAIN G /\ m \in 1 .. Len(G[j].kids) /\ H[j].kids[l] = G[j].kids[m] /\ (j = p => m # k)
    BY <1>3, <1>5
  <2> HIDE DEF m
  <2>2. /\ G[j].kids[m] \in DOMAIN G /\ G[j].kids[m] # Root
        /\ G[G[j].kids[m]].parent = j /\ G[G[j].kids[m]].level = G[j].level + 1
    BY <2>1, KidAt
  <2>3. G[j].kids[m] # i
    <3>1. CASE j = p
      BY <1>0, <2>1, <3>1 DEF Layout, NamesOnce
    <3>2. CASE j # p
      BY <1>0, <2>2, <3>2
    <3> QED BY <3>1, <3>2
  <2> QED BY <1>1, <2>1, <2>2, <2>3
<1>7. ASSUME NEW j \in DOMAIN H, j # Root
      PROVE  \E m \in 1 .. Len(G[G[j].parent].kids) : G[G[j].parent].kids[m] = j
  BY <1>5, <1>7 DEF Layout, NamesAll, Named1
<1>8. ASSUME NEW j \in DOMAIN H PROVE G[j].parent \in DOMAIN H
  <2>1. CASE j = Root
    BY <1>5, <2>1 DEF Layout, RootOK
  <2>2. CASE j # Root
    <3>1. G[j].parent \in DOMAIN G
      BY <1>5, PlaceOf
    <3>2. G[j].parent # i
      <4>1. Len(<<>>) = 0
        OBVIOUS
      <4> QED BY <1>0, <1>7, <2>2, <4>1
    <3> QED BY <1>1, <3>1, <3>2
  <2> QED BY <2>1, <2>2
<1>9. ASSUME NEW j \in DOMAIN H PROVE H[j].kids \in Seq(DOMAIN H) /\ H[j].blocks \in Seq(Numbers) /\ KindOK(H[j])
  <2>1. CASE j = p
    <3> DEFINE b == G[p].blocks
               kids == G[p].kids
    <3>1. H[p].kids = RemoveAt(kids, k) /\ H[p].blocks = RemoveAt(b, k) /\ H[p].dir /\ H[p].size = G[p].size
          /\ H[p].data = G[p].data
      BY <1>0, <1>1 DEF Shrunk
    <3>2. kids \in Seq(DOMAIN G) /\ b \in Seq(Numbers) /\ Len(kids) \in Nat /\ Len(b) = Len(kids) + 1
          /\ k \in 1 .. Len(b) /\ G[p].size = 0 /\ G[p].data = <<>>
      <4>1. kids \in Seq(DOMAIN G) /\ b \in Seq(Numbers) /\ Len(kids) \in Nat /\ KindOK(G[p])
        BY <1>0, PlaceOf
      <4>2. Len(b) = Len(kids) + 1 /\ G[p].size = 0 /\ G[p].data = <<>>
        BY <1>0, <4>1 DEF KindOK
      <4> QED BY <1>0, <4>1, <4>2
    <3>3. H[p].kids \in Seq(DOMAIN G) /\ H[p].blocks \in Seq(Numbers) /\ Len(H[p].blocks) = Len(H[p].kids) + 1
      BY <1>0, <1>1, <3>1, <3>2, RemovedType
    <3>4. H[p].kids \in Seq(DOMAIN H)
      <4> DEFINE u == H[p].kids
      <4>1. u \in Seq(DOMAIN G) /\ \A l \in 1 .. Len(u) : u[l] \in DOMAIN H
        BY <1>5, <1>6, <3>3
      <4> HIDE DEF u
      <4>2. u = [l \in 1 .. Len(u) |-> u[l]] /\ Len(u) \in Nat
        BY <4>1
      <4>3. u \in [1 .. Len(u) -> DOMAIN H]
        BY <4>1, <4>2
      <4>4. u \in Seq(DOMAIN H)
        BY <4>2, <4>3
      <4> QED BY <4>4 DEF u
    <3>5. KindOK(H[p])
      BY <3>1, <3>2, <3>3 DEF KindOK
    <3> QED BY <2>1, <3>3, <3>4, <3>5
  <2>2. CASE j # p
    <3>1. H[j] = G[j] /\ j \in DOMAIN G
      BY <1>1, <1>5, <2>2
    <3>2. G[j].kids \in Seq(DOMAIN G) /\ G[j].blocks \in Seq(Numbers) /\ KindOK(G[j])
      BY <3>1, PlaceOf
    <3>4. H[j].kids \in Seq(DOMAIN H)
      <4> DEFINE u == H[j].kids
      <4>1. u \in Seq(DOMAIN G) /\ \A l \in 1 .. Len(u) : u[l] \in DOMAIN H
        BY <1>6, <3>1, <3>2
      <4> HIDE DEF u
      <4>2. u = [l \in 1 .. Len(u) |-> u[l]] /\ Len(u) \in Nat
        BY <4>1
      <4>3. u \in [1 .. Len(u) -> DOMAIN H]
        BY <4>1, <4>2
      <4>4. u \in Seq(DOMAIN H)
        BY <4>2, <4>3
      <4> QED BY <4>4 DEF u
    <3> QED BY <3>1, <3>2, <3>4
  <2> QED BY <2>1, <2>2
<1>10. ASSUME NEW j \in DOMAIN H PROVE H[j] \in Placed(DOMAIN H)
  <2>1. /\ G[j].dir \in BOOLEAN /\ G[j].name \in Names \cup {NoName} /\ G[j].parent \in DOMAIN H
        /\ G[j].level \in 0 .. Depth /\ G[j].size \in 0 .. MaxSize /\ G[j].data \in Seq(Chunks \cup {Blank})
    BY <1>5, <1>8, PlaceOf
  <2>2. H[j] = [dir |-> G[j].dir, name |-> G[j].name, parent |-> G[j].parent, level |-> G[j].level,
                size |-> G[j].size, blocks |-> H[j].blocks, kids |-> H[j].kids, data |-> G[j].data]
    <3>1. CASE j = p
      BY <1>1, <3>1 DEF Shrunk
    <3>2. CASE j # p
      <4>1. G[j] \in Placed(DOMAIN G) /\ H[j] = G[j]
        BY <1>1, <1>5, <3>2 DEF Layout, LayoutType
      <4> QED BY <4>1 DEF Placed
    <3> QED BY <3>1, <3>2
  <2>3. H[j].kids \in Seq(DOMAIN H) /\ H[j].blocks \in Seq(Numbers)
    BY <1>9
  <2> DEFINE x == H[j].blocks
             y == H[j].kids
  <2>4. x \in Seq(Numbers) /\ y \in Seq(DOMAIN H)
    BY <2>3
  <2>5. H[j] = [dir |-> G[j].dir, name |-> G[j].name, parent |-> G[j].parent, level |-> G[j].level,
                size |-> G[j].size, blocks |-> x, kids |-> y, data |-> G[j].data]
    BY <2>2
  <2> HIDE DEF x, y
  <2> QED BY <2>1, <2>4, <2>5 DEF Placed
<1>11. LayoutType(H) /\ KindsOK(H)
  BY <1>1, <1>5, <1>9, <1>10 DEF LayoutType, KindsOK, Layout
<1>12. RootOK(H)
  BY <1>2, <1>5 DEF RootOK, Layout
<1>13. NamesKids(H)
  <2> SUFFICES ASSUME NEW j \in DOMAIN H, NEW l \in 1 .. Len(H[j].kids)
               PROVE  H[j].kids[l] # Root /\ H[H[j].kids[l]].parent = j /\ H[H[j].kids[l]].level = H[j].level + 1
    BY DEF NamesKids
  <2>1. /\ H[j].kids[l] \in DOMAIN H /\ H[j].kids[l] # Root
        /\ G[H[j].kids[l]].parent = j /\ G[H[j].kids[l]].level = G[j].level + 1
    BY <1>6
  <2> DEFINE n == H[j].kids[l]
  <2>2. H[n].parent = G[n].parent /\ H[n].level = G[n].level /\ H[j].level = G[j].level
    BY <1>2, <2>1
  <2> QED BY <2>1, <2>2
<1>14. NamesOnce(H)
  <2> SUFFICES ASSUME NEW j \in DOMAIN H, NEW l \in 1 .. Len(H[j].kids), NEW m \in 1 .. Len(H[j].kids),
                      H[j].kids[l] = H[j].kids[m]
               PROVE  l = m
    BY DEF NamesOnce
  <2>1. Place(p, k, j, l) = Place(p, k, j, m)
    <3> DEFINE x == Place(p, k, j, l)
               y == Place(p, k, j, m)
    <3>1. x \in 1 .. Len(G[j].kids) /\ y \in 1 .. Len(G[j].kids) /\ G[j].kids[x] = G[j].kids[y] /\ j \in DOMAIN G
      BY <1>3, <1>5
    <3> HIDE DEF x, y
    <3>2. x = y
      BY <3>1 DEF Layout, NamesOnce
    <3> QED BY <3>2 DEF x, y
  <2>2. CASE j = p
    <3>1. l \in 1 .. Len(G[p].kids) - 1 /\ m \in 1 .. Len(G[p].kids) - 1 /\ Len(G[p].kids) \in Nat
      BY <1>0, <1>1, <2>2, PlaceOf
    <3>2. Skipped(k, l) = Skipped(k, m)
      BY <2>1, <2>2 DEF Place
    <3> DEFINE n == Len(G[p].kids)
    <3>3. n \in Nat /\ k \in 1 .. n /\ l \in 1 .. n - 1 /\ m \in 1 .. n - 1
      BY <1>0, <3>1
    <3> HIDE DEF n
    <3> QED BY <3>2, <3>3 DEF Skipped
  <2>3. CASE j # p
    BY <2>1, <2>3 DEF Place
  <2> QED BY <2>2, <2>3
<1>15. NamesAll(H)
  <2> SUFFICES ASSUME NEW j \in DOMAIN H \ {Root}
               PROVE \E l \in 1 .. Len(H[H[j].parent].kids) : H[H[j].parent].kids[l] = j
    BY DEF NamesAll, Named1
  <2> DEFINE q == G[j].parent
  <2>1. q \in DOMAIN H /\ H[j].parent = q
    BY <1>2, <1>8
  <2>2. PICK m \in 1 .. Len(G[q].kids) : G[q].kids[m] = j
    BY <1>7
  <2> HIDE DEF q
  <2>3. CASE q # p
    BY <1>1, <2>1, <2>2, <2>3
  <2>4. CASE q = p
    <3>1. m # k /\ Len(G[p].kids) \in Nat
      BY <1>0, <1>1, <2>2, <2>4, PlaceOf
    <3>2. PICK l \in 1 .. Len(G[p].kids) - 1 : Skipped(k, l) = m
      BY <1>0, <2>2, <2>4, <3>1, SkippedIs
    <3>3. l \in 1 .. Len(H[p].kids) /\ H[p].kids[l] = G[p].kids[m]
      BY <1>1, <1>3, <1>5, <3>2 DEF Place
    <3> QED BY <2>1, <2>2, <2>4, <3>3
  <2> QED BY <2>3, <2>4
<1>16. BlocksApart(H)
  <2> SUFFICES ASSUME NEW j \in DOMAIN H, NEW l \in 1 .. Len(H[j].blocks) PROVE H[j].blocks[l] \notin DOMAIN H
    BY DEF BlocksApart
  <2> DEFINE m == Place(p, k, j, l)
  <2>1. j \in DOMAIN G /\ m \in 1 .. Len(G[j].blocks) /\ H[j].blocks[l] = G[j].blocks[m]
    BY <1>4, <1>5
  <2> HIDE DEF m
  <2>2. G[j].blocks[m] \notin DOMAIN G
    BY <2>1, BlockAt
  <2> QED BY <1>5, <2>1, <2>2
<1>17. BlocksOnce(H)
  <2> SUFFICES ASSUME NEW x \in DOMAIN H, NEW y \in DOMAIN H, NEW l \in 1 .. Len(H[x].blocks),
                      NEW m \in 1 .. Len(H[y].blocks), H[x].blocks[l] = H[y].blocks[m]
               PROVE  x = y /\ l = m
    BY DEF BlocksOnce
  <2>1. x = y /\ Place(p, k, x, l) = Place(p, k, y, m)
    <3> DEFINE v == Place(p, k, x, l)
               w == Place(p, k, y, m)
    <3>1. v \in 1 .. Len(G[x].blocks) /\ w \in 1 .. Len(G[y].blocks) /\ G[x].blocks[v] = G[y].blocks[w]
          /\ x \in DOMAIN G /\ y \in DOMAIN G
      BY <1>4, <1>5
    <3> HIDE DEF v, w
    <3>2. x = y /\ v = w
      BY <3>1 DEF Layout, BlocksOnce
    <3> QED BY <3>2 DEF v, w
  <2>2. CASE x = p
    <3>1. Len(G[p].blocks) \in Nat /\ Len(G[p].blocks) = Len(G[p].kids) + 1 /\ Len(G[p].kids) \in Nat
      BY <1>0, PlaceOf DEF KindOK
    <3>2. l \in 1 .. Len(G[p].blocks) - 1 /\ m \in 1 .. Len(G[p].blocks) - 1 /\ k \in 1 .. Len(G[p].blocks)
      BY <1>0, <1>1, <2>1, <2>2, <3>1
    <3>3. Skipped(k, l) = Skipped(k, m)
      BY <2>1, <2>2 DEF Place
    <3> QED BY <2>1, <3>1, <3>2, <3>3, SkippedIs
  <2>3. CASE x # p
    BY <2>1, <2>3 DEF Place
  <2> QED BY <2>1, <2>2, <2>3
<1> QED BY <1>11, <1>12, <1>13, <1>14, <1>15, <1>16, <1>17 DEF Layout

\* The block that leads to the list block of the entry at place k.
LinkOf(G, p, k) == IF k > 1 THEN G[p].blocks[k - 1] ELSE p

\* The disk f is the disk d without the entry, and without what the inode i led to.
EntryRemoved(f, d, G, i, p, k) ==
  /\ f \in Disks
  /\ k > 1 => f[LinkOf(G, p, k)] =
                List(1, G[p].blocks[k - 1], G[p].kids[k - 1], G[p].blocks[k + 1])
  /\ k = 1 => f[LinkOf(G, p, k)] = InodeOf(Shrunk(G[p], k), p)
  /\ \A m \in Blocks : /\ m \notin {LinkOf(G, p, k), G[p].blocks[k], i}
                       /\ \A l \in 1 .. Len(G[i].blocks) : m # G[i].blocks[l]
                       => f[m] = d[m]

\* The block that points past an entry is part of the directory and of nothing that is freed.
LEMMA LinkIs ==
  ASSUME NEW G, Layout(G), NEW i, NEW p, NEW k, Removable(G, i, p, k)
  PROVE  /\ LinkOf(G, p, k) \in Blocks /\ LinkOf(G, p, k) # 0
         /\ LinkOf(G, p, k) \in UsedBy(G[p], p) /\ G[p].blocks[k] \in UsedBy(G[p], p)
         /\ LinkOf(G, p, k) # i /\ LinkOf(G, p, k) # G[p].blocks[k]
         /\ \A l \in 1 .. Len(G[p].blocks) : LinkOf(G, p, k) = G[p].blocks[l] => k > 1 /\ l = k - 1
<1> DEFINE b == G[p].blocks
<1>0. i \in DOMAIN G /\ p \in DOMAIN G /\ p # i /\ G[p].dir /\ k \in 1 .. Len(G[p].kids)
  BY DEF Removable
<1>1. Len(b) = Len(G[p].kids) + 1 /\ Len(G[p].kids) \in Nat /\ k \in 1 .. Len(b) /\ k \in Nat
  <2>1. Len(G[p].kids) \in Nat /\ KindOK(G[p])
    BY <1>0, PlaceOf
  <2> QED BY <1>0, <2>1 DEF KindOK
<1>2. \A l \in 1 .. Len(b) : b[l] \in Blocks /\ b[l] # 0 /\ b[l] \notin DOMAIN G /\ b[l] \in BlocksOf(G[p])
  BY <1>0, BlockAt
<1>3. p \in Blocks /\ p # 0
  BY <1>0, PlaceOf
<1>4. \A l, m \in 1 .. Len(b) : b[l] = b[m] => l = m
  BY <1>0 DEF Layout, BlocksOnce
<1>5. CASE k > 1
  <2>1. LinkOf(G, p, k) = b[k - 1] /\ k - 1 \in 1 .. Len(b) /\ k - 1 # k
    BY <1>1, <1>5 DEF LinkOf
  <2> HIDE DEF b
  <2> QED BY <1>0, <1>1, <1>2, <1>4, <1>5, <2>1 DEF UsedBy, b
<1>6. CASE ~(k > 1)
  <2>1. LinkOf(G, p, k) = p
    BY <1>6 DEF LinkOf
  <2> QED BY <1>0, <1>1, <1>2, <1>3, <2>1 DEF UsedBy
<1> QED BY <1>5, <1>6

\* The list without the entry is on the disk.
LEMMA WithoutList ==
  ASSUME NEW G, Layout(G), NEW i, NEW p, NEW k, Removable(G, i, p, k), NEW H, IsWithout(H, G, i, p, k),
         NEW d, Holds(d, G), NEW f, EntryRemoved(f, d, G, i, p, k)
  PROVE  HoldsList(f, H[p].blocks, H[p].kids)
<1> DEFINE b == G[p].blocks
           kids == G[p].kids
           n == Len(kids)
           c == H[p].blocks
           ks == H[p].kids
           link == LinkOf(G, p, k)
<1>0. i \in DOMAIN G /\ p \in DOMAIN G /\ p # i /\ G[p].dir /\ k \in 1 .. n
  BY DEF Removable
<1>1. n \in Nat /\ Len(b) = n + 1 /\ k \in Nat /\ k >= 1 /\ k <= n
  <2>1. n \in Nat /\ KindOK(G[p])
    BY <1>0, PlaceOf
  <2> QED BY <1>0, <2>1 DEF KindOK
<1>2. Len(ks) = n - 1 /\ Len(c) = n
  <2>1. Len(ks) = n - 1 /\ Len(c) = Len(b) - 1
    BY DEF IsWithout
  <2> HIDE DEF b, c, n
  <2> QED BY <1>1, <2>1
<1>3. p \in DOMAIN H
  BY <1>0 DEF IsWithout
<1>4. \A l \in 1 .. n - 1 : ks[l] = kids[Skipped(k, l)]
  BY <1>2, <1>3 DEF IsWithout, Place
<1>5. \A l \in 1 .. n : c[l] = b[Skipped(k, l)]
  BY <1>2, <1>3 DEF IsWithout, Place
<1>6. HoldsList(d, b, kids)
  BY <1>0 DEF Holds, HoldsAt
<1>7. ASSUME NEW x \in 1 .. n + 1, x # k, k > 1 => x # k - 1 PROVE f[b[x]] = d[b[x]]
  <2>1. b[x] \in Blocks /\ b[x] \notin DOMAIN G
    BY <1>0, <1>1, BlockAt
  <2>2. b[x] # link
    BY <1>1, <1>7, LinkIs
  <2>3. b[x] # b[k]
    BY <1>0, <1>1, <1>7 DEF Layout, BlocksOnce
  <2>4. \A l \in 1 .. Len(G[i].blocks) : b[x] # G[i].blocks[l]
    BY <1>0, <1>1 DEF Layout, BlocksOnce
  <2> QED BY <1>0, <2>1, <2>2, <2>3, <2>4 DEF EntryRemoved
<1>8. k > 1 => f[b[k - 1]] = List(1, b[k - 1], kids[k - 1], b[k + 1])
  BY DEF EntryRemoved, LinkOf
<1> HIDE DEF b, kids, c, ks, link, n
<1>9. ASSUME NEW l \in 1 .. n - 1 PROVE f[c[l]] = List(1, c[l], ks[l], c[l + 1])
  <2>0. l \in 1 .. n /\ l + 1 \in 1 .. n
    BY <1>1
  <2>1. CASE l = k - 1
    <3>1. Skipped(k, l) = k - 1 /\ Skipped(k, l + 1) = k + 1 /\ k > 1
      BY <1>1, <2>1 DEF Skipped
    <3>2. c[l] = b[k - 1] /\ ks[l] = kids[k - 1] /\ c[l + 1] = b[k + 1]
      BY <1>4, <1>5, <2>0, <3>1
    <3> QED BY <1>8, <3>1, <3>2
  <2>2. CASE l # k - 1
    <3> DEFINE x == Skipped(k, l)
    <3>1. x \in 1 .. n /\ x \in 1 .. n + 1 /\ x # k /\ x # k - 1 /\ Skipped(k, l + 1) = x + 1
      BY <1>1, <2>2 DEF Skipped
    <3> HIDE DEF x
    <3>2. c[l] = b[x] /\ ks[l] = kids[x] /\ c[l + 1] = b[x + 1]
      BY <1>4, <1>5, <2>0, <3>1 DEF x
    <3>3. d[b[x]] = List(1, b[x], kids[x], b[x + 1])
      BY <1>6, <3>1 DEF HoldsList, n
    <3>4. f[b[x]] = d[b[x]]
      BY <1>7, <3>1
    <3> QED BY <3>2, <3>3, <3>4
  <2> QED BY <2>1, <2>2
<1>10. f[c[n]] = List(2, c[n], 0, 0)
  <2>1. Skipped(k, n) = n + 1 /\ n \in 1 .. n /\ n + 1 \in 1 .. n + 1 /\ n + 1 # k /\ n + 1 # k - 1
    BY <1>1 DEF Skipped
  <2>2. c[n] = b[n + 1]
    BY <1>5, <2>1
  <2>3. d[b[n + 1]] = List(2, b[n + 1], 0, 0)
    BY <1>6 DEF HoldsList, n
  <2>4. f[b[n + 1]] = d[b[n + 1]]
    BY <1>7, <2>1
  <2> QED BY <2>2, <2>3, <2>4
<1>11. HoldsList(f, c, ks)
  <2>1. Len(ks) + 1 = n
    BY <1>1, <1>2
  <2> QED BY <1>2, <1>9, <1>10, <2>1 DEF HoldsList
<1> QED BY <1>11 DEF c, ks

\* The disk without the entry holds the layout without the inode.
LEMMA WithoutHolds ==
  ASSUME NEW G, Layout(G), NEW i, NEW p, NEW k, Removable(G, i, p, k), NEW H, IsWithout(H, G, i, p, k),
         NEW d, Holds(d, G), NEW f, EntryRemoved(f, d, G, i, p, k)
  PROVE  Holds(f, H)
<1> DEFINE b == G[p].blocks
           link == LinkOf(G, p, k)
<1>0. i \in DOMAIN G /\ p \in DOMAIN G /\ p # i /\ G[p].dir /\ k \in 1 .. Len(G[p].kids)
  BY DEF Removable
<1>1. /\ DOMAIN H = DOMAIN G \ {i} /\ H[p] = Shrunk(G[p], k)
      /\ \A j \in DOMAIN H : j # p => H[j] = G[j]
      /\ H[p].dir = G[p].dir
  BY <1>0 DEF IsWithout
<1>2. /\ f \in Disks
      /\ \A m \in Blocks : /\ m \notin {link, b[k], i}
                           /\ \A l \in 1 .. Len(G[i].blocks) : m # G[i].blocks[l]
                           => f[m] = d[m]
  BY DEF EntryRemoved
<1>3. /\ link \in Blocks /\ link # 0 /\ link \in UsedBy(G[p], p) /\ b[k] \in UsedBy(G[p], p)
      /\ link # i /\ link # b[k]
  BY LinkIs
<1>4. k \in 1 .. Len(b) /\ k \in Nat
  <2>1. Len(G[p].kids) \in Nat /\ KindOK(G[p])
    BY <1>0, PlaceOf
  <2> QED BY <1>0, <2>1 DEF KindOK
<1>5. \A j \in DOMAIN G : HoldsAt(d, G[j], j)
  BY DEF Holds
<1>6. f[0] = Super(Root)
  <2>1. 0 \in Blocks /\ 0 # i /\ 0 # b[k] /\ \A l \in 1 .. Len(G[i].blocks) : 0 # G[i].blocks[l]
    <3>1. 0 \in Blocks
      BY MaxBlockAssumption DEF Blocks
    <3>2. 0 # i
      BY <1>0, PlaceOf
    <3>3. 0 # b[k] /\ \A l \in 1 .. Len(G[i].blocks) : 0 # G[i].blocks[l]
      BY <1>0, <1>4, BlockAt
    <3> QED BY <3>1, <3>2, <3>3
  <2> QED BY <1>2, <1>3, <2>1 DEF Holds
<1>7. f[p] = InodeOf(H[p], p)
  <2>1. CASE k = 1
    BY <1>1, <2>1 DEF EntryRemoved, LinkOf
  <2>2. CASE k # 1
    <3>1. k > 1 /\ 1 \in 1 .. Len(b)
      BY <1>4, <2>2
    <3>2. link = b[k - 1] /\ k - 1 \in 1 .. Len(b)
      BY <1>4, <3>1 DEF LinkOf
    <3>3. p \in Blocks /\ p # link /\ p # b[k] /\ \A l \in 1 .. Len(G[i].blocks) : p # G[i].blocks[l]
      <4>1. p \in Blocks
        BY <1>0, PlaceOf
      <4>2. link \notin DOMAIN G /\ b[k] \notin DOMAIN G
        BY <1>0, <1>4, <3>2, BlockAt
      <4>3. \A l \in 1 .. Len(G[i].blocks) : G[i].blocks[l] \notin DOMAIN G
        BY <1>0, BlockAt
      <4> QED BY <1>0, <4>1, <4>2, <4>3
    <3>4. f[p] = InodeOf(G[p], p)
      BY <1>0, <1>2, <1>5, <3>3 DEF HoldsAt
    <3>5. H[p].blocks[1] = b[1]
      <4>1. Len(H[p].blocks) = Len(b) - 1 /\ p \in DOMAIN H
        BY <1>0 DEF IsWithout
      <4>2. 1 \in 1 .. Len(H[p].blocks)
        <5>1. Len(b) >= k
          BY <1>4
        <5> HIDE DEF b
        <5> QED BY <1>4, <3>1, <4>1, <5>1
      <4>3. Place(p, k, p, 1) = 1
        BY <3>1 DEF Place, Skipped
      <4> QED BY <4>1, <4>2, <4>3 DEF IsWithout
    <3>6. H[p].name = G[p].name /\ H[p].parent = G[p].parent /\ H[p].size = G[p].size
      BY <1>0 DEF IsWithout
    <3> QED BY <1>1, <3>4, <3>5, <3>6 DEF InodeOf
  <2> QED BY <2>1, <2>2
<1>8. HoldsAt(f, H[p], p)
  <2>1. HoldsList(f, H[p].blocks, H[p].kids)
    BY WithoutList
  <2> QED BY <1>0, <1>1, <1>7, <2>1 DEF HoldsAt
<1>9. ASSUME NEW j \in DOMAIN H, j # p PROVE HoldsAt(f, H[j], j)
  <2>0. j \in DOMAIN G /\ j # i /\ H[j] = G[j]
    BY <1>1, <1>9
  <2>1. ASSUME NEW m \in UsedBy(G[j], j) PROVE f[m] = d[m]
    <3>1. m \in Blocks /\ m # i /\ m \notin UsedBy(G[p], p) /\ \A l \in 1 .. Len(G[i].blocks) : m # G[i].blocks[l]
      <4>1. CASE m = j
        <5>1. j \in Blocks
          BY <2>0, PlaceOf
        <5>2. \A x \in DOMAIN G : \A y \in 1 .. Len(G[x].blocks) : G[x].blocks[y] \notin DOMAIN G
          BY BlockAt
        <5> QED BY <1>0, <1>9, <2>0, <4>1, <5>1, <5>2 DEF UsedBy, BlocksOf
      <4>2. CASE \E l \in 1 .. Len(G[j].blocks) : m = G[j].blocks[l]
        <5>1. PICK l \in 1 .. Len(G[j].blocks) : m = G[j].blocks[l]
          BY <4>2
        <5>2. m \in Blocks /\ m \notin DOMAIN G
          BY <2>0, <5>1, BlockAt
        <5>3. \A x \in DOMAIN G : x # j => \A y \in 1 .. Len(G[x].blocks) : m # G[x].blocks[y]
          BY <2>0, <5>1 DEF Layout, BlocksOnce
        <5> QED BY <1>0, <1>9, <2>0, <5>2, <5>3 DEF UsedBy, BlocksOf
      <4> QED BY <4>1, <4>2 DEF UsedBy, BlocksOf
    <3> QED BY <1>2, <1>3, <3>1
  <2>2. HoldsAt(f, G[j], j)
    BY <1>5, <2>0, <2>1, HoldsAtFrame
  <2> QED BY <2>0, <2>2
<1> QED BY <1>1, <1>2, <1>6, <1>8, <1>9 DEF Holds

\* The objects without one.
DropObject(obj, id) == [j \in DOMAIN obj \ {id} |-> [obj[j] EXCEPT !.kids = Promise!Without(@, id)]]

\* Its objects are those of the layout without the object.
LEMMA WithoutObjects ==
  ASSUME NEW G, Layout(G), NEW i, NEW p, NEW k, Removable(G, i, p, k), NEW H, IsWithout(H, G, i, p, k)
  PROVE  ObjectsOf(H) = DropObject(ObjectsOf(G), i)
<1> DEFINE obj == ObjectsOf(G)
           Less(j) == [obj[j] EXCEPT !.kids = Promise!Without(@, i)]
<1>0. i \in DOMAIN G /\ p \in DOMAIN G /\ p # i /\ G[p].dir /\ k \in 1 .. Len(G[p].kids) /\ G[p].kids[k] = i
      /\ G[i].parent = p
  BY DEF Removable
<1>1. DOMAIN H = DOMAIN G \ {i} /\ DOMAIN obj = DOMAIN G /\ \A j \in DOMAIN G : obj[j] = ObjectOf(G[j])
  BY DEF IsWithout, ObjectsOf
<1>2. ASSUME NEW j \in DOMAIN H PROVE H[j].kids = Promise!Without(G[j].kids, i)
  <2> DEFINE s == G[j].kids
  <2>0. j \in DOMAIN G /\ s \in Seq(DOMAIN G) /\ Len(s) \in Nat /\ DOMAIN s = 1 .. Len(s)
    BY <1>1, PlaceOf
  <2>1. CASE j = p
    <3>1. s[k] = i /\ k \in DOMAIN s /\ \A l \in DOMAIN s : s[l] = i => l = k
      BY <1>0, <2>0, <2>1 DEF Layout, NamesOnce
    <3>2. (CHOOSE l \in DOMAIN s : s[l] = i) = k
      <4> HIDE DEF s
      <4> QED BY <3>1
    <3>3. i \in Promise!ToSet(s)
      BY <3>1 DEF Promise!ToSet
    <3>4. Promise!Without(s, i) = RemoveAt(s, k)
      <4> HIDE DEF s
      <4> QED BY <3>2, <3>3 DEF Promise!Without, Promise!RemoveAt, RemoveAt
    <3>5. H[p].kids = RemoveAt(G[p].kids, k)
      BY DEF IsWithout, Shrunk
    <3> QED BY <2>1, <3>4, <3>5
  <2>2. CASE j # p
    <3>1. \A l \in DOMAIN s : s[l] # i
      BY <1>0, <2>0, <2>2, KidAt
    <3>2. i \notin Promise!ToSet(s)
      BY <3>1 DEF Promise!ToSet
    <3>3. H[j] = G[j]
      BY <2>2 DEF IsWithout
    <3> QED BY <3>2, <3>3 DEF Promise!Without
  <2> QED BY <2>1, <2>2
<1>3. ASSUME NEW j \in DOMAIN H PROVE ObjectOf(H[j]) = Less(j)
  <2> DEFINE ks == Promise!Without(G[j].kids, i)
             x == SubSeq(G[j].data, 1, G[j].size)
  <2>1. H[j].dir = G[j].dir /\ H[j].name = G[j].name /\ H[j].size = G[j].size /\ H[j].data = G[j].data
    BY DEF IsWithout
  <2>2. ObjectOf(H[j]) = [dir |-> G[j].dir, name |-> G[j].name, kids |-> ks, data |-> x]
    BY <1>2, <2>1 DEF ObjectOf
  <2>3. obj[j] = [dir |-> G[j].dir, name |-> G[j].name, kids |-> G[j].kids, data |-> x]
    BY <1>1 DEF ObjectOf
  <2>4. Promise!Without(obj[j].kids, i) = ks
    <3> HIDE DEF x
    <3> QED BY <2>3
  <2>5. Less(j) = [obj[j] EXCEPT !.kids = ks]
    <3> HIDE DEF ks
    <3> QED BY <2>4
  <2> HIDE DEF ks, x
  <2>6. [obj[j] EXCEPT !.kids = ks] = [dir |-> G[j].dir, name |-> G[j].name, kids |-> ks, data |-> x]
    BY <2>3
  <2> QED BY <2>2, <2>5, <2>6
<1> HIDE DEF Less
<1>4. ObjectsOf(H) = [j \in DOMAIN obj \ {i} |-> Less(j)]
  BY <1>1, <1>3 DEF ObjectsOf
<1> HIDE DEF obj
<1>5. DropObject(obj, i) = [j \in DOMAIN obj \ {i} |-> Less(j)]
  BY DEF DropObject, Less
<1> QED BY <1>4, <1>5 DEF obj

-----------------------------------------------------------------------------
(***************************************************************************)
(* fs_rm() and fs_rmdir()                                                  *)
(***************************************************************************)

\* The directory of the inode is as it was while the blocks of the inode are freed.
LEMMA ParentKept ==
  ASSUME NEW G, Ready(G), NEW i, NEW p, NEW k, Removable(G, i, p, k), NEW r, Within(r, G, i)
  PROVE  /\ r.disk \in Disks /\ DOMAIN r.disk = Blocks /\ HoldsAt(r.disk, G[p], p)
<1>0. i \in DOMAIN G /\ p \in DOMAIN G /\ p # i /\ Layout(G) /\ Holds(disk, G)
  BY DEF Removable, Ready
<1>1. r.disk \in Disks /\ DOMAIN r.disk = Blocks
      /\ \A m \in Blocks : (\A l \in 1 .. Len(G[i].blocks) : m # G[i].blocks[l]) => r.disk[m] = disk[m]
  BY DEF Within, RunOK, Disks
<1>2. ASSUME NEW m \in UsedBy(G[p], p) PROVE r.disk[m] = disk[m]
  <2>1. CASE m = p
    <3>1. m \in Blocks
      BY <1>0, <2>1, PlaceOf
    <3>2. \A l \in 1 .. Len(G[i].blocks) : m # G[i].blocks[l]
      BY <1>0, <2>1, BlockAt
    <3> QED BY <1>1, <3>1, <3>2
  <2>2. CASE \E l \in 1 .. Len(G[p].blocks) : m = G[p].blocks[l]
    <3>1. PICK l \in 1 .. Len(G[p].blocks) : m = G[p].blocks[l]
      BY <2>2
    <3>2. m \in Blocks
      BY <1>0, <3>1, BlockAt
    <3>3. \A y \in 1 .. Len(G[i].blocks) : m # G[i].blocks[y]
      BY <1>0, <3>1 DEF Layout, BlocksOnce
    <3> QED BY <1>1, <3>2, <3>3
  <2> QED BY <2>1, <2>2 DEF UsedBy, BlocksOf
<1>3. HoldsAt(disk, G[p], p)
  BY <1>0 DEF Holds
<1>4. HoldsAt(r.disk, G[p], p)
  BY <1>0, <1>2, <1>3, HoldsAtFrame
<1> QED BY <1>1, <1>4

\* The fields of a list block.
LEMMA ListFacts ==
  ASSUME NEW flag, NEW addr, NEW inode, NEW next
  PROVE  /\ List(flag, addr, inode, next).addr = addr /\ List(flag, addr, inode, next).next = next
         /\ List(flag, addr, inode, next).inode = inode /\ List(flag, addr, inode, next).flag = flag
BY DEF List

\* A list block that leads to another is a list block.
LEMMA ListTurned ==
  ASSUME NEW flag, NEW addr, NEW inode, NEW next, NEW other, NEW b, b = List(flag, addr, inode, next)
  PROVE  [b EXCEPT !.next = other] = List(flag, addr, inode, other)
BY DEF List

\* Where the entry is.
LEMMA EntryIs ==
  ASSUME NEW G, Ready(G), NEW i, NEW p, NEW k, Removable(G, i, p, k), NEW r, Within(r, G, i),
         NEW t, t = disk[i]
  PROVE  /\ ParentList(r, t) = G[p].blocks /\ Entry(r, t) = {k} /\ Min(Entry(r, t)) = k
         /\ Node(r, t) = G[p].blocks[k] /\ t.addr = i /\ t.parent = p /\ r.disk[Node(r, t)].next = G[p].blocks[k + 1]
<1> DEFINE b == G[p].blocks
           kids == G[p].kids
<1>0. i \in DOMAIN G /\ p \in DOMAIN G /\ G[p].dir /\ k \in 1 .. Len(kids) /\ kids[k] = i /\ G[i].parent = p
      /\ Layout(G) /\ Holds(disk, G)
  BY DEF Removable, Ready
<1>1. DOMAIN r.disk = Blocks /\ HoldsAt(r.disk, G[p], p)
  BY ParentKept
<1>2. t.addr = i /\ t.parent = p
  BY <1>0, InodeIs DEF Holds
<1>3. ParentList(r, t) = b
  <2>1. AsInode(r.disk[p]).start = b[1] /\ Walk(r.disk, b[1]) = b
    BY <1>0, <1>1, InodeIs, WalkIs
  <2> QED BY <1>2, <2>1 DEF ParentList
<1>4. Len(b) = Len(kids) + 1 /\ Len(kids) \in Nat
  <2>1. Len(kids) \in Nat /\ KindOK(G[p])
    BY <1>0, PlaceOf
  <2> QED BY <1>0, <2>1 DEF KindOK
<1>5. ASSUME NEW l \in 1 .. Len(kids) PROVE r.disk[b[l]].inode = kids[l] /\ r.disk[b[l]].next = b[l + 1]
  <2> DEFINE x == b[l]
             y == kids[l]
             z == b[l + 1]
             B == r.disk[b[l]]
  <2>1. B = List(1, x, y, z)
    BY <1>0, <1>1 DEF HoldsAt, HoldsList
  <2> HIDE DEF x, y, z, B
  <2>2. B.inode = y /\ B.next = z
    BY <2>1, ListFacts
  <2> QED BY <2>2 DEF y, z, B
<1>6. \A l \in 1 .. Len(kids) : kids[l] = i => l = k
  BY <1>0 DEF Layout, NamesOnce
<1>7. Entry(r, t) = {k}
  <2>1. Entry(r, t) = {l \in 1 .. Len(b) - 1 : r.disk[b[l]].inode = i}
    BY <1>2, <1>3 DEF Entry
  <2>2. Len(b) - 1 = Len(kids)
    BY <1>4
  <2>3. Entry(r, t) = {l \in 1 .. Len(kids) : kids[l] = i}
    BY <1>5, <2>1, <2>2
  <2> QED BY <1>0, <1>6, <2>3
<1>8. Min(Entry(r, t)) = k
  <2>1. k \in Nat
    BY <1>0
  <2>2. Entry(r, t) \subseteq Nat /\ Entry(r, t) # {}
    BY <1>7, <2>1
  <2>3. Min(Entry(r, t)) \in Entry(r, t)
    BY <2>2, LeastIsIn
  <2> QED BY <1>7, <2>3
<1>9. Node(r, t) = b[k]
  BY <1>3, <1>8 DEF Node
<1> QED BY <1>0, <1>2, <1>3, <1>5, <1>7, <1>8, <1>9

\* The block that leads past it.
LEMMA NewLinkIs ==
  ASSUME NEW G, Ready(G), NEW i, NEW p, NEW k, Removable(G, i, p, k), NEW r, Within(r, G, i),
         NEW t, t = disk[i]
  PROVE  /\ NewLink(r, t).addr = LinkOf(G, p, k) /\ NewLink(r, t) \in Block
         /\ k > 1 => NewLink(r, t) = List(1, G[p].blocks[k - 1], G[p].kids[k - 1], G[p].blocks[k + 1])
         /\ k = 1 => NewLink(r, t) = InodeOf(Shrunk(G[p], k), p)
<1> DEFINE b == G[p].blocks
           kids == G[p].kids
           o == b[k + 1]
           link == NewLink(r, t)
<1>0. p \in DOMAIN G /\ G[p].dir /\ k \in 1 .. Len(kids) /\ Layout(G)
  BY DEF Removable, Ready
<1>1. r.disk \in Disks /\ HoldsAt(r.disk, G[p], p)
  BY ParentKept
<1>2. /\ ParentList(r, t) = b /\ Min(Entry(r, t)) = k /\ t.parent = p /\ r.disk[Node(r, t)].next = o
  BY EntryIs
<1>3. Len(b) = Len(kids) + 1 /\ Len(kids) \in Nat /\ k \in Nat /\ k + 1 \in 1 .. Len(b) /\ b \in Seq(Numbers)
  <2>1. Len(kids) \in Nat /\ KindOK(G[p]) /\ b \in Seq(Numbers)
    BY <1>0, PlaceOf
  <2> QED BY <1>0, <2>1 DEF KindOK
<1>4. o \in Nat
  BY <1>0, <1>3, BlockAt
<1> HIDE DEF o
<1>5. CASE k > 1
  <2> DEFINE x == b[k - 1]
             y == kids[k - 1]
             z == b[k]
             B == r.disk[b[k - 1]]
  <2>0. k - 1 \in 1 .. Len(kids) /\ k - 1 \in 1 .. Len(b) /\ (k - 1) + 1 = k
    BY <1>0, <1>3, <1>5
  <2>1. B = List(1, x, y, z)
    BY <1>0, <1>1, <2>0 DEF HoldsAt, HoldsList
  <2>2. link = [B EXCEPT !.next = o]
    BY <1>2, <1>5 DEF NewLink
  <2>3. x \in Nat /\ y \in Nat
    <3>1. x \in Nat
      BY <1>0, <2>0, BlockAt
    <3>2. y \in DOMAIN G
      BY <1>0, <2>0, KidAt
    <3>3. y \in Nat
      BY <1>0, <3>2, PlaceOf
    <3> QED BY <3>1, <3>3
  <2>4. LinkOf(G, p, k) = x
    BY <1>5 DEF LinkOf
  <2> HIDE DEF x, y, z, B, link
  <2>5. link = List(1, x, y, o)
    BY <2>1, <2>2, ListTurned
  <2>6. link.addr = x
    BY <2>5, ListFacts
  <2>7. link \in Block
    BY <1>4, <2>3, <2>5, ListIsBlock
  <2>8. k # 1
    BY <1>3, <1>5
  <2> QED BY <2>4, <2>5, <2>6, <2>7, <2>8 DEF x, y, link, o
<1>6. CASE k = 1
  <2>1. r.disk[p] = InodeOf(G[p], p) /\ AsInode(r.disk[p]) = r.disk[p]
    BY <1>0, <1>1, InodeIs
  <2>2. link = [AsInode(r.disk[p]) EXCEPT !.start = o]
    <3>1. ~(k > 1)
      BY <1>6
    <3> QED BY <1>2, <3>1 DEF NewLink
  <2>3. link = [InodeOf(G[p], p) EXCEPT !.start = o]
    BY <2>1, <2>2
  <2>4. Shrunk(G[p], k).blocks[1] = o
    <3>1. k \in 1 .. Len(b) /\ 1 \in 1 .. Len(b) - 1 /\ Skipped(k, 1) = k + 1
      BY <1>0, <1>3, <1>6 DEF Skipped
    <3>2. RemoveAt(b, k)[1] = b[k + 1]
      BY <1>3, <3>1, RemovedIs
    <3> QED BY <3>2 DEF Shrunk, o
  <2>5. InodeOf(Shrunk(G[p], k), p) =
          [kind |-> "inode", flag |-> 1, isDirectory |-> G[p].dir, name |-> G[p].name,
           parent |-> G[p].parent, start |-> o, size |-> G[p].size, addr |-> p]
    <3> DEFINE g == Shrunk(G[p], k)
    <3>1. g.dir = G[p].dir /\ g.name = G[p].name /\ g.parent = G[p].parent /\ g.size = G[p].size /\ g.blocks[1] = o
      BY <2>4 DEF Shrunk
    <3> HIDE DEF g
    <3>2. InodeOf(g, p) =
            [kind |-> "inode", flag |-> 1, isDirectory |-> G[p].dir, name |-> G[p].name,
             parent |-> G[p].parent, start |-> o, size |-> G[p].size, addr |-> p]
      BY <3>1 DEF InodeOf
    <3> QED BY <3>2 DEF g
  <2>6. link = InodeOf(Shrunk(G[p], k), p)
    <3>1. [InodeOf(G[p], p) EXCEPT !.start = o] =
            [kind |-> "inode", flag |-> 1, isDirectory |-> G[p].dir, name |-> G[p].name,
             parent |-> G[p].parent, start |-> o, size |-> G[p].size, addr |-> p]
      BY DEF InodeOf
    <3> QED BY <2>3, <2>5, <3>1
  <2>7. G[p].dir \in BOOLEAN /\ G[p].name \in Names \cup {NoName} /\ G[p].parent \in Nat /\ G[p].size \in Nat /\ p \in Nat
    <3>1. G[p].parent \in DOMAIN G /\ G[p].size \in 0 .. MaxSize
      BY <1>0, PlaceOf
    <3>2. G[p].parent \in Nat
      BY <1>0, <3>1, PlaceOf
    <3>3. G[p].dir \in BOOLEAN /\ G[p].name \in Names \cup {NoName} /\ p \in Nat
      BY <1>0, PlaceOf
    <3>4. G[p].size \in Nat
      BY <3>1, SizesAssumption
    <3> QED BY <3>2, <3>3, <3>4
  <2>8. link \in Block /\ link.addr = p
    <3> HIDE DEF link
    <3>1. link = [kind |-> "inode", flag |-> 1, isDirectory |-> G[p].dir, name |-> G[p].name,
                  parent |-> G[p].parent, start |-> o, size |-> G[p].size, addr |-> p]
      BY <2>5, <2>6
    <3> QED BY <1>4, <2>7, <3>1 DEF Block
  <2>9. LinkOf(G, p, k) = p /\ ~(k > 1)
    BY <1>6 DEF LinkOf
  <2> QED BY <2>6, <2>8, <2>9
<1>7. k > 1 \/ k = 1
  BY <1>0, <1>3
<1> QED BY <1>5, <1>6, <1>7

\* An object that is taken out loses the blocks of its own that have not been freed before.
LEMMA RemovedSpills ==
  ASSUME NEW G, Layout(G), NEW i, NEW p, NEW k, Removable(G, i, p, k), NEW H, IsWithout(H, G, i, p, k),
         NEW f, EntryRemoved(f, disk, G, i, p, k), f[i] = Zero, f[G[p].blocks[k]] = Zero, DOMAIN disk = Blocks
  PROVE  Spills(f, G, H, {m \in BlocksOf(G[i]) : f[m].flag # 0})
<1> DEFINE x == LinkOf(G, p, k)
           y == G[p].blocks[k]
           X == {m \in BlocksOf(G[i]) : f[m].flag # 0}
<1>1. /\ DOMAIN H = DOMAIN G \ {i} /\ p \in DOMAIN H /\ i \in DOMAIN G /\ p \in DOMAIN G
      /\ \A j \in DOMAIN H : j # p => H[j] = G[j]
      /\ H[p].blocks = RemoveAt(G[p].blocks, k)
  BY DEF IsWithout, Removable, Shrunk
<1>2. /\ G[p].blocks \in Seq(Numbers) /\ Len(G[p].blocks) \in Nat /\ k \in 1 .. Len(G[p].blocks)
  <2>1. G[p].blocks \in Seq(Numbers) /\ Len(G[p].blocks) \in Nat /\ Len(G[p].kids) \in Nat /\ KindOK(G[p])
    BY <1>1, PlaceOf
  <2> QED BY <2>1 DEF Removable, KindOK
<1>3. ASSUME NEW l \in 1 .. Len(G[p].blocks), l # k PROVE G[p].blocks[l] \in BlocksOf(H[p])
  <2> DEFINE b == G[p].blocks
             n == Len(b)
             c == H[p].blocks
  <2>1. b \in Seq(Numbers) /\ n \in Nat /\ k \in 1 .. n /\ l \in 1 .. n
    BY <1>2
  <2>2. c = RemoveAt(b, k)
    BY <1>1
  <2> HIDE DEF c
  <2>3. Len(c) = n - 1
    BY <2>1, <2>2, RemovedType
  <2>4. \A m \in 1 .. n - 1 : c[m] = b[Skipped(k, m)]
    BY <2>1, <2>2, RemovedIs
  <2> HIDE DEF n
  <2>5. \E m \in 1 .. n - 1 : Skipped(k, m) = l
    <3>1. n \in Nat /\ k \in 1 .. n /\ l \in 1 .. n /\ l # k
      BY <1>3, <2>1
    <3>2. \A m \in 1 .. n : m # k => \E q \in 1 .. n - 1 : Skipped(k, q) = m
      BY <3>1, SkippedIs
    <3> QED BY <3>1, <3>2
  <2> HIDE DEF b
  <2>6. b[l] \in {c[m] : m \in 1 .. n - 1}
    BY <2>4, <2>5
  <2> QED BY <2>3, <2>6 DEF BlocksOf, b, c
<1>4. ASSUME NEW n \in Owned(G), n # i, n # y, n \notin BlocksOf(G[i]) PROVE n \in Owned(H)
  <2>1. PICK j \in DOMAIN G : n \in {0, j} \cup BlocksOf(G[j])
    BY DEF Owned
  <2>2. CASE n = 0
    BY <1>1, <2>2 DEF Owned
  <2>3. CASE n # 0 /\ j = p
    <3>1. n = p \/ n \in BlocksOf(H[p])
      BY <1>3, <1>4, <2>1, <2>3 DEF BlocksOf
    <3> QED BY <1>1, <3>1 DEF Owned
  <2>4. CASE n # 0 /\ j # p
    <3>1. j # i
      BY <1>4, <2>1, <2>4
    <3>2. j \in DOMAIN H /\ H[j] = G[j]
      BY <1>1, <2>4, <3>1
    <3> QED BY <2>1, <3>2 DEF Owned
  <2> QED BY <2>2, <2>3, <2>4
<1>5. x \in Owned(H)
  <2>1. CASE k > 1
    <3>1. k - 1 \in 1 .. Len(G[p].blocks) /\ k - 1 # k
      BY <1>2, <2>1
    <3>2. x \in BlocksOf(H[p])
      BY <1>3, <2>1, <3>1 DEF LinkOf
    <3> QED BY <1>1, <3>2 DEF Owned
  <2>2. CASE ~(k > 1)
    BY <1>1, <2>2 DEF LinkOf, Owned
  <2> QED BY <2>1, <2>2
<1>6. DOMAIN f = Blocks /\ \A m \in Blocks : m \notin {x, y, i} /\ m \notin BlocksOf(G[i]) => f[m] = disk[m]
  BY DEF EntryRemoved, Disks, BlocksOf
<1>7. ASSUME NEW n \in Flagged(f) PROVE n \in X \/ n \in Owned(H) \/ (n \in Flagged(disk) /\ n \notin Owned(G))
  <2>1. n \in Blocks /\ f[n].flag # 0 /\ n # i /\ n # y
    BY <1>6, <1>7 DEF Flagged, Zero
  <2>2. CASE n \in BlocksOf(G[i])
    BY <2>1, <2>2
  <2>3. CASE n = x
    BY <1>5, <2>3
  <2>4. CASE n # x /\ n \notin BlocksOf(G[i])
    <3>1. f[n] = disk[n]
      BY <1>6, <2>1, <2>4
    <3> HIDE DEF x, y
    <3> QED BY <1>4, <2>1, <2>4, <3>1 DEF Flagged
  <2> QED BY <2>2, <2>3, <2>4
<1> QED BY <1>7 DEF Spills

\* The blocks of an inode that are not free yet.
StillTaken(r, g) == {m \in BlocksOf(g) : r.disk[m].flag # 0}

\* Until the entry is taken out, a crash leaves every file but the one to be removed.
LEMMA WithoutSpares ==
  ASSUME NEW G, Layout(G), Holds(disk, G), NEW i, NEW p, NEW k, Removable(G, i, p, k),
         NEW H, IsWithout(H, G, i, p, k), NEW r, Within(r, G, i), ~G[i].dir \/ r = Begin, NEW c
  PROVE  RunIn(disk, r, Sparing(ObjectsOf(H), c))
<1> DEFINE obj == ObjectsOf(H)
           S == Sparing(obj, c)
<1>1. DOMAIN obj = DOMAIN H /\ DOMAIN H = DOMAIN G \ {i} /\ i \in DOMAIN G
      /\ \A j \in DOMAIN H : obj[j] = ObjectOf(H[j])
  BY DEF ObjectsOf, IsWithout, Removable
<1>2. Nobody \notin DOMAIN G
  BY PlaceOf DEF Nobody
<1> HIDE DEF obj
<1>3. ASSUME NEW j \in DOMAIN obj, ~obj[j].dir
      PROVE  /\ j \in DOMAIN G /\ j # i /\ j # Nobody /\ ~G[j].dir
             /\ obj[j].name = G[j].name /\ obj[j].data = SubSeq(G[j].data, 1, G[j].size)
  <2> DEFINE x == SubSeq(G[j].data, 1, G[j].size)
  <2>1. j \in DOMAIN G /\ j # i /\ j # Nobody /\ obj[j] = ObjectOf(H[j])
    BY <1>1, <1>2
  <2>2. H[j].dir = G[j].dir /\ H[j].name = G[j].name /\ H[j].size = G[j].size /\ H[j].data = G[j].data
    BY <1>1 DEF IsWithout
  <2>3. obj[j] = [dir |-> G[j].dir, name |-> G[j].name, kids |-> H[j].kids, data |-> x]
    BY <2>1, <2>2 DEF ObjectOf
  <2> HIDE DEF x
  <2>4. obj[j].dir = G[j].dir /\ obj[j].name = G[j].name /\ obj[j].data = x
    BY <2>3
  <2> QED BY <1>3, <2>1, <2>4 DEF x
<1>4. S \subseteq Disks
  BY DEF Sparing
<1>5. CASE ~G[i].dir
  <2>1. Spares(obj, G, i, Nobody, c)
    BY <1>1, <1>2, <1>3, <1>5 DEF Spares
  <2>2. Around(G, i) \subseteq S
    BY <2>1, AroundSpares
  <2>3. Beside(G, i) \subseteq S
    BY <1>1, <1>5, <2>2, BesideAround
  <2>4. RunIn(disk, r, Beside(G, i))
    BY DEF Within
  <2> HIDE DEF S
  <2>5. RunIn(disk, r, S)
    BY <1>4, <2>3, <2>4, RunMore
  <2> QED BY <2>5 DEF S, obj
<1>6. CASE r = Begin
  <2>1. Spares(obj, G, Nobody, Nobody, c)
    BY <1>1, <1>2, <1>3 DEF Spares
  <2>2. Around(G, Nobody) \subseteq S
    BY <2>1, AroundSpares
  <2>3. disk \in S
    BY <2>2, HeldAround DEF Held, Holds
  <2> HIDE DEF S
  <2>4. RunIn(disk, Begin, S)
    BY <1>4, <2>3, BeginIn
  <2> QED BY <1>6, <2>4 DEF S, obj
<1> QED BY <1>5, <1>6

\* The entry is taken out, and the inode and its list block are freed.
LEMMA TakeOutDoes ==
  ASSUME NEW G, Ready(G), NEW i, NEW p, NEW k, Removable(G, i, p, k), NEW r, Within(r, G, i),
         ~G[i].dir \/ r = Begin, NEW c, TakeOut(c, r, disk[i])
  PROVE  /\ After(DropObject(goal.objects, i)) /\ call' = Result(c, 0, <<>>)
         /\ Loses(StillTaken(r, G[i])) /\ Careful(c)
<1> DEFINE t == disk[i]
           link == NewLink(r, t)
           x == LinkOf(G, p, k)
           y == G[p].blocks[k]
           r1 == Put(r, x, link)
           r2 == Put(r1, y, Zero)
           r3 == Put(r2, i, Zero)
           f == r3.disk
           H == WithoutEntry(G, i, p, k)
<1>0. /\ host = FALSE /\ Layout(G) /\ Holds(disk, G) /\ goal.objects = ObjectsOf(G) /\ goal.objects = Objects(disk)
      /\ i \in DOMAIN G /\ p \in DOMAIN G /\ p # i /\ G[p].dir /\ k \in 1 .. Len(G[p].kids)
  BY ObjectsIs DEF Ready, Removable
<1>1. RunOK(disk, r) /\ r.disk \in Disks
      /\ \A m \in Blocks : (\A l \in 1 .. Len(G[i].blocks) : m # G[i].blocks[l]) => r.disk[m] = disk[m]
  BY DEF Within, RunOK
<1>2. Entry(r, t) = {k} /\ Node(r, t) = y /\ t.addr = i
  BY EntryIs
<1>3. link.addr = x /\ link \in Block
  BY NewLinkIs
<1>4. (k > 1 => link = List(1, G[p].blocks[k - 1], G[p].kids[k - 1], G[p].blocks[k + 1]))
      /\ (k = 1 => link = InodeOf(Shrunk(G[p], k), p))
  BY NewLinkIs
<1>5. Unlink(r, t) = r3
  <2>1. Entry(r, t) # {}
    BY <1>2
  <2> QED BY <1>2, <1>3, <2>1 DEF Unlink, Dfree
<1>6. Return(c, 0, <<>>, r3)
  <2>1. TakeOut(c, r, t)
    OBVIOUS
  <2>2. Entry(r, t) # {}
    BY <1>2
  <2>3. Return(c, 0, <<>>, Unlink(r, t))
    BY <2>1, <2>2 DEF TakeOut
  <2> QED BY <1>5, <2>3
<1>7. x \in Blocks /\ x # i /\ x # y
  BY <1>0, LinkIs
<1>8. y \in Blocks /\ y # i
  <2>1. k \in 1 .. Len(G[p].blocks)
    <3>1. Len(G[p].kids) \in Nat /\ KindOK(G[p])
      BY <1>0, PlaceOf
    <3> QED BY <1>0, <3>1 DEF KindOK
  <2> QED BY <1>0, <2>1, BlockAt
<1>9. i \in Blocks /\ Zero \in Block
  BY <1>0, PlaceOf, FlagIsBlock
<1> DEFINE z == Zero
<1>10. z \in Block /\ r2 = Put(r1, y, z) /\ r3 = Put(r2, i, z)
  BY <1>9
<1> HIDE DEF t, link, x, y, z, r1, r2, r3
<1>11. RunOK(disk, r1) /\ r1.disk = Written(r.disk, x, link)
  <2>1. RunOK(disk, r) /\ x \in Blocks /\ link \in Block /\ r1 = Put(r, x, link)
    BY <1>1, <1>3, <1>7 DEF r1
  <2> QED BY <1>0, <2>1, PutIs
<1>12. RunOK(disk, r2) /\ r2.disk = Written(r1.disk, y, z)
  BY <1>0, <1>8, <1>10, <1>11, PutIs
<1>13. RunOK(disk, r3) /\ r3.disk = Written(r2.disk, i, z)
  BY <1>0, <1>9, <1>10, <1>12, PutIs
<1>14. r1.disk \in Disks /\ r2.disk \in Disks /\ f \in Disks
  BY <1>11, <1>12, <1>13 DEF RunOK
<1>15. r1.disk[x] = link /\ \A m \in Blocks : m # x => r1.disk[m] = r.disk[m]
  BY <1>1, <1>3, <1>7, <1>11, OneWritten
<1>16. r2.disk[y] = z /\ \A m \in Blocks : m # y => r2.disk[m] = r1.disk[m]
  BY <1>8, <1>10, <1>12, <1>14, OneWritten
<1>17. f[i] = z /\ \A m \in Blocks : m # i => f[m] = r2.disk[m]
  <2>1. r2.disk \in Disks /\ i \in Blocks /\ z \in Block /\ f = Written(r2.disk, i, z)
    BY <1>9, <1>10, <1>13, <1>14
  <2> QED BY <2>1, OneWritten
<1> HIDE DEF f
<1>18. f[x] = link
  BY <1>7, <1>15, <1>16, <1>17
<1>19. \A m \in Blocks : m \notin {x, y, i} /\ (\A l \in 1 .. Len(G[i].blocks) : m # G[i].blocks[l]) => f[m] = disk[m]
  BY <1>1, <1>15, <1>16, <1>17
<1>20. EntryRemoved(f, disk, G, i, p, k)
  BY <1>4, <1>14, <1>18, <1>19 DEF EntryRemoved, x, y
<1>21. IsWithout(H, G, i, p, k)
  BY <1>0, WithoutFacts
<1> HIDE DEF H
<1>22. Layout(H) /\ Holds(f, H)
  BY <1>0, <1>20, <1>21, WithoutLayout, WithoutHolds
<1>23. ObjectsOf(H) = DropObject(goal.objects, i)
  <2>1. ObjectsOf(H) = DropObject(ObjectsOf(G), i)
    BY <1>0, <1>21, WithoutObjects
  <2> QED BY <1>0, <2>1
<1>24. After(ObjectsOf(H)) /\ call' = Result(c, 0, <<>>) /\ goal'.lost = LostBlocks(f)
  <2>1. goal.lost = LostBlocks(disk)
    BY DEF Ready
  <2> QED BY <1>0, <1>6, <1>13, <1>22, <2>1, ReturnLeads DEF f
<1> DEFINE X == {m \in BlocksOf(G[i]) : f[m].flag # 0}
<1>25. Loses(X)
  <2>1. f[i] = Zero /\ f[G[p].blocks[k]] = Zero /\ DOMAIN disk = Blocks
    BY <1>0, <1>8, <1>16, <1>17 DEF z, y, Holds, Disks
  <2>2. Spills(f, G, H, X)
    BY <1>0, <1>20, <1>21, <2>1, RemovedSpills
  <2> HIDE DEF X
  <2> QED BY <1>22, <1>24, <2>2, SpillsLose
<1>26. X \subseteq StillTaken(r, G[i])
  <2> SUFFICES ASSUME NEW m \in BlocksOf(G[i]), f[m].flag # 0 PROVE r.disk[m].flag # 0
    BY DEF StillTaken
  <2>1. m \in Blocks /\ m # i
    BY <1>0, BlockAt DEF BlocksOf
  <2>2. m # x /\ m # y
    <3>1. PICK l \in 1 .. Len(G[i].blocks) : m = G[i].blocks[l]
      BY DEF BlocksOf
    <3>2. x \in UsedBy(G[p], p) /\ y \in UsedBy(G[p], p)
      BY <1>0, LinkIs DEF x, y
    <3>3. m # p
      BY <1>0, <3>1, BlockAt
    <3>4. \A j \in 1 .. Len(G[p].blocks) : m # G[p].blocks[j]
      BY <1>0, <3>1 DEF Layout, BlocksOnce
    <3> QED BY <3>2, <3>3, <3>4 DEF UsedBy, BlocksOf
  <2> QED BY <1>15, <1>16, <1>17, <2>1, <2>2
<1>27. Loses(StillTaken(r, G[i]))
  BY <1>25, <1>26 DEF Loses
<1>28. EntryRemoved(r1.disk, disk, G, i, p, k)
  BY <1>1, <1>4, <1>14, <1>15 DEF EntryRemoved, x, y
<1>29. EntryRemoved(r2.disk, disk, G, i, p, k)
  <2>1. r2.disk[x] = link
    BY <1>7, <1>15, <1>16
  <2>2. \A m \in Blocks : m \notin {x, y, i} /\ (\A l \in 1 .. Len(G[i].blocks) : m # G[i].blocks[l])
                           => r2.disk[m] = disk[m]
    BY <1>1, <1>15, <1>16
  <2> QED BY <1>4, <1>14, <2>1, <2>2 DEF EntryRemoved, x, y
<1>30. {r1.disk, r2.disk, f} \subseteq Held(H)
  <2>1. Holds(r1.disk, H)
    BY <1>0, <1>21, <1>28, WithoutHolds
  <2>2. Holds(r2.disk, H)
    BY <1>0, <1>21, <1>29, WithoutHolds
  <2> QED BY <1>14, <1>22, <2>1, <2>2 DEF Held
<1>31. Careful(c)
  <2> DEFINE S == Sparing(ObjectsOf(H), c)
  <2>1. {r1.disk, r2.disk, f} \subseteq S
    BY <1>22, <1>30, OwnSpares
  <2>2. RunIn(disk, r, S)
    BY <1>0, <1>21, WithoutSpares
  <2> HIDE DEF S
  <2>3. r1 = Put(r, x, link) /\ r1.disk = Written(r.disk, x, link) /\ x \in Blocks /\ link \in Block
    BY <1>3, <1>7, <1>11 DEF r1
  <2>4. PutGoes(disk, r, x, link, S)
    BY <1>0, <2>1, <2>2, <2>3, PutIn
  <2>5. RunIn(disk, r1, S)
    BY <2>3, <2>4 DEF PutGoes
  <2>6. PutGoes(disk, r1, y, z, S)
    BY <1>0, <1>8, <1>10, <1>12, <2>1, <2>5, PutIn
  <2>7. RunIn(disk, r2, S)
    BY <1>10, <2>6 DEF PutGoes
  <2>8. PutGoes(disk, r2, i, z, S)
    BY <1>0, <1>9, <1>10, <1>13, <2>1, <2>7, PutIn DEF f
  <2>9. RunIn(disk, r3, S)
    BY <1>10, <2>8 DEF PutGoes
  <2>10. goal'.objects = ObjectsOf(H)
    BY <1>24 DEF After
  <2>11. RunIn(disk, r3, Sparing(goal'.objects, c))
    BY <2>9, <2>10 DEF S
  <2> QED BY <1>6, <2>11, ReturnSpares
<1> QED BY <1>23, <1>24, <1>27, <1>31

\* fs_rm() does what is promised.
LEMMA RmDoes ==
  ASSUME Calm, NEW G, Ready(G), NEW path \in Paths, FsRm(path)
  PROVE  Done("rm") /\ Promise!Rm(path)
<1> DEFINE at == FindInode(disk, path)
           whole == Last(DataBlocks(disk, at.inode.start)) \in DOMAIN disk
<1>1. Straight(path) /\ path \in Seq(Names)
  BY PathType DEF FsRm, Called, Calm
<1>2. \/ at.st = "lost"
      \/ at.st # "lost" /\ ~IsFile(at) /\ Return("rm", -1, <<>>, Begin)
      \/ IsFile(at) /\ ~whole
      \/ IsFile(at) /\ whole /\ TakeOut("rm", FreeData(Begin, at.inode.start), at.inode)
  BY DEF FsRm
<1>3. CASE ~IsFile(at)
  <2>1. at.st # "lost" /\ Promise!File(path) = {}
    BY <1>1, <1>3, FoundIs
  <2>2. After(goal.objects) /\ call' = Result("rm", -1, <<>>) /\ Loses({}) /\ Careful("rm")
    BY <1>2, <1>3, <2>1, ReturnAtOnce
  <2>3. Done("rm")
    BY <2>2, ContentType, DoneIs
  <2>4. Promise!Refuse("rm", -1)
    BY <2>2 DEF Promise!Refuse, Promise!Result, Result, After
  <2> QED BY <1>3, <2>1, <2>3, <2>4 DEF Promise!Rm
<1>4. CASE IsFile(at)
  <2>1. at.st # "lost" /\ \E i \in DOMAIN G : at.inode = disk[i] /\ ~G[i].dir /\ Promise!File(path) = {i}
    BY <1>1, <1>4, FoundIs
  <2>2. PICK i \in DOMAIN G : at.inode = disk[i] /\ ~G[i].dir /\ Promise!File(path) = {i}
    BY <2>1
  <2>3. Layout(G) /\ DOMAIN disk = Blocks /\ HoldsAt(disk, G[i], i) /\ goal.objects = ObjectsOf(G)
    BY DEF Ready, Holds, Disks
  <2>4. whole
    <3>1. DataBlocks(disk, disk[i].start) = G[i].blocks
      BY <2>2, <2>3, InodeIs, DataBlocksIs
    <3>2. Len(G[i].blocks) \in 1 .. Len(G[i].blocks)
      BY <2>3, PlaceOf
    <3>3. Last(G[i].blocks) \in Blocks
      BY <2>3, <3>2, BlockAt DEF Last
    <3> QED BY <2>2, <2>3, <3>1, <3>3
  <2>5. TakeOut("rm", FreeData(Begin, disk[i].start), disk[i])
    BY <1>2, <1>4, <2>1, <2>2, <2>4
  <2>6. i # Root /\ G[i].kids = <<>>
    <3>1. KindOK(G[i])
      BY <2>3, PlaceOf
    <3> QED BY <2>2, <2>3, <3>1 DEF KindOK, Layout, RootOK
  <2>7. PICK p, k : Removable(G, i, p, k)
    BY <2>3, <2>6, HasPlace
  <2> DEFINE r == FreeData(Begin, disk[i].start)
  <2>8. /\ Within(r, G, i) /\ TakeOut("rm", r, disk[i])
        /\ \A l \in 1 .. Len(G[i].blocks) : r.disk[G[i].blocks[l]] = Zero
    BY <2>2, <2>5, FreeDataIs
  <2> HIDE DEF r
  <2>13. StillTaken(r, G[i]) = {}
    BY <2>8 DEF StillTaken, BlocksOf, Zero
  <2>9. After(DropObject(goal.objects, i)) /\ call' = Result("rm", 0, <<>>) /\ Loses({}) /\ Careful("rm")
    <3>1. /\ After(DropObject(goal.objects, i)) /\ call' = Result("rm", 0, <<>>)
          /\ Loses(StillTaken(r, G[i])) /\ Careful("rm")
      BY <2>2, <2>7, <2>8, TakeOutDoes
    <3> QED BY <2>13, <3>1
  <2>10. Done("rm")
    BY <2>9, ContentType, DoneIs
  <2>11. goal'.objects = DropObject(goal.objects, i) /\ call' = Promise!Result("rm", 0, <<>>)
    BY <2>9 DEF After, Promise!Result, Result
  <2>12. Promise!Drop(i)
    BY <2>11 DEF Promise!Drop, DropObject
  <2> QED BY <2>2, <2>10, <2>11, <2>12 DEF Promise!Rm
<1> QED BY <1>3, <1>4

\* The flag that tells fs_rmdir() whether a directory is empty.
LEMMA FirstFlagIs ==
  ASSUME NEW G, Ready(G), NEW i \in DOMAIN G, G[i].dir
  PROVE  FirstFlag(disk[i]) = {IF G[i].kids = <<>> THEN 2 ELSE 1}
<1> DEFINE b == G[i].blocks
           kids == G[i].kids
<1>1. Layout(G) /\ DOMAIN disk = Blocks /\ HoldsAt(disk, G[i], i)
  BY DEF Ready, Holds, Disks
<1>2. kids \in Seq(DOMAIN G) /\ Len(kids) \in Nat /\ Len(b) >= 1 /\ Len(b) \in Nat
  BY <1>1, PlaceOf
<1>3. disk[i].start = b[1] /\ b[1] \in DOMAIN disk
  <2>1. 1 \in 1 .. Len(b)
    BY <1>2
  <2> QED BY <1>1, <2>1, InodeIs, BlockAt
<1>4. FirstFlag(disk[i]) = {disk[b[1]].flag}
  BY <1>3 DEF FirstFlag
<1>5. HoldsList(disk, b, kids)
  BY <1>1 DEF HoldsAt
<1>6. CASE kids = <<>>
  <2>1. Len(kids) = 0 /\ Len(kids) + 1 = 1
    BY <1>6
  <2>2. disk[b[1]] = List(2, b[1], 0, 0)
    BY <1>5, <2>1 DEF HoldsList
  <2>3. disk[b[1]].flag = 2
    BY <2>2 DEF List
  <2> QED BY <1>4, <1>6, <2>3
<1>7. CASE kids # <<>>
  <2>1. 1 \in 1 .. Len(kids)
    BY <1>2, <1>7
  <2>2. disk[b[1]] = List(1, b[1], kids[1], b[1 + 1])
    BY <1>5, <2>1 DEF HoldsList
  <2>3. disk[b[1]].flag = 1
    BY <2>2 DEF List
  <2> QED BY <1>4, <1>7, <2>3
<1> QED BY <1>6, <1>7

\* fs_rmdir() does what is promised.
LEMMA RmdirDoes ==
  ASSUME Calm, NEW G, Ready(G), NEW path \in Paths, FsRmdir(path)
  PROVE  Done("rmdir") /\ Promise!Rmdir(path)
<1> DEFINE at == FindInode(disk, path)
<1>1. Straight(path) /\ path \in Seq(Names) /\ path # <<>>
  BY PathType DEF FsRmdir, Called, Calm
<1>2. \/ at.st = "lost"
      \/ at.st # "lost" /\ ~IsDirectory(at) /\ Return("rmdir", -1, <<>>, Begin)
      \/ /\ IsDirectory(at)
         /\ \E flag \in FirstFlag(at.inode) :
              \/ flag # 2 /\ Return("rmdir", -2, <<>>, Begin)
              \/ flag = 2 /\ TakeOut("rmdir", Begin, at.inode)
  BY DEF FsRmdir
<1>3. CASE ~IsDirectory(at)
  <2>1. at.st # "lost" /\ Promise!Directory(path) = {}
    BY <1>1, <1>3, FoundIs
  <2>2. After(goal.objects) /\ call' = Result("rmdir", -1, <<>>) /\ Loses({}) /\ Careful("rmdir")
    BY <1>2, <1>3, <2>1, ReturnAtOnce
  <2>3. Done("rmdir")
    BY <2>2, ContentType, DoneIs
  <2>4. Promise!Refuse("rmdir", -1)
    BY <2>2 DEF Promise!Refuse, Promise!Result, Result, After
  <2> QED BY <1>3, <2>1, <2>3, <2>4 DEF Promise!Rmdir
<1>4. CASE IsDirectory(at)
  <2>1. at.st # "lost" /\ \E i \in DOMAIN G : /\ at.inode = disk[i] /\ G[i].dir /\ Promise!Directory(path) = {i}
                                             /\ G[i].level = Len(path)
    BY <1>1, <1>4, FoundIs
  <2>2. PICK i \in DOMAIN G : /\ at.inode = disk[i] /\ G[i].dir /\ Promise!Directory(path) = {i}
                              /\ G[i].level = Len(path)
    BY <2>1
  <2>3. Layout(G) /\ disk \in Disks /\ goal.objects = ObjectsOf(G)
    BY DEF Ready, Holds
  <2>4. FirstFlag(at.inode) = {IF G[i].kids = <<>> THEN 2 ELSE 1}
    BY <2>2, FirstFlagIs
  <2>5. goal.objects[i].kids = G[i].kids
    BY <2>3 DEF ObjectsOf, ObjectOf
  <2>6. CASE G[i].kids # <<>>
    <3>1. Return("rmdir", -2, <<>>, Begin)
      BY <1>2, <1>4, <2>1, <2>4, <2>6
    <3>2. After(goal.objects) /\ call' = Result("rmdir", -2, <<>>) /\ Loses({}) /\ Careful("rmdir")
      BY <3>1, ReturnAtOnce
    <3>3. Done("rmdir")
      BY <3>2, ContentType, DoneIs
    <3>4. Promise!Refuse("rmdir", -2)
      BY <3>2 DEF Promise!Refuse, Promise!Result, Result, After
    <3> QED BY <2>2, <2>5, <2>6, <3>3, <3>4 DEF Promise!Rmdir
  <2>7. CASE G[i].kids = <<>>
    <3>1. TakeOut("rmdir", Begin, disk[i])
      BY <1>2, <1>4, <2>1, <2>2, <2>4, <2>7
    <3>2. i # Root
      <4>1. Len(path) # 0
        BY <1>1
      <4> QED BY <2>2, <2>3, <4>1 DEF Layout, RootOK
    <3>3. PICK p, k : Removable(G, i, p, k)
      BY <2>3, <2>7, <3>2, HasPlace
    <3>4. Within(Begin, G, i)
      BY <2>3, WithinBegin
    <3>5. /\ After(DropObject(goal.objects, i)) /\ call' = Result("rmdir", 0, <<>>)
          /\ Loses(StillTaken(Begin, G[i])) /\ Careful("rmdir")
      BY <3>1, <3>3, <3>4, TakeOutDoes
    <3>10. StillTaken(Begin, G[i]) \subseteq {G[i].blocks[1]}
      <4>1. Len(G[i].blocks) = 1
        <5>1. KindOK(G[i]) /\ Len(G[i].kids) = 0
          BY <2>3, <2>7, PlaceOf
        <5> QED BY <2>2, <5>1 DEF KindOK
      <4>2. BlocksOf(G[i]) = {G[i].blocks[1]}
        BY <4>1 DEF BlocksOf
      <4> QED BY <4>2 DEF StillTaken
    <3>11. Loses({G[i].blocks[1]})
      BY <3>5, <3>10 DEF Loses
    <3>6. Done("rmdir")
      <4>1. 0 \in -7 .. 0
        OBVIOUS
      <4> QED BY <3>5, <3>11, <4>1, ContentType, DoneLosing
    <3>7. goal'.objects = DropObject(goal.objects, i) /\ call' = Promise!Result("rmdir", 0, <<>>)
      BY <3>5 DEF After, Promise!Result, Result
    <3>8. Promise!Drop(i)
      BY <3>7 DEF Promise!Drop, DropObject
    <3>9. i \in Promise!Directory(path) \ {Root}
      BY <2>2, <3>2
    <3> QED BY <2>5, <2>7, <3>6, <3>7, <3>8, <3>9 DEF Promise!Rmdir
  <2> QED BY <2>6, <2>7
<1> QED BY <1>3, <1>4

-----------------------------------------------------------------------------
(***************************************************************************)
(* fs_init()                                                               *)
(***************************************************************************)
\* The layout of a file system that fs_init() has made: the root directory and the block that ends its list.
NewRoot(list) ==
  [dir |-> TRUE, name |-> NoName, parent |-> Root, level |-> 0, size |-> 0, blocks |-> <<list>>,
   kids |-> <<>>, data |-> <<>>]
NewLayout(list) == [j \in {Root} |-> NewRoot(list)]

\* The fields of an empty root directory.
LEMMA NewRootFacts ==
  ASSUME NEW list \in Numbers
  PROVE  /\ NewRoot(list).dir /\ NewRoot(list).name = NoName /\ NewRoot(list).parent = Root
         /\ NewRoot(list).level = 0 /\ NewRoot(list).size = 0
         /\ NewRoot(list).blocks \in Seq(Numbers) /\ Len(NewRoot(list).blocks) = 1
         /\ NewRoot(list).blocks[1] = list
         /\ NewRoot(list).kids = <<>> /\ NewRoot(list).data = <<>>
<1>1. <<list>> \in Seq(Numbers) /\ Len(<<list>>) = 1 /\ <<list>>[1] = list
  OBVIOUS
<1> DEFINE s == <<list>>
<1>2. s \in Seq(Numbers) /\ Len(s) = 1 /\ s[1] = list
  BY <1>1
<1>3. NewRoot(list) = [dir |-> TRUE, name |-> NoName, parent |-> Root, level |-> 0, size |-> 0, blocks |-> s,
                       kids |-> <<>>, data |-> <<>>]
  BY DEF NewRoot
<1> HIDE DEF s
<1> QED BY <1>2, <1>3

\* They have their types.
LEMMA NewRootPlaced ==
  ASSUME NEW list \in Numbers
  PROVE  NewRoot(list) \in Placed({Root})
<1> DEFINE s == <<list>>
           e == <<>>
           A == Chunks \cup {Blank}
<1>1. s \in Seq(Numbers) /\ e \in Seq({Root}) /\ e \in Seq(A)
  OBVIOUS
<1>2. 0 \in 0 .. Depth /\ 0 \in 0 .. MaxSize
  BY SizesAssumption
<1>3. NewRoot(list) = [dir |-> TRUE, name |-> NoName, parent |-> Root, level |-> 0, size |-> 0, blocks |-> s,
                       kids |-> e, data |-> e]
  BY DEF NewRoot
<1>4. Placed({Root}) =
        [dir : BOOLEAN, name : Names \cup {NoName}, parent : {Root}, level : 0 .. Depth, size : 0 .. MaxSize,
         blocks : Seq(Numbers), kids : Seq({Root}), data : Seq(A)]
  BY DEF Placed
<1> HIDE DEF s, e, A
<1> QED BY <1>1, <1>2, <1>3, <1>4

\* An empty root directory alone is a layout,
LEMMA NewLayoutIs ==
  ASSUME NEW list \in Numbers, list # Root
  PROVE  /\ Layout(NewLayout(list)) /\ DOMAIN NewLayout(list) = {Root}
         /\ NewLayout(list)[Root] = NewRoot(list)
<1> DEFINE G == NewLayout(list)
           g == NewRoot(list)
<1>1. DOMAIN G = {Root} /\ G[Root] = g /\ G = [j \in DOMAIN G |-> G[j]]
  BY DEF NewLayout
<1>2. Root \in Numbers
  BY MaxBlockAssumption DEF Root, Numbers
<1>3. /\ g.dir /\ g.name = NoName /\ g.parent = Root /\ g.level = 0 /\ g.size = 0
      /\ g.blocks \in Seq(Numbers) /\ Len(g.blocks) = 1 /\ g.blocks[1] = list
      /\ g.kids = <<>> /\ g.data = <<>>
  BY NewRootFacts
<1>4. g \in Placed({Root})
  BY NewRootPlaced
<1> HIDE DEF G, g
<1>5. Len(g.kids) = 0
  BY <1>3
<1>6. LayoutType(G)
  BY <1>1, <1>2, <1>4 DEF LayoutType
<1>7. KindsOK(G) /\ RootOK(G)
  <2>1. Len(g.blocks) = Len(g.kids) + 1
    BY <1>3, <1>5
  <2>2. KindOK(g)
    BY <1>3, <2>1 DEF KindOK
  <2> QED BY <1>1, <1>3, <2>2 DEF KindsOK, RootOK
<1>8. NamesKids(G) /\ NamesOnce(G) /\ NamesAll(G)
  BY <1>1, <1>5 DEF NamesKids, NamesOnce, NamesAll
<1>9. BlocksApart(G) /\ BlocksOnce(G)
  BY <1>1, <1>3 DEF BlocksApart, BlocksOnce
<1>10. Layout(G)
  BY <1>6, <1>7, <1>8, <1>9 DEF Layout
<1> QED BY <1>1, <1>10 DEF G, g

\* whose objects are those the history starts with.
LEMMA NewObjects ==
  ASSUME NEW list \in Numbers, list # Root
  PROVE  ObjectsOf(NewLayout(list)) = NewGoal.objects
<1> DEFINE g == NewRoot(list)
<1>1. DOMAIN NewLayout(list) = {Root} /\ NewLayout(list)[Root] = g
  BY NewLayoutIs
<1>2. g.dir = TRUE /\ g.name = NoName /\ g.size = 0 /\ g.kids = <<>> /\ g.data = <<>>
  BY DEF NewRoot
<1> HIDE DEF g
<1>3. SubSeq(<<>>, 1, 0) = <<>>
  OBVIOUS
<1>4. ObjectOf(g) = [dir |-> TRUE, name |-> NoName, kids |-> <<>>, data |-> <<>>]
  BY <1>2, <1>3 DEF ObjectOf
<1>5. NewGoal.objects = [i \in {Root} |-> [dir |-> TRUE, name |-> NoName, kids |-> <<>>, data |-> <<>>]]
  BY DEF NewGoal
<1> QED BY <1>1, <1>4, <1>5 DEF ObjectsOf

\* Where there are no files, a crash spares them all.
LEMMA NewCareful ==
  ASSUME After(NewGoal.objects), NEW c
  PROVE  Careful(c)
<1>1. PICK f : Reaches(disk, todo', f)
  BY DEF After, Aim
<1>2. goal'.objects = NewGoal.objects
  BY DEF After
<1> DEFINE obj == NewGoal.objects
<1>3. \A i \in DOMAIN obj : obj[i].dir
  BY DEF NewGoal
<1> HIDE DEF obj
<1>4. Disks \subseteq Sparing(obj, c)
  BY <1>3 DEF Sparing, Spared
<1>5. Leads(disk, todo', f, Disks)
  BY <1>1 DEF Reaches
<1>6. Leads(disk, todo', f, Sparing(obj, c))
  BY <1>4, <1>5, LeadsMore
<1> QED BY <1>2, <1>6 DEF Careful, obj

\* A disk of zeros.
Empty(d) == d = [n \in Blocks |-> Zero]

\* fs_init() on a disk of zeros.
LEMMA InitDoes ==
  ASSUME host = FALSE, Empty(disk), FsInit
  PROVE  After(NewGoal.objects) /\ call' = call /\ Loses({})
<1> DEFINE root == FirstFree(Begin)
           r0 == Dalloc(Begin)
           r1 == Put(r0, 0, Super(root))
           list == FirstFree(r1)
           r1a == Dalloc(r1)
           b == Inode(TRUE, NoName, root, list, root)
           e == List(2, list, 0, 0)
           r2 == Put(r1a, root, b)
           r3 == Put(r2, list, e)
           G == NewLayout(list)
<1>1. disk \in Disks /\ \A n \in Blocks : disk[n].flag = 0
  BY FlagIsBlock DEF Disks, Zero, Empty
<1>2. 0 \in Blocks /\ 1 \in Numbers /\ 2 \in Numbers /\ 1 \in Blocks /\ 2 \in Blocks /\ Numbers \subseteq Blocks
      /\ 0 \notin Numbers /\ Numbers \subseteq Nat /\ Root \in Numbers /\ Root \in Blocks /\ Root \in Nat /\ Root # 0
  BY MaxBlockAssumption DEF Blocks, Numbers, Root
<1>3. todo' = r3.log /\ goal' = Goal(r3.disk) /\ UNCHANGED <<disk, call, host, stop>>
  <2>1. disk[0].flag # 1
    BY <1>1, <1>2
  <2> QED BY <2>1 DEF FsInit
<1>4. RunOK(disk, Begin) /\ Begin.disk = disk
  BY <1>1, BeginOK
<1>5. root = Root
  <2> DEFINE S == FreeBlocks(disk)
  <2>1. FreeIn(Begin) = S
    BY <1>4 DEF FreeIn
  <2>2. S = Numbers
    BY <1>1, <1>2 DEF FreeBlocks, Numbers
  <2>3. S \subseteq Nat /\ S # {}
    BY <1>2, <2>2
  <2>4. Min(S) \in S /\ \A k \in S : Min(S) <= k
    <3> HIDE DEF S
    <3> QED BY <2>3, LeastIsIn
  <2>5. Min(S) = 1
    <3> DEFINE m == Min(S)
    <3>1. m \in Numbers /\ m <= 1
      BY <1>2, <2>2, <2>4
    <3> HIDE DEF m
    <3>2. m = 1
      BY <3>1 DEF Numbers
    <3> QED BY <3>2 DEF m
  <2>6. root = Min(S)
    BY <2>1, <2>3 DEF FirstFree
  <2> QED BY <2>5, <2>6 DEF Root
<1>6. RunOK(disk, r0) /\ r0.disk = Written(disk, Root, Taken)
  BY <1>2, <1>4, <1>5, DallocIs
<1>7. Super(Root) \in Block /\ r1 = Put(r0, 0, Super(Root))
  BY <1>2, <1>5, SuperIsBlock
<1> DEFINE sb == Super(Root)
<1> HIDE DEF root, r0, r1, list, r1a, r2, r3, sb
<1>8. RunOK(disk, r1) /\ r1.disk = Written(r0.disk, 0, sb)
  BY <1>2, <1>6, <1>7, PutIs DEF sb
<1>9. r0.disk \in Disks /\ r1.disk \in Disks
  BY <1>6, <1>8 DEF RunOK
<1>10. r0.disk[Root] = Taken /\ \A m \in Blocks : m # Root => r0.disk[m] = disk[m]
  <2> DEFINE o == Root
             x == Taken
  <2>1. o \in Blocks /\ x \in Block /\ r0.disk = Written(disk, o, x)
    BY <1>2, <1>6, FlagIsBlock
  <2> HIDE DEF o, x
  <2>2. r0.disk[o] = x /\ \A m \in Blocks : m # o => r0.disk[m] = disk[m]
    BY <1>1, <2>1, OneWritten
  <2> QED BY <2>2 DEF o, x
<1>11. r1.disk[0] = sb /\ \A m \in Blocks : m # 0 => r1.disk[m] = r0.disk[m]
  <2>1. sb \in Block
    BY <1>7 DEF sb
  <2>2. 0 \in Blocks /\ r0.disk \in Disks /\ r1.disk = Written(r0.disk, 0, sb)
    BY <1>2, <1>8, <1>9
  <2> QED BY <2>1, <2>2, OneWritten
<1>12. list \in Numbers /\ list # Root /\ r1a = Put(r1, list, Taken)
       /\ RunOK(disk, r1a) /\ r1a.disk = Written(r1.disk, list, Taken)
  <2>1. r1.disk[2].flag = 0
    <3>1. r1.disk[2] = r0.disk[2] /\ r0.disk[2] = disk[2]
      BY <1>2, <1>10, <1>11 DEF Root
    <3> QED BY <1>1, <1>2, <3>1
  <2>2. list \in Numbers
    BY <1>2, <1>8, <2>1, DallocIs DEF list
  <2>3. r1.disk[list].flag = 0
    BY <1>8, <2>2, DallocIs DEF list
  <2>4. r1.disk[Root].flag = 1
    BY <1>2, <1>10, <1>11 DEF Taken
  <2>5. r1a = Put(r1, list, Taken)
    BY <1>8, <2>2, DallocIs DEF list, r1a
  <2>6. RunOK(disk, r1a) /\ r1a.disk = Written(r1.disk, list, Taken)
    BY <1>8, <2>2, DallocIs DEF list, r1a
  <2> QED BY <2>2, <2>3, <2>4, <2>5, <2>6
<1>13. list \in Blocks /\ list \in Nat /\ list # 0
  BY <1>2, <1>12
<1>14. b = Inode(TRUE, NoName, Root, list, Root) /\ b \in Block /\ e \in Block
  <2>1. b = Inode(TRUE, NoName, Root, list, Root)
    BY <1>5
  <2>2. b \in Block
    BY <1>2, <1>13, <2>1, InodeIsBlock
  <2>3. e \in Block
    BY <1>13, ListIsBlock
  <2> QED BY <2>1, <2>2, <2>3
<1>15. r2 = Put(r1a, Root, b)
  BY <1>5 DEF r2
<1> HIDE DEF b, e
<1>16. RunOK(disk, r2) /\ r2.disk = Written(r1a.disk, Root, b)
  BY <1>2, <1>12, <1>14, <1>15, PutIs
<1>17. RunOK(disk, r3) /\ r3.disk = Written(r2.disk, list, e)
  BY <1>13, <1>14, <1>16, PutIs DEF r3, e
<1>18. r1a.disk \in Disks /\ r2.disk \in Disks /\ r3.disk \in Disks
  BY <1>12, <1>16, <1>17 DEF RunOK
<1>19. \A m \in Blocks : m # list => r1a.disk[m] = r1.disk[m]
  <2>1. Taken \in Block /\ r1.disk \in Disks /\ r1a.disk = Written(r1.disk, list, Taken)
    BY <1>9, <1>12, FlagIsBlock
  <2> QED BY <1>13, <2>1, OneWritten
<1>20. r2.disk[Root] = b /\ \A m \in Blocks : m # Root => r2.disk[m] = r1a.disk[m]
  <2> DEFINE o == Root
  <2>1. o \in Blocks /\ r2.disk = Written(r1a.disk, o, b) /\ b \in Block
    BY <1>2, <1>14, <1>16
  <2> HIDE DEF o
  <2>2. r2.disk[o] = b /\ \A m \in Blocks : m # o => r2.disk[m] = r1a.disk[m]
    BY <1>18, <2>1, OneWritten
  <2> QED BY <2>2 DEF o
<1>21. r3.disk[list] = e /\ \A m \in Blocks : m # list => r3.disk[m] = r2.disk[m]
  BY <1>13, <1>14, <1>17, <1>18, OneWritten
<1>22. r3.disk[0] = Super(Root) /\ r3.disk[Root] = b
  BY <1>2, <1>11, <1>12, <1>13, <1>19, <1>20, <1>21 DEF sb
<1>23. Layout(G) /\ DOMAIN G = {Root} /\ G[Root] = NewRoot(list)
  BY <1>12, NewLayoutIs
<1> DEFINE g == NewRoot(list)
<1>24. HoldsAt(r3.disk, g, Root)
  <2>1. g.dir /\ g.dir = TRUE /\ g.name = NoName /\ g.parent = Root /\ g.size = 0 /\ g.kids = <<>>
    BY DEF NewRoot
  <2>2. g.blocks[1] = list
    BY <1>12, NewRootFacts
  <2> HIDE DEF g
  <2>3. r3.disk[Root] = InodeOf(g, Root)
    <3>1. InodeOf(g, Root) = Inode(TRUE, NoName, Root, list, Root)
      BY <2>1, <2>2 DEF InodeOf, Inode
    <3> QED BY <1>14, <1>22, <3>1
  <2>4. HoldsList(r3.disk, g.blocks, g.kids)
    <3>1. Len(g.kids) = 0 /\ Len(g.kids) + 1 = 1
      BY <2>1
    <3> QED BY <1>21, <2>2, <3>1 DEF HoldsList, e
  <2> QED BY <2>1, <2>3, <2>4 DEF HoldsAt
<1> HIDE DEF g, G
<1>25. Holds(r3.disk, G)
  BY <1>18, <1>22, <1>23, <1>24 DEF Holds, g
<1>26. ObjectsOf(G) = NewGoal.objects
  BY <1>12, NewObjects DEF G
<1>27. goal'.objects = NewGoal.objects
  <2>1. Objects(r3.disk) = ObjectsOf(G)
    BY <1>23, <1>25, ObjectsIs
  <2>2. goal' = Goal(r3.disk)
    BY <1>3
  <2> QED BY <1>26, <2>1, <2>2 DEF Goal
<1>28. Aim(disk, todo', goal')
  <2>1. todo' = r3.log /\ goal'.lost = LostBlocks(r3.disk)
    BY <1>3 DEF Goal
  <2> QED BY <1>17, <1>23, <1>25, <1>26, <1>27, <2>1 DEF Aim, RunOK
<1>29. After(NewGoal.objects)
  BY <1>3, <1>26, <1>27, <1>28 DEF After
<1>30. Loses({})
  <2>1. goal'.lost = Flagged(r3.disk) \ Owned(G)
    <3>1. LostBlocks(r3.disk) = Flagged(r3.disk) \ Owned(G)
      BY <1>23, <1>25, LostIs
    <3> QED BY <1>3, <3>1 DEF Goal
  <2>2. {0, Root, list} \subseteq Owned(G)
    <3>1. list \in BlocksOf(g)
      BY <1>12, NewRootFacts DEF BlocksOf, g
    <3> QED BY <1>23, <3>1 DEF Owned, g
  <2>3. ASSUME NEW n \in Blocks, n \notin {0, Root, list} PROVE r3.disk[n].flag = 0
    <3>1. r3.disk[n] = disk[n]
      BY <1>10, <1>11, <1>19, <1>20, <1>21, <2>3
    <3> QED BY <1>1, <3>1
  <2>4. DOMAIN r3.disk = Blocks
    BY <1>18 DEF Disks
  <2> QED BY <2>1, <2>2, <2>3, <2>4 DEF Loses, Flagged
<1> QED BY <1>3, <1>29, <1>30

-----------------------------------------------------------------------------
(***************************************************************************)
(* The invariant, and the properties of the run                            *)
(***************************************************************************)
\* The machine has not stopped, and the writes that the call in progress still has to make lead to a disk
\* that holds the tree; before fs_init() has run the disk is empty.
Settled ==
  \/ todo = <<>> /\ Empty(disk) /\ goal.objects = NewGoal.objects /\ goal.lost = {}
  \/ Aim(disk, todo, goal)

Answers == \E c, ret, out : ret \in -7 .. 0 /\ out \in Contents /\ call = Result(c, ret, out)

\* Wherever a crash interrupts the writes, the files are spared that the call is not about.
Safe == todo # <<>> => \E f : Leads(disk, todo, f, Sparing(goal.objects, call.call))

IInv ==
  /\ host = FALSE /\ stop = "no" /\ disk \in Disks /\ todo \in Seq(WriteSet)
  /\ Answers /\ Settled /\ Safe

\* A disk of zeros: the invariant holds at the start.
LEMMA InitHolds ==
  ASSUME Init
  PROVE  IInv
<1>1. host = FALSE /\ stop = "no" /\ todo = <<>> /\ todo \in Seq(WriteSet) /\ goal = NewGoal
  BY DEF Init
<1>2. Empty(disk)
  BY DEF Init, Empty
<1>3. disk \in Disks
  BY <1>2, FlagIsBlock DEF Empty, Disks
<1>4. Answers
  BY ContentType DEF Init, NoCall, Answers
<1> QED BY <1>1, <1>2, <1>3, <1>4 DEF IInv, Settled, Safe, NewGoal

\* Writes that are through have led to the tree.
LEMMA Arrived ==
  ASSUME NEW tree, Aim(disk, <<>>, tree)
  PROVE  \E G : Layout(G) /\ Holds(disk, G) /\ tree.objects = ObjectsOf(G) /\ tree.lost = LostBlocks(disk)
<1>1. PICK f, G : /\ Reaches(disk, <<>>, f) /\ Layout(G) /\ Holds(f, G)
                  /\ tree.objects = ObjectsOf(G) /\ tree.lost = LostBlocks(f)
  BY DEF Aim
<1>2. f = disk
  BY <1>1, EmptyReaches
<1> QED BY <1>1, <1>2

\* An empty disk has no file system.
LEMMA EmptyIs ==
  ASSUME Empty(disk)
  PROVE  disk[0].flag = 0
<1>1. 0 \in Blocks
  BY MaxBlockAssumption DEF Blocks
<1> QED BY <1>1 DEF Empty, Zero

\* A call finds a tree.
LEMMA CallFinds ==
  ASSUME IInv, todo = <<>>, disk[0].flag = 1
  PROVE  \E G : Ready(G)
<1>1. Aim(disk, <<>>, goal)
  BY EmptyIs DEF IInv, Settled
<1>2. \E G : Layout(G) /\ Holds(disk, G) /\ goal.objects = ObjectsOf(G) /\ goal.lost = LostBlocks(disk)
  BY <1>1, Arrived
<1> QED BY <1>2 DEF Ready, IInv

\* A call keeps it.
LEMMA DoneKeeps ==
  ASSUME IInv, NEW c, Done(c)
  PROVE  IInv'
<1>1. PICK objects : After(objects)
  BY DEF Done
<1>2. goal'.objects = objects /\ Aim(disk, todo', goal') /\ disk' = disk /\ host' = host /\ stop' = stop
  BY <1>1 DEF After
<1>3. Aim(disk, todo, goal)'
  BY <1>2 DEF Aim
<1>4. todo' \in Seq(WriteSet)
  BY <1>2 DEF Aim
<1>5. Answers' /\ call'.call = c
  <2>1. Answers'
    BY DEF Done, Answers
  <2>2. PICK ret, out : call' = Result(c, ret, out)
    BY DEF Done
  <2> QED BY <2>1, <2>2 DEF Result
<1>6. Careful(c)
  BY DEF Done
<1>7. Safe'
  BY <1>2, <1>5, <1>6 DEF Safe, Careful
<1> QED BY <1>2, <1>3, <1>4, <1>5, <1>7 DEF IInv, Settled

\* fs_init() keeps the invariant and the tree.
LEMMA InitKeeps ==
  ASSUME IInv, FsInit
  PROVE  IInv' /\ goal'.objects = goal.objects /\ call' = call /\ Loses({})
<1>1. todo = <<>>
  BY DEF FsInit, Idle
<1>2. CASE UNCHANGED vars
  BY <1>2 DEF IInv, Settled, Safe, Answers, Aim, Empty, Reaches, Leads, Holds, Loses, vars
<1>3. CASE disk[0].flag # 1
  <2>1. Empty(disk) /\ goal.objects = NewGoal.objects
    <3>1. CASE Aim(disk, <<>>, goal)
      <4>1. disk[0] = Super(Root)
        BY <3>1, Arrived DEF Holds
      <4> QED BY <1>3, <4>1 DEF Super
    <3> QED BY <1>1, <3>1 DEF IInv, Settled
  <2>2. After(NewGoal.objects) /\ call' = call /\ Loses({})
    BY <2>1, InitDoes DEF IInv
  <2>3. goal'.objects = goal.objects /\ Aim(disk, todo', goal') /\ disk' = disk /\ host' = host /\ stop' = stop
    BY <2>1, <2>2 DEF After
  <2>4. Aim(disk, todo, goal)'
    BY <2>3 DEF Aim
  <2>5. todo' \in Seq(WriteSet)
    BY <2>3 DEF Aim
  <2>6. Answers'
    BY <2>2 DEF IInv, Answers
  <2>7. Safe'
    <3>1. Careful(call.call)
      BY <2>2, NewCareful
    <3> QED BY <2>2, <2>3, <3>1 DEF Safe, Careful
  <2> QED BY <2>2, <2>3, <2>4, <2>5, <2>6, <2>7 DEF IInv, Settled
<1> QED BY <1>2, <1>3 DEF FsInit

\* A write that reaches the disk keeps the invariant.
LEMMA WriteKeeps ==
  ASSUME IInv, WriteBlock
  PROVE  IInv' /\ goal' = goal /\ call' = call
<1> DEFINE e == Written(disk, Head(todo).no, Head(todo).block)
<1>1. /\ todo # <<>> /\ disk' = e /\ todo' = Tail(todo)
      /\ call' = call /\ host' = host /\ stop' = stop /\ goal' = goal
  BY DEF WriteBlock
<1>2. Aim(disk, todo, goal)
  BY <1>1 DEF IInv, Settled
<1>3. PICK f, G : /\ todo \in Seq(WriteSet) /\ Reaches(disk, todo, f) /\ Layout(G) /\ Holds(f, G)
                  /\ goal.objects = ObjectsOf(G) /\ goal.lost = LostBlocks(f)
  BY <1>2 DEF Aim
<1>4. Tail(todo) \in Seq(WriteSet) /\ e \in Disks /\ Reaches(e, Tail(todo), f)
  BY <1>1, <1>3, FirstWritten
<1>8. PICK h : Leads(disk, todo, h, Sparing(goal.objects, call.call))
  BY <1>1 DEF IInv, Safe
<1>9. Leads(e, Tail(todo), h, Sparing(goal.objects, call.call))
  BY <1>1, <1>3, <1>8, FirstLeads
<1> HIDE DEF e
<1>5. Aim(e, Tail(todo), goal)
  BY <1>3, <1>4 DEF Aim
<1>6. Aim(disk, todo, goal)'
  BY <1>1, <1>5
<1>7. Answers'
  BY <1>1 DEF IInv, Answers
<1>10. Safe'
  BY <1>1, <1>9 DEF Safe
<1> QED BY <1>1, <1>4, <1>6, <1>7, <1>10 DEF IInv, Settled

\* The answer to the caller keeps it.
LEMMA AnswerKeeps ==
  ASSUME IInv, Answer
  PROVE  IInv' /\ goal' = goal
<1>1. call' = NoCall /\ UNCHANGED <<disk, todo, host, stop, goal>>
  BY DEF Answer
<1>2. Answers'
  BY <1>1, ContentType DEF NoCall, Answers
<1>3. Settled'
  BY <1>1 DEF IInv, Settled, Aim, Empty, Reaches, Leads, Holds
<1>4. todo = <<>>
  BY DEF Answer
<1> QED BY <1>1, <1>2, <1>3, <1>4 DEF IInv, Safe

\* So does a step that changes nothing.
LEMMA StillKeeps ==
  ASSUME IInv, UNCHANGED vars
  PROVE  IInv'
BY DEF IInv, Settled, Safe, Answers, Aim, Empty, Reaches, Leads, Holds, vars

\* Every step keeps it, and does what is promised.
LEMMA StepDoes ==
  ASSUME Calm, IInv, [Next]_vars
  PROVE  IInv' /\ [Promise!Next]_<<goal.objects, call>> /\ Frugal
<1>8. Loses({}) => Frugal
  BY DEF Loses, Frugal
<1>9. goal' = goal => Frugal
  BY DEF Frugal
<1>10. ASSUME NEW c, Done(c) PROVE Frugal
  BY <1>10 DEF Done
<1>1. CASE FsInit
  BY <1>1, <1>8, InitKeeps
<1>2. CASE \E path \in DirPaths, name \in Names : FsCreate(path, name) \/ FsMkdir(path, name)
  <2>1. PICK path \in DirPaths, name \in Names : FsCreate(path, name) \/ FsMkdir(path, name)
    BY <1>2
  <2>2. todo = <<>> /\ disk[0].flag = 1 /\ call = NoCall
    BY <2>1 DEF FsCreate, FsMkdir, Called, Idle
  <2>3. PICK G : Ready(G)
    BY <2>2, CallFinds
  <2>4. \/ Done("create") /\ Promise!Add("create", path, name, FALSE)
        \/ Done("mkdir") /\ Promise!Add("mkdir", path, name, TRUE)
    BY <2>1, <2>3, CreateDoes, MkdirDoes
  <2>5. path \in Paths
    BY PathType
  <2>6. IInv'
    BY <2>4, DoneKeeps
  <2>7. ASSUME NEW c, Done(c) PROVE Promise!Is(c)
    BY <2>2, <2>7 DEF Done, Promise!Is, Promise!NoResult, Promise!Result, NoCall, Result
  <2> QED BY <1>10, <2>4, <2>5, <2>6, <2>7 DEF Promise!Next
<1>3. CASE \E path \in Paths, data \in Contents : FsWrite(path, data)
  <2>1. PICK path \in Paths, data \in Contents : FsWrite(path, data)
    BY <1>3
  <2>2. todo = <<>> /\ disk[0].flag = 1 /\ call = NoCall
    BY <2>1 DEF FsWrite, Called, Idle
  <2>3. PICK G : Ready(G)
    BY <2>2, CallFinds
  <2>4. Done("write") /\ Promise!Write(path, data)
    BY <2>1, <2>3, WriteDoes
  <2>5. IInv'
    BY <2>4, DoneKeeps
  <2>6. Promise!Is("write")
    BY <2>2, <2>4 DEF Done, Promise!Is, Promise!NoResult, Promise!Result, NoCall, Result
  <2> QED BY <1>10, <2>4, <2>5, <2>6 DEF Promise!Next
<1>4. CASE \E path \in Paths : FsRead(path) \/ FsRm(path) \/ FsRmdir(path)
  <2>1. PICK path \in Paths : FsRead(path) \/ FsRm(path) \/ FsRmdir(path)
    BY <1>4
  <2>2. todo = <<>> /\ disk[0].flag = 1 /\ call = NoCall
    BY <2>1 DEF FsRead, FsRm, FsRmdir, Called, Idle
  <2>3. PICK G : Ready(G)
    BY <2>2, CallFinds
  <2>4. \/ Done("read") /\ Promise!Read(path)
        \/ Done("rm") /\ Promise!Rm(path)
        \/ Done("rmdir") /\ Promise!Rmdir(path)
    BY <2>1, <2>3, ReadDoes, RmDoes, RmdirDoes
  <2>5. IInv'
    BY <2>4, DoneKeeps
  <2>6. ASSUME NEW c, Done(c) PROVE Promise!Is(c)
    BY <2>2, <2>6 DEF Done, Promise!Is, Promise!NoResult, Promise!Result, NoCall, Result
  <2> QED BY <1>10, <2>4, <2>5, <2>6 DEF Promise!Next
<1>5. CASE WriteBlock
  BY <1>5, <1>9, WriteKeeps
<1>6. CASE Answer
  <2>1. IInv' /\ goal' = goal
    BY <1>6, AnswerKeeps
  <2>2. Promise!Answer
    BY <1>6, <2>1 DEF Answer, Promise!Answer, Promise!NoResult, Promise!Result, NoCall, Result
  <2> QED BY <1>9, <2>1, <2>2 DEF Promise!Next
<1>7. CASE UNCHANGED vars
  BY <1>7, <1>9, StillKeeps DEF vars
<1> QED BY <1>1, <1>2, <1>3, <1>4, <1>5, <1>6, <1>7 DEF Next

\* The invariant says of which type the variables are,
LEMMA InvType ==
  ASSUME IInv
  PROVE  TypeOK
<1>1. DOMAIN disk = Blocks /\ \A n \in Blocks : disk[n] \in Block
  BY DEF IInv, Disks
<1>2. \A n \in Blocks : disk[n].flag \in 0 .. 2
  BY <1>1 DEF Block
<1>3. todo \in Seq([no : DOMAIN disk, block : {w.block : w \in ToSet(todo)}])
  <2> DEFINE S == {w.block : w \in ToSet(todo)}
             A == [no : DOMAIN disk, block : S]
  <2>1. todo \in Seq(WriteSet)
    BY DEF IInv
  <2>2. ASSUME NEW k \in 1 .. Len(todo) PROVE todo[k] \in A
    <3>1. todo[k].no \in DOMAIN disk /\ todo[k] = [no |-> todo[k].no, block |-> todo[k].block]
      <4>1. todo[k] \in WriteSet
        BY <2>1
      <4>2. WriteSet = [no : Blocks, block : Block]
        BY DEF WriteSet
      <4> QED BY <1>1, <4>1, <4>2
    <3>2. todo[k] \in ToSet(todo)
      BY <2>1 DEF ToSet
    <3>3. todo[k].block \in S
      BY <3>2
    <3> HIDE DEF S
    <3> QED BY <3>1, <3>3
  <2> HIDE DEF A
  <2>3. todo = [k \in 1 .. Len(todo) |-> todo[k]] /\ Len(todo) \in Nat
    BY <2>1
  <2>4. todo \in [1 .. Len(todo) -> A]
    BY <2>2, <2>3
  <2>5. todo \in Seq(A)
    BY <2>3, <2>4
  <2> QED BY <2>5 DEF A
<1>4. call.ret \in -7 .. 0 /\ call.out \in Contents
  BY DEF IInv, Answers, Result
<1>5. stop = "no"
  BY DEF IInv
<1> QED BY <1>1, <1>2, <1>3, <1>4, <1>5 DEF TypeOK, NoReturn

\* and that the tree is sound when no write is left to make.
LEMMA InvSound ==
  ASSUME IInv
  PROVE  TreeSound
<1>1. stop = "no"
  BY DEF IInv
<1>2. CASE todo = <<>> /\ disk[0].flag = 1
  BY <1>1, <1>2, CallFinds, SoundDisk DEF Ready
<1>3. CASE ~(todo = <<>> /\ disk[0].flag = 1)
  BY <1>1, <1>3 DEF TreeSound
<1> QED BY <1>2, <1>3

\* The invariant holds in every state: whatever has been called, the writes still to be made
\* lead to a disk that holds the tree.
THEOREM SpecInv == ASSUME Calm PROVE Spec => []IInv
<1>1. Init => IInv
  BY InitHolds
<1>2. IInv /\ [Next]_vars => IInv'
  BY StepDoes
<1> QED BY <1>1, <1>2, PTL DEF Spec

\* Every variable of the file system keeps its type: no bwrite() of fs.c is beyond the disk, and
\* none makes a block whose flag is neither free nor taken nor the end of a list.
THEOREM TypeCorrect == ASSUME Calm PROVE Spec => []TypeOK
<1>1. IInv => TypeOK
  BY InvType
<1> QED BY <1>1, SpecInv, PTL

\* Between two calls the tree on the disk is sound: lists and chains end, no block is part of
\* two of them, and every block and inode knows its own number and its directory.  No call goes
\* round a list for ever or follows a null pointer.
THEOREM TreesSound == ASSUME Calm PROVE Spec => []TreeSound
<1>1. IInv => TreeSound
  BY InvSound
<1> QED BY <1>1, SpecInv, PTL

\* fs_create(), fs_mkdir(), fs_write(), fs_read(), fs_rm() and fs_rmdir() do what DirectoryTree
\* promises, each as a whole.
THEOREM PromiseKept == ASSUME Calm PROVE Spec => ImplementsDirectoryTree
<1>1. Init => Promise!Init
  BY DEF Init, Promise!Init, Promise!Object, Promise!NoResult, Promise!Result, NewGoal, NoCall, Result
<1>2. IInv /\ [Next]_vars => [Promise!Next]_<<goal.objects, call>>
  BY StepDoes
<1> QED BY <1>1, <1>2, SpecInv, PTL DEF Spec, Promise!Spec, ImplementsDirectoryTree

\* No call loses a block of the disk, but for fs_rmdir() and a call that finds one block and not a second: each
\* loses one, the list block of the directory or the inode that was begun.
THEOREM BlocksKept == ASSUME Calm PROVE Spec => OnlyRmdirLoses
<1>1. IInv /\ [Next]_vars =>
        [~host /\ goal'.lost \ goal.lost # {} =>
           /\ Cardinality(goal'.lost \ goal.lost) = 1
           /\ call'.ret = -3 \/ (call'.call = "rmdir" /\ call'.ret = 0)]_vars
  BY StepDoes DEF Frugal
<1> QED BY <1>1, SpecInv, PTL DEF Spec, OnlyRmdirLoses

\* The objects are records.
LEMMA ObjectsKnown ==
  ASSUME IInv, NEW i \in DOMAIN goal.objects
  PROVE  goal.objects[i] = [dir  |-> goal.objects[i].dir, name |-> goal.objects[i].name,
                            kids |-> goal.objects[i].kids, data |-> goal.objects[i].data]
<1>1. CASE goal.objects = NewGoal.objects
  BY <1>1 DEF NewGoal
<1>2. CASE Aim(disk, todo, goal)
  <2>1. PICK G : goal.objects = ObjectsOf(G)
    BY <1>2 DEF Aim
  <2> DEFINE g == G[i]
             o == goal.objects[i]
  <2>2. o = ObjectOf(g)
    BY <2>1 DEF ObjectsOf
  <2> HIDE DEF g, o
  <2>3. o = [dir |-> o.dir, name |-> o.name, kids |-> o.kids, data |-> o.data]
    BY <2>2 DEF ObjectOf
  <2> QED BY <2>3 DEF o
<1> QED BY <1>1, <1>2 DEF IInv, Settled

\* A step that changes no file but one, in a call that writes or removes.
LEMMA OneChange ==
  ASSUME NEW f, \A i \in DOMAIN goal.objects : FileChanges(i) => i = f,
         call'.call \in {"write", "rm"} \/ \A i \in DOMAIN goal.objects : ~FileChanges(i)
  PROVE  OneFileChanges
<1> DEFINE changed == {i \in DOMAIN goal.objects : FileChanges(i)}
<1> SUFFICES ASSUME changed # {} PROVE Cardinality(changed) = 1 /\ call'.call \in {"write", "rm"}
  BY DEF OneFileChanges
<1>1. changed = {f}
  OBVIOUS
<1>2. call'.call \in {"write", "rm"}
  OBVIOUS
<1> HIDE DEF changed
<1> QED BY <1>1, <1>2, FS_Singleton

\* An object is taken out of the tree: it is the only one that changes.
LEMMA DropChanges ==
  ASSUME IInv, NEW id, Promise!Drop(id), NEW i \in DOMAIN goal.objects, FileChanges(i)
  PROVE  i = id
<1> SUFFICES ASSUME i # id PROVE FALSE
  OBVIOUS
<1> DEFINE g == goal.objects[i]
           kids == Promise!Without(goal.objects[i].kids, id)
<1>1. i \in DOMAIN goal'.objects /\ goal'.objects[i] = [g EXCEPT !.kids = kids]
  BY DEF Promise!Drop
<1>2. g = [dir |-> g.dir, name |-> g.name, kids |-> g.kids, data |-> g.data]
  BY ObjectsKnown
<1> HIDE DEF kids
<1>3. goal'.objects[i].dir = g.dir /\ goal'.objects[i].name = g.name /\ goal'.objects[i].data = g.data
  <2> HIDE DEF g
  <2> QED BY <1>1, <1>2
<1> QED BY <1>1, <1>3 DEF FileChanges

\* What is promised of a step changes one file at most.
LEMMA PromiseKeepsFiles ==
  ASSUME IInv, Promise!Next
  PROVE  OneFileChanges
<1>1. CASE goal'.objects = goal.objects
  <2>1. \A i \in DOMAIN goal.objects : ~FileChanges(i)
    BY <1>1 DEF FileChanges
  <2> QED BY <2>1, OneChange
<1>2. ASSUME NEW c, NEW path, NEW name, NEW isDir, Promise!Add(c, path, name, isDir), goal'.objects # goal.objects
      PROVE  OneFileChanges
  <2>1. PICK d \in Promise!Directory(path), id \in Blocks \ DOMAIN goal.objects :
          goal'.objects = [i \in DOMAIN goal.objects \cup {id} |->
                             IF i = id THEN Promise!Object(isDir, name)
                             ELSE IF i = d THEN [goal.objects[d] EXCEPT !.kids = Append(@, id)]
                             ELSE goal.objects[i]]
    BY <1>2 DEF Promise!Add, Promise!Refuse
  <2>2. goal.objects[d].dir
    BY DEF Promise!Directory
  <2>3. \A i \in DOMAIN goal.objects : i # d => i \in DOMAIN goal'.objects /\ goal'.objects[i] = goal.objects[i]
    BY <2>1
  <2>4. \A i \in DOMAIN goal.objects : ~FileChanges(i)
    BY <2>2, <2>3 DEF FileChanges
  <2> QED BY <2>4, OneChange
<1>3. ASSUME NEW path, NEW data, Promise!Write(path, data), Promise!Is("write"), goal'.objects # goal.objects
      PROVE  OneFileChanges
  <2>1. PICK f \in Promise!File(path) : goal'.objects = [goal.objects EXCEPT ![f].data = data]
    BY <1>3 DEF Promise!Write, Promise!Refuse
  <2>2. \A i \in DOMAIN goal.objects : i # f => i \in DOMAIN goal'.objects /\ goal'.objects[i] = goal.objects[i]
    BY <2>1
  <2>3. \A i \in DOMAIN goal.objects : FileChanges(i) => i = f
    BY <2>2 DEF FileChanges
  <2>4. call'.call = "write"
    BY <1>3 DEF Promise!Is
  <2> QED BY <2>3, <2>4, OneChange
<1>4. ASSUME NEW path, Promise!Rm(path), Promise!Is("rm"), goal'.objects # goal.objects
      PROVE  OneFileChanges
  <2>1. PICK f \in Promise!File(path) : Promise!Drop(f)
    BY <1>4 DEF Promise!Rm, Promise!Refuse
  <2>2. \A i \in DOMAIN goal.objects : FileChanges(i) => i = f
    BY <2>1, DropChanges
  <2>3. call'.call = "rm"
    BY <1>4 DEF Promise!Is
  <2> QED BY <2>2, <2>3, OneChange
<1>5. ASSUME NEW path, Promise!Rmdir(path), goal'.objects # goal.objects
      PROVE  OneFileChanges
  <2>1. PICK d \in Promise!Directory(path) : Promise!Drop(d)
    BY <1>5 DEF Promise!Rmdir, Promise!Refuse
  <2>2. goal.objects[d].dir
    BY DEF Promise!Directory
  <2>3. \A i \in DOMAIN goal.objects : ~FileChanges(i)
    <3>1. \A i \in DOMAIN goal.objects : FileChanges(i) => i = d
      BY <2>1, DropChanges
    <3> QED BY <2>2, <3>1 DEF FileChanges
  <2> QED BY <2>3, OneChange
<1> QED
  BY <1>1, <1>2, <1>3, <1>4, <1>5 DEF Promise!Next, Promise!Read, Promise!Refuse, Promise!Answer

\* Every step changes one file at most.
LEMMA StepKeepsFiles ==
  ASSUME Calm, IInv, [Next]_vars
  PROVE  [OneFileChanges]_goal
<1>1. CASE Promise!Next
  BY <1>1, PromiseKeepsFiles
<1>2. CASE UNCHANGED <<goal.objects, call>>
  <2>1. \A i \in DOMAIN goal.objects : ~FileChanges(i)
    BY <1>2 DEF FileChanges
  <2> QED BY <2>1, OneChange
<1> QED BY <1>1, <1>2, StepDoes

\* A call changes what at most one file holds, the one that fs_write() or fs_rm() is about.
THEOREM FilesStay == ASSUME Calm PROVE Spec => FilesKept
<1>1. IInv /\ [Next]_vars => [OneFileChanges]_goal
  BY StepKeepsFiles
<1> QED BY <1>1, SpecInv, PTL DEF Spec, FilesKept
=============================================================================
